---------------------------- MODULE MCDatastore ----------------------------
(* Model values for Datastore.                                             *)
EXTENDS Datastore

CONSTANTS id, br, q

\* Documents that clients send: without an id, with an id, and complete.
MCInline == {{}, {br}, {id}, {id, br, q}}

MCInlineXml == {{}, {br}, {id}, {id, br}}
=============================================================================
