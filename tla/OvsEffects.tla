----------------------------- MODULE OvsEffects -----------------------------
(***************************************************************************)
(* What an edit of running changes beside the rows of OVSDB: certificate   *)
(* files, network devices and OpenFlow ports (ovs-data.c, called from      *)
(* edit_delete and edit_create).                                           *)
(*                                                                         *)
(* Columns of OVSDB belong to the transaction and are restored when it is  *)
(* aborted.  Files are written and unlinked, devices and OpenFlow ports    *)
(* are configured, at once, and nothing takes that back.                   *)
(*                                                                         *)
(* There is at most one SSL row.  It holds the names of the files          *)
(* cert.pem, key.pem and ca_cert.pem, or "", and the resource-ids of the   *)
(* owned and of the external certificate.  Ports belong to a bridge all    *)
(* the time; how they get there is the subject of OvsRows.                 *)
(***************************************************************************)
EXTENDS Naturals, Sequences, FiniteSets

CONSTANTS
    System,     \* ports that are devices of the kernel
    Internal,   \* ports that only OpenFlow knows
    Bare,       \* system ports that have no device flag but IFF_UP
    ResIds,     \* resource-ids of certificates
    Texts,      \* contents of certificates and keys
    Values,     \* values of requested-number and tunnel options
    Absent,     \* no value, no file, no row
    Broken,     \* contents of a file whose writing failed half way
    Areas,      \* bound: what one behaviour has: the areas that its clients
                \* edit, and the ports that OpenFlow may not list
    MaxOps      \* bound: elements that one edit deletes or writes

ASSUME EffectsAssumption ==
    /\ Bare \subseteq System /\ System \cap Internal = {}
    /\ {Absent, Broken} \cap (ResIds \cup Texts \cup Values) = {}
    /\ Absent \notin {"RSA", "DSA", "ipgre-tunnel", "vxlan-tunnel", "up", "down", "true", "false",
                    "listed"}
    /\ Areas \subseteq SUBSET ({<<"cert">>} \cup ({"iface", "dev", "of"} \X (System \cup Internal)))
    /\ MaxOps \in Nat

VARIABLES
    area,     \* a member of Areas, fixed
    db,       \* the columns stored in OVSDB
    now,      \* columns as the transaction sees them; files; ports
    phase,    \* "idle", "delete" or "write", as in OvsRows
    doc,      \* the running document as it was read, without what the edit
              \* has deleted
    ask,      \* history: the document the client asks for
    n,        \* elements handled so far
    hist,     \* history: parts the edit changed outside the transaction,
              \* wrote as a whole, or is known to mishandle
    seen,     \* history: the document that successful edits have asked for
    dirty     \* history: parts that are not promised to agree with seen

vars == <<area, db, now, phase, doc, ask, n, hist, seen, dirty>>

Ports    == System \cup Internal
Tunnels  == {"ipgre-tunnel", "vxlan-tunnel"}
Options  == {"key", "csum"}     \* "key" stands for the endpoints as well
KeyTypes == {"RSA", "DSA"}
Keys     == [type : KeyTypes, data : Texts]

SslRow == [own : ResIds \cup {Absent}, ext : ResIds \cup {Absent},
           cert : BOOLEAN, key : BOOLEAN, ca : BOOLEAN]
NoRow  == [own |-> Absent, ext |-> Absent, cert |-> FALSE, key |-> FALSE, ca |-> FALSE]
Iface  == [req : Values \cup {Absent}, tunnel : Tunnels \cup {Absent},
           opt : [Options -> Values \cup {Absent}]]

-----------------------------------------------------------------------------
(* Results of a txn_ function: the state it leaves, and whether it failed. *)

Ok(s)  == [err |-> FALSE, s |-> s]
Err(s) == [err |-> TRUE, s |-> s]

\* The second function is called if the first one succeeds.
Then(R, F(_)) == UNION {IF r.err THEN {r} ELSE F(r.s) : r \in R}

\* write_cert, and the same steps for key.pem: creat() fails, or truncates
\* the file and then write() fails.
WriteFile(s, f, text) ==
    {Ok([s EXCEPT !.file[f] = text]), Err(s), Err([s EXCEPT !.file[f] = Broken])}

-----------------------------------------------------------------------------
(* Certificates                                                            *)

\* find_ssl
Owned(s, r)    == s.row /\ s.ssl.own = r
External(s, r) == s.row /\ s.ssl.ext = r

\* txn_add_owned_certificate: of a second one only the resource-id matters.
TxnAddOwned(s, r, c, k) ==
    LET link(t) == {Ok([t EXCEPT !.row = TRUE, !.ssl.own = r,
                                 !.ssl.cert = TRUE, !.ssl.key = TRUE])}
        key(t)  == WriteFile(t, "key.pem", k)
    IN  IF s.row /\ s.ssl.own \notin {Absent, r} THEN {Err(s)}
        ELSE Then(Then(WriteFile(s, "cert.pem", c), key), link)

\* txn_add_external_certificate
TxnAddExternal(s, r, c) ==
    LET link(t) == {Ok([t EXCEPT !.row = TRUE, !.ssl.ext = r, !.ssl.ca = TRUE])}
    IN  IF s.row /\ s.ssl.ext \notin {Absent, r} THEN {Err(s)}
        ELSE Then(WriteFile(s, "ca_cert.pem", c), link)

\* txn_mod_own_cert_certificate: with a certificate, and to remove it, where
\* the code clears the column of the external one.
TxnModOwnCert(s, r, c) ==
    LET set(t) == {Ok([t EXCEPT !.ssl.cert = TRUE])}
    IN  IF ~Owned(s, r) THEN {Err(s)} ELSE Then(WriteFile(s, "cert.pem", c), set)

RemoveOwnCert(s, r) ==
    IF ~Owned(s, r) THEN {Err(s)}
    ELSE {Ok([s EXCEPT !.file["cert.pem"] = Absent, !.ssl.ca = FALSE])}

\* parse_pem
ParsePem(s) == s.ssl.key /\ s.file["key.pem"] \in Keys

\* txn_mod_own_cert_key_type: the three letters are overwritten in the file.
TxnModKeyType(s, r, t) ==
    IF ~Owned(s, r) \/ ~ParsePem(s) THEN {Err(s)}
    ELSE {Ok([s EXCEPT !.file["key.pem"].type = t]), Err(s),
          Err([s EXCEPT !.file["key.pem"] = Broken])}

\* Variant: the data are written without the markers of the PEM format.
TxnModKeyDataRaw(s, r, d) ==
    IF ~Owned(s, r) \/ ~ParsePem(s) THEN {Err(s)} ELSE WriteFile(s, "key.pem", d)

\* txn_mod_own_cert_key_data: the file is truncated and written again.
TxnModKeyData(s, r, d) ==
    IF ~Owned(s, r) \/ ~ParsePem(s) THEN {Err(s)}
    ELSE WriteFile(s, "key.pem", [s.file["key.pem"] EXCEPT !.data = d])

\* txn_mod_ext_cert_certificate
TxnModExtCert(s, r, c) ==
    LET set(t) == {Ok([t EXCEPT !.ssl.ca = TRUE])}
    IN  IF ~External(s, r) THEN {Err(s)} ELSE Then(WriteFile(s, "ca_cert.pem", c), set)

RemoveExtCert(s, r) ==
    IF ~External(s, r) THEN {Err(s)}
    ELSE {Ok([s EXCEPT !.file["ca_cert.pem"] = Absent, !.ssl.ca = FALSE])}

\* Variant: the row is deleted although the external certificate uses it.
TxnDelOwnedRow(s, r) ==
    IF ~Owned(s, r) THEN {Err(s)} ELSE {Ok([s EXCEPT !.row = FALSE, !.ssl = NoRow])}

\* txn_del_owned_certificate: the last certificate takes the row with it, and
\* leaves its files.
TxnDelOwned(s, r) ==
    CASE ~Owned(s, r) -> {Err(s)}
      [] Owned(s, r) /\ s.ssl.ext = Absent -> {Ok([s EXCEPT !.row = FALSE, !.ssl = NoRow])}
      [] OTHER -> {Ok([s EXCEPT !.file["cert.pem"] = Absent, !.file["key.pem"] = Absent,
                                !.ssl.own = Absent, !.ssl.cert = FALSE, !.ssl.key = FALSE])}

\* Variant: the row is kept when it is empty.
TxnDelExternalKeepsRow(s, r) ==
    IF ~External(s, r) THEN {Err(s)}
    ELSE {Ok([s EXCEPT !.file["ca_cert.pem"] = Absent, !.ssl.ext = Absent, !.ssl.ca = FALSE])}

\* txn_del_external_certificate
TxnDelExternal(s, r) ==
    CASE ~External(s, r) -> {Err(s)}
      [] External(s, r) /\ s.ssl.own = Absent -> {Ok([s EXCEPT !.row = FALSE, !.ssl = NoRow])}
      [] OTHER -> {Ok([s EXCEPT !.file["ca_cert.pem"] = Absent,
                                !.ssl.ext = Absent, !.ssl.ca = FALSE])}

-----------------------------------------------------------------------------
(* Ports                                                                   *)

\* txn_mod_port_reqnumber
TxnModReqnumber(s, p, v) == {Ok([s EXCEPT !.iface[p].req = v])}

\* txn_add_port_tunnel: options that are set already keep their value, and
\* checksum-present is not known here.
TxnAddTunnel(s, p, t, v) ==
    {Ok([s EXCEPT !.iface[p].tunnel = t,
                  !.iface[p].opt["key"] = IF @ = Absent THEN v ELSE @])}

\* txn_del_port_tunnel: all options but checksum-present.
TxnDelTunnel(s, p) ==
    {Ok([s EXCEPT !.iface[p].tunnel = Absent, !.iface[p].opt["key"] = Absent])}

\* txn_mod_port_tunnel_opt
TxnModTunnelOpt(s, p, o, v) == {Ok([s EXCEPT !.iface[p].opt[o] = v])}

\* txn_mod_port_admin_state; v = Absent to delete.  The flags are tested with
\* && IFF_UP: a device with any flag counts as up.
TxnModAdmin(s, p, v) ==
    IF v = Absent /\ (s.dev[p].up \/ p \notin Bare) THEN {Ok(s)}
    ELSE {Ok([s EXCEPT !.dev[p].up = (v \in {Absent, "up"})]), Err(s)}

\* of_mod_port_cfg_internal: the switch may be out of reach or refuse.
OfModPort(s, p, leaf, v) ==
    {Ok(IF leaf = "admin" THEN [s EXCEPT !.dev[p].up = (v \in {Absent, "up"})]
                          ELSE [s EXCEPT !.dev[p].bit = (v = "true")]), Err(s)}

\* of_mod_port_cfg
OfModPortCfg(s, p, leaf, v) ==
    IF leaf = "admin" /\ p \in System THEN TxnModAdmin(s, p, v) ELSE OfModPort(s, p, leaf, v)

\* dev_set_ethtool, done or refused by the driver.
DevSetEthtool(s, p, on, done) == IF done THEN [s EXCEPT !.dev[p].rate = on] ELSE s

\* txn_add_port_advert, txn_del_port_advert, for a rate: they succeed whatever
\* dev_set_ethtool says.
TxnAddAdvert(s, p, done) ==
    IF p \notin System THEN {Err(s)} ELSE {Ok(DevSetEthtool(s, p, TRUE, done))}
TxnDelAdvert(s, p, done) ==
    IF p \notin System THEN {Err(s)} ELSE {Ok(DevSetEthtool(s, p, FALSE, done))}

-----------------------------------------------------------------------------
(* The running document: elements are <<kind, owner, leaf, value>>.        *)

\* get_owned_certificates_config: nothing, if a file cannot be read.
OwnedConfig(s) ==
    IF s.row /\ s.ssl.own # Absent /\ s.ssl.cert /\ s.file["cert.pem"] \in Texts /\ ParsePem(s)
    THEN {<<"cert", "own", "resource-id", s.ssl.own>>,
          <<"cert", "own", "certificate", s.file["cert.pem"]>>,
          <<"cert", "own", "key-type", s.file["key.pem"].type>>,
          <<"cert", "own", "key-data", s.file["key.pem"].data>>}
    ELSE {}

\* get_external_certificates_config
ExternalConfig(s) ==
    IF s.row /\ s.ssl.ext # Absent /\ s.ssl.ca /\ s.file["ca_cert.pem"] \in Texts
    THEN {<<"cert", "ext", "resource-id", s.ssl.ext>>,
          <<"cert", "ext", "certificate", s.file["ca_cert.pem"]>>}
    ELSE {}

\* get_ports_config.  The settings come from OpenFlow (of = "listed"); if it
\* is out of reach or does not list the port, all there is of them is the
\* column admin_state of OVSDB, which may be empty.
PortConfig(s, p, of) ==
    LET i == s.iface[p]
        d == s.dev[p]
    IN  {e \in {<<"iface", p, "requested-number", i.req>>, <<"iface", p, "tunnel", i.tunnel>>} :
           e[4] # Absent}
        \cup {e \in {<<"iface", p, o, i.opt[o]>> : o \in Options} :
                /\ i.tunnel # Absent /\ e[4] # Absent
                /\ e[3] = "csum" => i.tunnel = "ipgre-tunnel"}
        \cup (IF of = "listed"
              THEN {<<"dev", p, "admin", IF d.up THEN "up" ELSE "down">>,
                    <<"dev", p, "bit", IF d.bit THEN "true" ELSE "false">>}
              ELSE {e \in {<<"dev", p, "admin", of>>} : of # Absent})
        \cup {e \in {<<"dev", p, "rate", "on">>} : p \in System /\ d.rate}

Shown(s, of) ==
    OwnedConfig(s) \cup ExternalConfig(s) \cup UNION {PortConfig(s, p, of[p]) : p \in Ports}

Listed == [p \in Ports |-> "listed"]

\* What a read may get of the ports: ovs-vswitchd writes admin_state in its
\* own time (external), so that the column may be behind the device.
Views ==
    {of \in [Ports -> {"listed", "up", "down", Absent}] :
       \A p \in Ports : <<"of", p>> \notin area => of[p] = "listed"}

-----------------------------------------------------------------------------
(* Transactions                                                            *)

NoHist == [touched |-> {}, whole |-> {}, spoilt |-> {}]

Init ==
    /\ area \in Areas
    /\ now = [row |-> FALSE, ssl |-> NoRow,
              iface |-> [p \in Ports |-> [req |-> Absent, tunnel |-> Absent,
                                          opt |-> [o \in Options |-> Absent]]],
              file |-> [f \in {"cert.pem", "key.pem", "ca_cert.pem"} |-> Absent],
              dev |-> [p \in Ports |-> [up |-> TRUE, bit |-> FALSE, rate |-> FALSE]]]
    /\ db = [row |-> now.row, ssl |-> now.ssl, iface |-> now.iface]
    /\ phase = "idle" /\ n = 0
    /\ doc = {} /\ ask = {}
    /\ seen = Shown(now, Listed)
    /\ hist = NoHist
    /\ dirty = {}

Begin ==
    /\ phase = "idle"
    /\ phase' = "delete"
    /\ \E of \in Views : doc' = Shown(now, of)
    /\ ask' = Shown(now, Listed)
    /\ UNCHANGED <<area, db, now, n, hist, seen, dirty>>

Idle == phase' = "idle" /\ n' = 0 /\ doc' = {} /\ ask' = {} /\ hist' = NoHist

\* txn_abort: the columns are as before, files and ports stay as they are.
TxnAbort(s, touched) ==
    /\ now' = [s EXCEPT !.row = db.row, !.ssl = db.ssl, !.iface = db.iface]
    /\ dirty' = dirty \cup touched
    /\ Idle
    /\ UNCHANGED <<area, db, seen>>

\* One element of the edit: results R, elements D deleted and M created.  The
\* element belongs to part; whole says that all of the part is written, and
\* spoilt are parts that the code is known to mishandle here.
Handle(R, D, M, part, whole, spoilt) ==
    /\ n < MaxOps
    /\ \E r \in R :
         LET touched == hist.touched \cup
                          (IF r.s.file # now.file \/ r.s.dev # now.dev THEN {part} ELSE {})
         IN  IF r.err THEN TxnAbort(r.s, touched)
             ELSE /\ now' = r.s
                  /\ doc' = doc \ D
                  /\ ask' = {e \in ask \ D : \A m \in M : SubSeq(e, 1, 3) # SubSeq(m, 1, 3)} \cup M
                  /\ n' = n + 1
                  /\ phase' = IF M = {} THEN phase ELSE "write"
                  /\ hist' = [touched |-> touched,
                              whole |-> IF whole THEN hist.whole \cup {part} ELSE hist.whole,
                              spoilt |-> hist.spoilt \cup spoilt]
                  /\ UNCHANGED <<area, db, seen, dirty>>

Delete(R, D, part, whole, spoilt) ==
    phase = "delete" /\ Handle(R, D, {}, part, whole, spoilt)
Write(R, D, M, part, whole, spoilt) ==
    phase \in {"delete", "write"} /\ Handle(R, D, M, part, whole, spoilt)

Own == <<"cert", "own", "all">>
Ext == <<"cert", "ext", "all">>
Cert(who)    == {e \in doc : e[1] = "cert" /\ e[2] = who}
Leaf(k, w, l) == {e \in doc : e[1] = k /\ e[2] = w /\ e[3] = l}
Asked(k, w)  == {e \in ask : e[1] = k /\ e[2] = w}

\* Certificates

CreateOwned(r, c, k) ==
    /\ \A e \in Asked("cert", "own") : e[3] = "resource-id" => e[4] # r
    /\ Write(TxnAddOwned(now, r, c, k), {},
             {<<"cert", "own", "resource-id", r>>, <<"cert", "own", "certificate", c>>,
              <<"cert", "own", "key-type", k.type>>, <<"cert", "own", "key-data", k.data>>},
             Own, TRUE, {})

CreateExternal(r, c) ==
    /\ \A e \in Asked("cert", "ext") : e[3] = "resource-id" => e[4] # r
    /\ Write(TxnAddExternal(now, r, c), {},
             {<<"cert", "ext", "resource-id", r>>, <<"cert", "ext", "certificate", c>>},
             Ext, TRUE, {})

DeleteOwned ==
    \E e \in Leaf("cert", "own", "resource-id") :
        Delete(TxnDelOwned(now, e[4]), Cert("own"), Own, TRUE, {})

DeleteExternal ==
    \E e \in Leaf("cert", "ext", "resource-id") :
        Delete(TxnDelExternal(now, e[4]), Cert("ext"), Ext, TRUE, {})

\* A leaf is replaced: deleted and created again.
ReplaceOwnCert(c) ==
    \E e \in Leaf("cert", "own", "resource-id") :
        LET add(s) == TxnModOwnCert(s, e[4], c)
        IN  Write(Then(RemoveOwnCert(now, e[4]), add), Leaf("cert", "own", "certificate"),
                  {<<"cert", "own", "certificate", c>>}, Own, FALSE, {Ext})

ReplaceExtCert(c) ==
    \E e \in Leaf("cert", "ext", "resource-id") :
        LET add(s) == TxnModExtCert(s, e[4], c)
        IN  Write(Then(RemoveExtCert(now, e[4]), add), Leaf("cert", "ext", "certificate"),
                  {<<"cert", "ext", "certificate", c>>}, Ext, FALSE, {})

\* The deletion of the old leaf does nothing.
ReplaceKeyType(t) ==
    \E e \in Leaf("cert", "own", "resource-id") :
        Write(TxnModKeyType(now, e[4], t), Leaf("cert", "own", "key-type"),
              {<<"cert", "own", "key-type", t>>}, Own, FALSE, {})

ReplaceKeyData(d) ==
    \E e \in Leaf("cert", "own", "resource-id") :
        Write(TxnModKeyData(now, e[4], d), Leaf("cert", "own", "key-data"),
              {<<"cert", "own", "key-data", d>>}, Own, FALSE, {})

\* edit_delete takes a private-key for its certificate.
DeleteOwnLeaf(l) ==
    \E e \in Leaf("cert", "own", "resource-id") :
        Delete(IF l \in {"certificate", "private-key"} THEN RemoveOwnCert(now, e[4]) ELSE {Ok(now)},
               Leaf("cert", "own", l), Own, FALSE, {Own, Ext})

DeleteExtLeaf ==
    \E e \in Leaf("cert", "ext", "resource-id") :
        Delete(RemoveExtCert(now, e[4]), Leaf("cert", "ext", "certificate"), Ext, FALSE, {Ext})

\* Ports

EditReqnumber(p) ==
    LET old  == Leaf("iface", p, "requested-number")
        part == <<"iface", p, "requested-number">>
    IN  \/ \E v \in Values : Write(TxnModReqnumber(now, p, v), old,
                                   {<<"iface", p, "requested-number", v>>}, part, TRUE, {})
        \/ old # {} /\ Delete(TxnModReqnumber(now, p, Absent), old, part, TRUE, {})

TunnelNode(p) == UNION {Leaf("iface", p, l) : l \in {"tunnel"} \cup Options}

\* A tunnel is created beside one of the other type, whose options stay (the
\* code has a TODO here), or replaces one of its own type.
EditTunnel(p, t, v) ==
    LET add(s) == TxnAddTunnel(s, p, t, v)
        new    == {<<"iface", p, "tunnel", t>>, <<"iface", p, "key", v>>}
        part   == <<"iface", p, "tunnel">>
        other  == \E e \in Asked("iface", p) : e[3] = "tunnel" /\ e[4] # t
    IN  \/ /\ <<"iface", p, "tunnel", t>> \notin ask
           /\ Write(add(now), TunnelNode(p), new, part, TRUE,
                    IF other THEN {<<"iface", p, "key">>} ELSE {})
        \/ /\ <<"iface", p, "tunnel", t>> \in doc
           /\ Write(Then(TxnDelTunnel(now, p), add), TunnelNode(p), new, part, TRUE, {})

DeleteTunnel(p) ==
    /\ Leaf("iface", p, "tunnel") # {}
    /\ Delete(TxnDelTunnel(now, p), TunnelNode(p), <<"iface", p, "tunnel">>, TRUE, {})

EditOption(p, o) ==
    /\ Leaf("iface", p, "tunnel") # {}
    /\ \/ \E v \in Values : Write(TxnModTunnelOpt(now, p, o, v), Leaf("iface", p, o),
                                  {<<"iface", p, o, v>>}, <<"iface", p, o>>, TRUE, {})
       \/ /\ Leaf("iface", p, o) # {}
          /\ Delete(TxnModTunnelOpt(now, p, o, Absent), Leaf("iface", p, o),
                    <<"iface", p, o>>, TRUE, {})

\* A leaf of configuration is replaced, or created if the read did not get it,
\* or deleted to get its default.
EditConfig(p, leaf) ==
    LET part   == <<"dev", p, leaf>>
        old    == Leaf("dev", p, leaf)
        gone   == old \cup {e \in Asked("dev", p) : e[3] = leaf}
        unset  == OfModPortCfg(now, p, leaf, Absent)
    IN  \/ \E v \in IF leaf = "admin" THEN {"up", "down"} ELSE {"true", "false"} :
             LET set(s) == OfModPortCfg(s, p, leaf, v)
                 new    == {<<"dev", p, leaf, v>>}
             IN  \/ old # {} /\ Write(Then(unset, set), old, new, part, TRUE, {})
                 \/ /\ old = {} /\ part \notin hist.whole
                    /\ Write(set(now), {}, new, part, TRUE, {})
        \/ /\ old # {}
           /\ Delete(unset, gone, part, TRUE,
                     IF leaf = "admin" /\ p \in System \ Bare THEN {part} ELSE {})

\* A rate is spoilt if the driver refuses it.
EditRate(p) ==
    LET e    == <<"dev", p, "rate", "on">>
        part == <<"dev", p, "rate">>
    IN  \E done \in BOOLEAN :
          LET spoilt == IF done THEN {} ELSE {part}
          IN  \/ e \notin ask /\ Write(TxnAddAdvert(now, p, done), {}, {e}, part, TRUE, spoilt)
              \/ e \in doc /\ Delete(TxnDelAdvert(now, p, done), {e}, part, TRUE, spoilt)

\* txn_commit, which may fail.
Commit ==
    /\ phase \in {"delete", "write"}
    /\ db' = [row |-> now.row, ssl |-> now.ssl, iface |-> now.iface]
    /\ seen' = ask
    /\ dirty' = (dirty \ hist.whole) \cup hist.spoilt
    /\ Idle
    /\ UNCHANGED <<area, now>>

CommitFails == phase \in {"delete", "write"} /\ TxnAbort(now, hist.touched)

EditCerts ==
    \/ \E r \in ResIds, c \in Texts :
         \/ CreateExternal(r, c)
         \/ \E k \in Keys : CreateOwned(r, c, k)
    \/ DeleteOwned \/ DeleteExternal \/ DeleteExtLeaf
    \/ \E l \in {"certificate", "private-key", "key-type", "key-data"} : DeleteOwnLeaf(l)
    \/ \E c \in Texts : ReplaceOwnCert(c) \/ ReplaceExtCert(c) \/ ReplaceKeyData(c)
    \/ \E t \in KeyTypes : ReplaceKeyType(t)

EditIface(p) ==
    \/ EditReqnumber(p) \/ DeleteTunnel(p)
    \/ \E t \in Tunnels, v \in Values : EditTunnel(p, t, v)
    \/ \E o \in Options : EditOption(p, o)

EditDevice(p) == EditRate(p) \/ \E leaf \in {"admin", "bit"} : EditConfig(p, leaf)

Next ==
    \/ Begin \/ Commit \/ CommitFails
    \/ <<"cert">> \in area /\ EditCerts
    \/ \E p \in Ports : <<"iface", p>> \in area /\ EditIface(p)
    \/ \E p \in Ports : <<"dev", p>> \in area /\ EditDevice(p)

Spec == Init /\ [][Next]_vars

-----------------------------------------------------------------------------
(* Properties                                                              *)

\* Types of rows, files and ports.
TypeOK ==
    /\ \A s \in {db, now} : s.row \in BOOLEAN /\ s.ssl \in SslRow /\ s.iface \in [Ports -> Iface]
    /\ now.file["cert.pem"] \in Texts \cup {Absent, Broken}
    /\ now.file["ca_cert.pem"] \in Texts \cup {Absent, Broken}
    /\ now.file["key.pem"] \in Keys \cup {Absent, Broken}
    /\ now.dev \in [Ports -> [up : BOOLEAN, bit : BOOLEAN, rate : BOOLEAN]]
    /\ phase \in {"idle", "delete", "write"} /\ n \in 0..MaxOps

\* The SSL row exists exactly as long as a certificate needs it, in whatever
\* order owned and external certificates come and go.
RowInUse ==
    \A s \in {db, now} : s.row <=> (s.ssl.own # Absent \/ s.ssl.ext # Absent)

\* A setting that was deleted is shown with its default.
Full(A) ==
    A \cup UNION {{<<"dev", p, d[1], d[2]>> : d \in {x \in {<<"admin", "up">>, <<"bit", "false">>} :
                      ~\E e \in A : e[1] = "dev" /\ e[2] = p /\ e[3] = x[1]}} : p \in Ports}

Part(e) == IF e[1] = "cert" THEN <<"cert", e[2], "all">> ELSE <<e[1], e[2], e[3]>>

Promised(A) == {e \in Full(A) : Part(e) \notin dirty /\ e[3] # "csum"}

\* Between edits, running, read while OpenFlow lists the ports, shows what the
\* successful edits have asked for, in every part of the configuration but
\* those that a failed edit changed outside the transaction before it failed,
\* and those that the code is known to mishandle: the external certificate
\* after a change of the owned one, an owned certificate without a mandatory
\* leaf, the administrative state of a device after its deletion, the options
\* of a tunnel that changes its type, a rate that the driver refused, and
\* checksum-present.  Settings that an edit could not see, because OpenFlow
\* was out of reach when it began, are as they were unless it wrote them.
ShownAsAsked == phase = "idle" => Promised(Shown(now, Listed)) = Promised(seen)
=============================================================================
