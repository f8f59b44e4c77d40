-------------------------- MODULE OvsEffectsProofs --------------------------
(***************************************************************************)
(* Proofs about OvsEffects, for any ports, certificates and values, and    *)
(* edits of any length.                                                    *)
(***************************************************************************)
EXTENDS OvsEffects, SequenceTheorems, TLAPS

FileNames == {"cert.pem", "key.pem", "ca_cert.pem"}
Files == {f \in [FileNames -> Texts \cup Keys \cup {Absent, Broken}] :
            /\ f["cert.pem"] \in Texts \cup {Absent, Broken}
            /\ f["ca_cert.pem"] \in Texts \cup {Absent, Broken}
            /\ f["key.pem"] \in Keys \cup {Absent, Broken}}
Devs  == [Ports -> [up : BOOLEAN, bit : BOOLEAN, rate : BOOLEAN]]

\* The state that the txn_ functions work on, and the columns in OVSDB.
State   == [row : BOOLEAN, ssl : SslRow, iface : [Ports -> Iface], file : Files, dev : Devs]
Columns == [row : BOOLEAN, ssl : SslRow, iface : [Ports -> Iface]]

\* The row is there when a certificate needs it.
Used(s) == s.row <=> (s.ssl.own # Absent \/ s.ssl.ext # Absent)

Good(s) == s \in State /\ Used(s)

\* Whatever the outcome of a txn_ function, it leaves such a state.
Results(R) == \A r \in R : Good(r.s)

IInv ==
    /\ Good(now) /\ db \in Columns /\ Used(db)
    /\ phase \in {"idle", "delete", "write"} /\ n \in 0..MaxOps

-----------------------------------------------------------------------------
(* The txn_ functions                                                      *)

\* The results by their parts.
LEMMA ResultParts ==
    \A s : Ok(s).s = s /\ Err(s).s = s /\ ~Ok(s).err /\ Err(s).err
BY DEF Ok, Err

\* A file is written, truncated or left alone.
LEMMA FileGood ==
    ASSUME NEW s, Good(s),
           NEW f \in FileNames, NEW text,
           \/ f = "key.pem" /\ text \in Keys
           \/ f # "key.pem" /\ text \in Texts
           \/ text \in {Absent, Broken}
    PROVE  Good([s EXCEPT !.file[f] = text])
<1>1. s \in State /\ s.file \in Files
  BY DEF Good, State
<1>2. [s.file EXCEPT ![f] = text] \in Files
  BY <1>1 DEF Files, FileNames
<1>3. [s EXCEPT !.file[f] = text] = [s EXCEPT !.file = [s.file EXCEPT ![f] = text]]
  BY <1>1 DEF State
<1>4. [s EXCEPT !.file = [s.file EXCEPT ![f] = text]] \in State
  BY <1>1, <1>2 DEF State
<1>5. Used([s EXCEPT !.file[f] = text])
  BY <1>1 DEF Good, Used, State
<1> QED BY <1>3, <1>4, <1>5 DEF Good

LEMMA WriteFileGood ==
    ASSUME NEW s, Good(s), NEW f \in FileNames, NEW text,
           \/ f = "key.pem" /\ text \in Keys
           \/ f # "key.pem" /\ text \in Texts
    PROVE  Results(WriteFile(s, f, text))
<1>1. Good([s EXCEPT !.file[f] = text]) /\ Good([s EXCEPT !.file[f] = Broken])
  BY FileGood
<1> QED BY <1>1, ResultParts DEF WriteFile, Results

\* The columns of the SSL row are changed.
LEMMA RowGood ==
    ASSUME NEW s, Good(s), NEW row \in BOOLEAN, NEW ssl \in SslRow,
           row <=> (ssl.own # Absent \/ ssl.ext # Absent)
    PROVE  Good([s EXCEPT !.row = row, !.ssl = ssl])
BY DEF Good, State, Used

\* The columns of a port are changed.
LEMMA IfaceGood ==
    ASSUME NEW s, Good(s), NEW p \in Ports, NEW i \in Iface
    PROVE  Good([s EXCEPT !.iface[p] = i])
<1>1. s \in State /\ s.iface \in [Ports -> Iface]
  BY DEF Good, State
<1>2. [s.iface EXCEPT ![p] = i] \in [Ports -> Iface]
  BY <1>1
<1>3. [s EXCEPT !.iface[p] = i] \in State
  BY <1>1, <1>2 DEF State
<1> QED BY <1>1, <1>3 DEF Good, Used, State

\* A device is configured.
LEMMA DevGood ==
    ASSUME NEW s, Good(s), NEW p \in Ports, NEW d \in [up : BOOLEAN, bit : BOOLEAN, rate : BOOLEAN]
    PROVE  Good([s EXCEPT !.dev[p] = d])
<1>1. s \in State /\ s.dev \in Devs
  BY DEF Good, State
<1>2. [s.dev EXCEPT ![p] = d] \in Devs
  BY <1>1 DEF Devs
<1>3. [s EXCEPT !.dev[p] = d] \in State
  BY <1>1, <1>2 DEF State
<1> QED BY <1>1, <1>3 DEF Good, Used, State

\* The functions that add a certificate.
LEMMA AddCertsGood ==
    ASSUME NEW s, Good(s), NEW r \in ResIds, NEW c \in Texts
    PROVE  /\ \A k \in Keys : Results(TxnAddOwned(s, r, c, k))
           /\ Results(TxnAddExternal(s, r, c))
<1>0. r # Absent
  BY EffectsAssumption
<1> DEFINE own(t) == [t EXCEPT !.row = TRUE, !.ssl.own = r, !.ssl.cert = TRUE, !.ssl.key = TRUE]
           ext(t) == [t EXCEPT !.row = TRUE, !.ssl.ext = r, !.ssl.ca = TRUE]
           linkOwn(t) == {Ok(own(t))}
           linkExt(t) == {Ok(ext(t))}
<1>1. ASSUME NEW t, Good(t) PROVE Good(own(t))
  <2>1. t \in State /\ t.ssl \in SslRow
    BY <1>1 DEF Good, State
  <2> DEFINE l == [t.ssl EXCEPT !.own = r, !.cert = TRUE, !.key = TRUE]
  <2>2. l \in SslRow /\ l.own = r
    BY <2>1 DEF SslRow
  <2>3. own(t) = [t EXCEPT !.row = TRUE, !.ssl = l]
    BY <2>1 DEF State
  <2> QED BY <1>0, <1>1, <2>2, <2>3, RowGood
<1>2. ASSUME NEW t, Good(t) PROVE Good(ext(t))
  <2>1. t \in State /\ t.ssl \in SslRow
    BY <1>2 DEF Good, State
  <2> DEFINE l == [t.ssl EXCEPT !.ext = r, !.ca = TRUE]
  <2>2. l \in SslRow /\ l.ext = r
    BY <2>1 DEF SslRow
  <2>3. ext(t) = [t EXCEPT !.row = TRUE, !.ssl = l]
    BY <2>1 DEF State
  <2> QED BY <1>0, <1>2, <2>2, <2>3, RowGood
<1>3. ASSUME NEW k \in Keys PROVE Results(TxnAddOwned(s, r, c, k))
  <2> DEFINE key(t) == WriteFile(t, "key.pem", k)
  <2> SUFFICES ASSUME NEW q \in TxnAddOwned(s, r, c, k) PROVE Good(q.s)
    BY DEF Results
  <2>1. q = Err(s) \/ q \in Then(Then(WriteFile(s, "cert.pem", c), key), linkOwn)
    BY DEF TxnAddOwned
  <2> HIDE DEF own
  <2>2. CASE q \in Then(Then(WriteFile(s, "cert.pem", c), key), linkOwn)
    <3> DEFINE W == Then(WriteFile(s, "cert.pem", c), key)
    <3>1. ASSUME NEW b \in W PROVE Good(b.s)
      <4>1. PICK a \in WriteFile(s, "cert.pem", c) : b = a \/ b \in WriteFile(a.s, "key.pem", k)
        BY DEF Then
      <4>2. Good(a.s)
        BY WriteFileGood DEF Results, FileNames
      <4> QED BY <4>1, <4>2, WriteFileGood DEF Results, FileNames
    <3> HIDE DEF W
    <3>2. PICK b \in W : q = b \/ q = Ok(own(b.s))
      BY <2>2 DEF Then, W
    <3> QED BY <1>1, <3>1, <3>2, ResultParts
  <2> QED BY <2>1, <2>2, ResultParts
<1>4. Results(TxnAddExternal(s, r, c))
  <2> SUFFICES ASSUME NEW q \in TxnAddExternal(s, r, c) PROVE Good(q.s)
    BY DEF Results
  <2>1. q = Err(s) \/ q \in Then(WriteFile(s, "ca_cert.pem", c), linkExt)
    BY DEF TxnAddExternal
  <2> HIDE DEF ext
  <2>2. CASE q \in Then(WriteFile(s, "ca_cert.pem", c), linkExt)
    <3>1. PICK a \in WriteFile(s, "ca_cert.pem", c) : q = a \/ q = Ok(ext(a.s))
      BY <2>2 DEF Then
    <3>2. Good(a.s)
      BY WriteFileGood DEF Results, FileNames
    <3> QED BY <1>2, <3>1, <3>2, ResultParts
  <2> QED BY <2>1, <2>2, ResultParts
<1> QED BY <1>3, <1>4

\* The columns that hold file names are changed.
LEMMA SslGood ==
    ASSUME NEW s, Good(s), NEW ssl \in SslRow, ssl.own = s.ssl.own, ssl.ext = s.ssl.ext
    PROVE  Good([s EXCEPT !.ssl = ssl])
BY DEF Good, State, Used

\* The functions that change a certificate, or a part of it.
LEMMA ModCertsGood ==
    ASSUME NEW s, Good(s), NEW r
    PROVE  /\ \A c \in Texts : Results(TxnModOwnCert(s, r, c)) /\ Results(TxnModExtCert(s, r, c))
           /\ Results(RemoveOwnCert(s, r)) /\ Results(RemoveExtCert(s, r))
<1> DEFINE cert(t) == [t EXCEPT !.ssl.cert = TRUE]
           ca(t, v) == [t EXCEPT !.ssl.ca = v]
           setCert(t) == {Ok(cert(t))}
           setCa(t) == {Ok(ca(t, TRUE))}
<1>1. ASSUME NEW t, Good(t)
      PROVE  Good(cert(t)) /\ \A v \in BOOLEAN : Good(ca(t, v))
  <2>1. t \in State /\ t.ssl \in SslRow
    BY <1>1 DEF Good, State
  <2>2. Good(cert(t))
    <3> DEFINE l == [t.ssl EXCEPT !.cert = TRUE]
    <3>1. l \in SslRow /\ l.own = t.ssl.own /\ l.ext = t.ssl.ext
      BY <2>1 DEF SslRow
    <3>2. cert(t) = [t EXCEPT !.ssl = l]
      BY <2>1 DEF State
    <3> HIDE DEF l
    <3> QED BY <1>1, <3>1, <3>2, SslGood
  <2>3. ASSUME NEW v \in BOOLEAN PROVE Good(ca(t, v))
    <3> DEFINE l == [t.ssl EXCEPT !.ca = v]
    <3>1. l \in SslRow /\ l.own = t.ssl.own /\ l.ext = t.ssl.ext
      BY <2>1, <2>3 DEF SslRow
    <3>2. ca(t, v) = [t EXCEPT !.ssl = l]
      BY <2>1 DEF State
    <3> HIDE DEF l
    <3> QED BY <1>1, <3>1, <3>2, SslGood
  <2> QED BY <2>2, <2>3
<1>2. ASSUME NEW c \in Texts PROVE Results(TxnModOwnCert(s, r, c))
  <2> SUFFICES ASSUME NEW q \in TxnModOwnCert(s, r, c) PROVE Good(q.s)
    BY DEF Results
  <2>1. q = Err(s) \/ q \in Then(WriteFile(s, "cert.pem", c), setCert)
    BY DEF TxnModOwnCert
  <2> HIDE DEF cert
  <2>2. CASE q \in Then(WriteFile(s, "cert.pem", c), setCert)
    <3>1. PICK a \in WriteFile(s, "cert.pem", c) : q = a \/ q = Ok(cert(a.s))
      BY <2>2 DEF Then
    <3>2. Good(a.s)
      BY WriteFileGood DEF Results, FileNames
    <3> QED BY <1>1, <3>1, <3>2, ResultParts
  <2> QED BY <2>1, <2>2, ResultParts
<1>3. ASSUME NEW c \in Texts PROVE Results(TxnModExtCert(s, r, c))
  <2> SUFFICES ASSUME NEW q \in TxnModExtCert(s, r, c) PROVE Good(q.s)
    BY DEF Results
  <2>1. q = Err(s) \/ q \in Then(WriteFile(s, "ca_cert.pem", c), setCa)
    BY DEF TxnModExtCert
  <2> HIDE DEF ca
  <2>2. CASE q \in Then(WriteFile(s, "ca_cert.pem", c), setCa)
    <3>1. PICK a \in WriteFile(s, "ca_cert.pem", c) : q = a \/ q = Ok(ca(a.s, TRUE))
      BY <2>2 DEF Then
    <3>2. Good(a.s)
      BY WriteFileGood DEF Results, FileNames
    <3>3. Good(ca(a.s, TRUE))
      BY <1>1, <3>2
    <3> QED BY <3>1, <3>2, <3>3, ResultParts
  <2> QED BY <2>1, <2>2, ResultParts
<1>4. ASSUME NEW f \in {"cert.pem", "ca_cert.pem"}
      PROVE  Good([s EXCEPT !.file[f] = Absent, !.ssl.ca = FALSE])
  <2> DEFINE t == [s EXCEPT !.file[f] = Absent]
  <2>1. Good(t)
    BY <1>4, FileGood DEF FileNames
  <2>2. [s EXCEPT !.file[f] = Absent, !.ssl.ca = FALSE] = ca(t, FALSE)
    BY DEF Good, State
  <2> HIDE DEF t, ca
  <2> QED BY <1>1, <2>1, <2>2
<1>5. Results(RemoveOwnCert(s, r)) /\ Results(RemoveExtCert(s, r))
  <2>1. \A q \in RemoveOwnCert(s, r) : Good(q.s)
    BY <1>4, ResultParts DEF RemoveOwnCert
  <2>2. \A q \in RemoveExtCert(s, r) : Good(q.s)
    BY <1>4, ResultParts DEF RemoveExtCert
  <2> QED BY <2>1, <2>2 DEF Results
<1> QED BY <1>2, <1>3, <1>5

\* The functions for the private key.
LEMMA ModKeyGood ==
    ASSUME NEW s, Good(s), NEW r
    PROVE  /\ \A t \in KeyTypes : Results(TxnModKeyType(s, r, t))
           /\ \A d \in Texts : Results(TxnModKeyData(s, r, d))
<1>0. s \in State /\ s.file \in Files
  BY DEF Good, State
<1> DEFINE key == s.file["key.pem"]
<1>1. ASSUME key \in Keys
      PROVE  /\ \A t \in KeyTypes : [key EXCEPT !.type = t] \in Keys
             /\ \A d \in Texts : [key EXCEPT !.data = d] \in Keys
  BY <1>1 DEF Keys
<1>2. ASSUME NEW t \in KeyTypes, ParsePem(s)
      PROVE  /\ Good([s EXCEPT !.file["key.pem"].type = t])
             /\ Good([s EXCEPT !.file["key.pem"] = Broken])
  <2>1. [s EXCEPT !.file["key.pem"].type = t]
          = [s EXCEPT !.file["key.pem"] = [key EXCEPT !.type = t]]
    BY <1>0 DEF State, Files, FileNames
  <2>2. [key EXCEPT !.type = t] \in Keys
    BY <1>1, <1>2 DEF ParsePem
  <2> HIDE DEF key
  <2> QED BY <2>1, <2>2, FileGood DEF FileNames
<1>3. ASSUME NEW t \in KeyTypes PROVE Results(TxnModKeyType(s, r, t))
  <2>1. \A q \in TxnModKeyType(s, r, t) : Good(q.s)
    BY <1>2, ResultParts DEF TxnModKeyType
  <2> QED BY <2>1 DEF Results
<1>4. ASSUME NEW d \in Texts PROVE Results(TxnModKeyData(s, r, d))
  <2>1. CASE ParsePem(s)
    <3>1. [key EXCEPT !.data = d] \in Keys
      BY <1>1, <2>1 DEF ParsePem
    <3>2. Results(WriteFile(s, "key.pem", [key EXCEPT !.data = d]))
      BY <3>1, WriteFileGood DEF FileNames
    <3> QED BY <3>2, ResultParts DEF TxnModKeyData, Results
  <2>2. CASE ~ParsePem(s)
    BY <2>2, ResultParts DEF TxnModKeyData, Results
  <2> QED BY <2>1, <2>2
<1> QED BY <1>3, <1>4

\* The functions that delete a certificate: the row goes with the last one.
LEMMA DelCertsGood ==
    ASSUME NEW s, Good(s), NEW r
    PROVE  Results(TxnDelOwned(s, r)) /\ Results(TxnDelExternal(s, r))
<1>0. s \in State /\ s.ssl \in SslRow /\ Used(s)
  BY DEF Good, State
<1>1. Good([s EXCEPT !.row = FALSE, !.ssl = NoRow])
  <2>1. NoRow \in SslRow /\ NoRow.own = Absent /\ NoRow.ext = Absent
    BY DEF NoRow, SslRow
  <2> QED BY <2>1, RowGood
<1>2. ASSUME Owned(s, r), s.ssl.ext # Absent
      PROVE  Good([s EXCEPT !.file["cert.pem"] = Absent, !.file["key.pem"] = Absent,
                            !.ssl.own = Absent, !.ssl.cert = FALSE, !.ssl.key = FALSE])
  <2> DEFINE t == [s EXCEPT !.file["cert.pem"] = Absent]
             u == [t EXCEPT !.file["key.pem"] = Absent]
             l == [s.ssl EXCEPT !.own = Absent, !.cert = FALSE, !.key = FALSE]
  <2>1. Good(t)
    BY FileGood DEF FileNames
  <2>2. Good(u)
    <3> HIDE DEF t
    <3> QED BY <2>1, FileGood DEF FileNames
  <2>3. l \in SslRow /\ l.ext = s.ssl.ext
    BY <1>0 DEF SslRow
  <2>4. u \in State /\ u.row = s.row /\ u.ssl = s.ssl
    BY <1>0, <2>2 DEF Good, State
  <2>5. s.row = TRUE
    BY <1>0, <1>2 DEF Owned, State
  <2>6. [s EXCEPT !.file["cert.pem"] = Absent, !.file["key.pem"] = Absent,
                  !.ssl.own = Absent, !.ssl.cert = FALSE, !.ssl.key = FALSE]
          = [u EXCEPT !.row = TRUE, !.ssl = l]
    BY <1>0, <2>5 DEF State
  <2> HIDE DEF u, l
  <2>7. Good([u EXCEPT !.row = TRUE, !.ssl = l])
    BY <1>2, <2>2, <2>3, RowGood
  <2> QED BY <2>6, <2>7
<1>3. ASSUME External(s, r), s.ssl.own # Absent
      PROVE  Good([s EXCEPT !.file["ca_cert.pem"] = Absent, !.ssl.ext = Absent, !.ssl.ca = FALSE])
  <2> DEFINE t == [s EXCEPT !.file["ca_cert.pem"] = Absent]
             l == [s.ssl EXCEPT !.ext = Absent, !.ca = FALSE]
  <2>1. Good(t)
    BY FileGood DEF FileNames
  <2>2. l \in SslRow /\ l.own = s.ssl.own
    BY <1>0 DEF SslRow
  <2>3. s.row = TRUE
    BY <1>0, <1>3 DEF External, State
  <2>4. [s EXCEPT !.file["ca_cert.pem"] = Absent, !.ssl.ext = Absent, !.ssl.ca = FALSE]
          = [t EXCEPT !.row = TRUE, !.ssl = l]
    BY <1>0, <2>3 DEF State
  <2> HIDE DEF t, l
  <2>5. Good([t EXCEPT !.row = TRUE, !.ssl = l])
    BY <1>3, <2>1, <2>2, RowGood
  <2> QED BY <2>4, <2>5
<1>4. \A q \in TxnDelOwned(s, r) : Good(q.s)
  BY <1>1, <1>2, ResultParts DEF TxnDelOwned
<1>5. \A q \in TxnDelExternal(s, r) : Good(q.s)
  BY <1>1, <1>3, ResultParts DEF TxnDelExternal
<1> QED BY <1>4, <1>5 DEF Results

\* The functions for the columns of a port.
LEMMA IfaceOpsGood ==
    ASSUME NEW s, Good(s), NEW p \in Ports, NEW v \in Values \cup {Absent},
           NEW t \in Tunnels, NEW o \in Options
    PROVE  /\ Results(TxnModReqnumber(s, p, v)) /\ Results(TxnAddTunnel(s, p, t, v))
           /\ Results(TxnDelTunnel(s, p)) /\ Results(TxnModTunnelOpt(s, p, o, v))
<1>0. s \in State /\ s.iface \in [Ports -> Iface] /\ s.iface[p] \in Iface
  BY DEF Good, State
<1> DEFINE i == s.iface[p]
<1>1. /\ i.opt \in [Options -> Values \cup {Absent}] /\ "key" \in Options
      /\ i.opt["key"] \in Values \cup {Absent}
  BY <1>0 DEF Iface, Options
<1>2. Good([s EXCEPT !.iface[p].req = v])
  <2> DEFINE j == [i EXCEPT !.req = v]
  <2>1. j \in Iface
    BY <1>0 DEF Iface
  <2>2. [s EXCEPT !.iface[p].req = v] = [s EXCEPT !.iface[p] = j]
    BY <1>0 DEF State
  <2> HIDE DEF j
  <2> QED BY <2>1, <2>2, IfaceGood
<1>3. ASSUME NEW x \in Tunnels \cup {Absent}, NEW w \in Values \cup {Absent}
      PROVE  Good([s EXCEPT !.iface[p].tunnel = x, !.iface[p].opt["key"] = w])
  <2> DEFINE j == [i EXCEPT !.tunnel = x, !.opt = [i.opt EXCEPT !["key"] = w]]
  <2>1. j \in Iface
    BY <1>0, <1>1, <1>3 DEF Iface
  <2>2. [s EXCEPT !.iface[p].tunnel = x, !.iface[p].opt["key"] = w] = [s EXCEPT !.iface[p] = j]
    BY <1>0 DEF State, Iface
  <2> HIDE DEF j
  <2> QED BY <2>1, <2>2, IfaceGood
<1>4. Good([s EXCEPT !.iface[p].opt[o] = v])
  <2> DEFINE j == [i EXCEPT !.opt = [i.opt EXCEPT ![o] = v]]
  <2>1. j \in Iface
    BY <1>0, <1>1 DEF Iface
  <2>2. [s EXCEPT !.iface[p].opt[o] = v] = [s EXCEPT !.iface[p] = j]
    BY <1>0 DEF State, Iface
  <2> HIDE DEF j
  <2> QED BY <2>1, <2>2, IfaceGood
<1>5. Results(TxnAddTunnel(s, p, t, v))
  <2> DEFINE w == IF i.opt["key"] = Absent THEN v ELSE i.opt["key"]
  <2>1. w \in Values \cup {Absent}
    BY <1>1
  <2>2. [s EXCEPT !.iface[p].tunnel = t,
                  !.iface[p].opt["key"] = IF @ = Absent THEN v ELSE @]
          = [s EXCEPT !.iface[p].tunnel = t, !.iface[p].opt["key"] = w]
    BY <1>0 DEF State, Iface
  <2> HIDE DEF w
  <2>3. Good([s EXCEPT !.iface[p].tunnel = t, !.iface[p].opt["key"] = w])
    BY <1>3, <2>1
  <2> QED BY <2>2, <2>3, ResultParts DEF TxnAddTunnel, Results
<1>6. Results(TxnDelTunnel(s, p))
  <2>1. Good([s EXCEPT !.iface[p].tunnel = Absent, !.iface[p].opt["key"] = Absent])
    BY <1>3
  <2> QED BY <2>1, ResultParts DEF TxnDelTunnel, Results
<1>7. Results(TxnModReqnumber(s, p, v)) /\ Results(TxnModTunnelOpt(s, p, o, v))
  BY <1>2, <1>4, ResultParts DEF TxnModReqnumber, TxnModTunnelOpt, Results
<1> QED BY <1>5, <1>6, <1>7

\* The functions for devices and OpenFlow ports.
LEMMA DevOpsGood ==
    ASSUME NEW s, Good(s), NEW p \in Ports, NEW leaf, NEW v
    PROVE  /\ Results(OfModPortCfg(s, p, leaf, v))
           /\ \A done : Results(TxnAddAdvert(s, p, done)) /\ Results(TxnDelAdvert(s, p, done))
<1>0. s \in State /\ s.dev \in Devs /\ s.dev[p] \in [up : BOOLEAN, bit : BOOLEAN, rate : BOOLEAN]
  BY DEF Good, State, Devs
<1>1. ASSUME NEW x \in BOOLEAN
      PROVE  /\ Good([s EXCEPT !.dev[p].up = x]) /\ Good([s EXCEPT !.dev[p].bit = x])
             /\ Good([s EXCEPT !.dev[p].rate = x])
  <2> DEFINE j == [s.dev[p] EXCEPT !.up = x]
             k == [s.dev[p] EXCEPT !.bit = x]
             l == [s.dev[p] EXCEPT !.rate = x]
  <2>1. {j, k, l} \subseteq [up : BOOLEAN, bit : BOOLEAN, rate : BOOLEAN]
    BY <1>0
  <2>2. /\ [s EXCEPT !.dev[p].up = x] = [s EXCEPT !.dev[p] = j]
        /\ [s EXCEPT !.dev[p].bit = x] = [s EXCEPT !.dev[p] = k]
        /\ [s EXCEPT !.dev[p].rate = x] = [s EXCEPT !.dev[p] = l]
    BY <1>0 DEF State, Devs
  <2> HIDE DEF j, k, l
  <2> QED BY <2>1, <2>2, DevGood
<1> DEFINE on == (v \in {Absent, "up"})
           set == (v = "true")
<1>2. on \in BOOLEAN /\ set \in BOOLEAN
  OBVIOUS
<1>3. Good([s EXCEPT !.dev[p].up = on]) /\ Good([s EXCEPT !.dev[p].bit = set])
  <2> HIDE DEF on, set
  <2> QED BY <1>1, <1>2
<1>4. Results(OfModPortCfg(s, p, leaf, v))
  BY <1>3, ResultParts DEF OfModPortCfg, TxnModAdmin, OfModPort, Results
<1>5. ASSUME NEW done PROVE Results(TxnAddAdvert(s, p, done)) /\ Results(TxnDelAdvert(s, p, done))
  BY <1>1, ResultParts DEF TxnAddAdvert, TxnDelAdvert, DevSetEthtool, Results
<1> QED BY <1>4, <1>5

-----------------------------------------------------------------------------
(* The steps                                                               *)

\* One element of an edit, whichever outcome its txn_ function has.
LEMMA HandleInv ==
    ASSUME IInv, NEW R, Results(R), NEW D, NEW M, NEW part, NEW whole, NEW spoilt,
           Handle(R, D, M, part, whole, spoilt)
    PROVE  IInv'
<1>1. PICK r \in R :
        LET touched == hist.touched \cup
                          (IF r.s.file # now.file \/ r.s.dev # now.dev THEN {part} ELSE {})
        IN  \/ TxnAbort(r.s, touched)
            \/ /\ now' = r.s
               /\ n' = n + 1
               /\ phase' = IF M = {} THEN phase ELSE "write"
               /\ UNCHANGED db
  BY DEF Handle
<1>2. Good(r.s) /\ n < MaxOps /\ n \in 0..MaxOps /\ MaxOps \in Nat
  BY EffectsAssumption DEF Results, IInv, Handle
<1>3. ASSUME NEW touched, TxnAbort(r.s, touched) PROVE IInv'
  <2>1. /\ now' = [r.s EXCEPT !.row = db.row, !.ssl = db.ssl, !.iface = db.iface]
        /\ phase' = "idle" /\ n' = 0 /\ UNCHANGED db
    BY <1>3 DEF TxnAbort, Idle
  <2>2. db.row \in BOOLEAN /\ db.ssl \in SslRow /\ db.iface \in [Ports -> Iface] /\ Used(db)
    BY DEF IInv, Columns
  <2>3. Good(now')
    BY <1>2, <2>1, <2>2 DEF Good, State, Used
  <2> QED BY <1>2, <2>1, <2>3 DEF IInv, Good, Used
<1>4. CASE now' = r.s /\ n' = n + 1 /\ phase' = (IF M = {} THEN phase ELSE "write") /\ UNCHANGED db
  <2>1. n' \in 0..MaxOps
    BY <1>2, <1>4
  <2>2. phase' \in {"idle", "delete", "write"} /\ Good(now)'
    BY <1>2, <1>4 DEF IInv, Good, Used
  <2> QED BY <1>4, <2>1, <2>2 DEF IInv, Used
<1> QED BY <1>1, <1>3, <1>4

\* The edits of certificates.
LEMMA CertsInv ==
    ASSUME IInv, EditCerts
    PROVE  IInv'
<1>0. Good(now)
  BY DEF IInv
<1>1. ASSUME NEW r \in ResIds, NEW c \in Texts, CreateExternal(r, c) PROVE IInv'
  BY <1>0, <1>1, AddCertsGood, HandleInv DEF CreateExternal, Write
<1>2. ASSUME NEW r \in ResIds, NEW c \in Texts, NEW k \in Keys, CreateOwned(r, c, k) PROVE IInv'
  BY <1>0, <1>2, AddCertsGood, HandleInv DEF CreateOwned, Write
<1>3. CASE DeleteOwned
  BY <1>0, <1>3, DelCertsGood, HandleInv DEF DeleteOwned, Delete
<1>4. CASE DeleteExternal
  BY <1>0, <1>4, DelCertsGood, HandleInv DEF DeleteExternal, Delete
<1>5. ASSUME NEW c \in Texts, ReplaceOwnCert(c) PROVE IInv'
  <2>1. PICK e \in Leaf("cert", "own", "resource-id") :
          LET add(s) == TxnModOwnCert(s, e[4], c)
          IN  Write(Then(RemoveOwnCert(now, e[4]), add), Leaf("cert", "own", "certificate"),
                    {<<"cert", "own", "certificate", c>>}, Own, FALSE, {Ext})
    BY <1>5 DEF ReplaceOwnCert
  <2> DEFINE r == e[4]
             add(s) == TxnModOwnCert(s, r, c)
             R == Then(RemoveOwnCert(now, r), add)
  <2>2. ASSUME NEW q \in R PROVE Good(q.s)
    <3>1. PICK a \in RemoveOwnCert(now, r) : q = a \/ q \in TxnModOwnCert(a.s, r, c)
      BY DEF Then
    <3>2. Good(a.s)
      BY <1>0, ModCertsGood DEF Results
    <3> QED BY <3>1, <3>2, ModCertsGood DEF Results
  <2>3. Results(R)
    BY <2>2 DEF Results
  <2> QED BY <2>1, <2>3, HandleInv DEF Write
<1>6. ASSUME NEW c \in Texts, ReplaceExtCert(c) PROVE IInv'
  <2>1. PICK e \in Leaf("cert", "ext", "resource-id") :
          LET add(s) == TxnModExtCert(s, e[4], c)
          IN  Write(Then(RemoveExtCert(now, e[4]), add), Leaf("cert", "ext", "certificate"),
                    {<<"cert", "ext", "certificate", c>>}, Ext, FALSE, {})
    BY <1>6 DEF ReplaceExtCert
  <2> DEFINE r == e[4]
             add(s) == TxnModExtCert(s, r, c)
             R == Then(RemoveExtCert(now, r), add)
  <2>2. ASSUME NEW q \in R PROVE Good(q.s)
    <3>1. PICK a \in RemoveExtCert(now, r) : q = a \/ q \in TxnModExtCert(a.s, r, c)
      BY DEF Then
    <3>2. Good(a.s)
      BY <1>0, ModCertsGood DEF Results
    <3> QED BY <3>1, <3>2, ModCertsGood DEF Results
  <2>3. Results(R)
    BY <2>2 DEF Results
  <2> QED BY <2>1, <2>3, HandleInv DEF Write
<1>7. ASSUME NEW d \in Texts, ReplaceKeyData(d) PROVE IInv'
  <2>1. \A r : Results(TxnModKeyData(now, r, d))
    BY <1>0, ModKeyGood
  <2> QED BY <1>7, <2>1, HandleInv DEF ReplaceKeyData, Write
<1>8. ASSUME NEW t \in KeyTypes, ReplaceKeyType(t) PROVE IInv'
  <2>1. \A r : Results(TxnModKeyType(now, r, t))
    BY <1>0, ModKeyGood
  <2> QED BY <1>8, <2>1, HandleInv DEF ReplaceKeyType, Write
<1>9. \A r : Results(RemoveOwnCert(now, r)) /\ Results(RemoveExtCert(now, r))
  BY <1>0, ModCertsGood
<1>10. CASE DeleteExtLeaf
  BY <1>9, <1>10, HandleInv DEF DeleteExtLeaf, Delete
<1>11. ASSUME NEW l, DeleteOwnLeaf(l) PROVE IInv'
  <2>1. \A r : Results(IF l \in {"certificate", "private-key"} THEN RemoveOwnCert(now, r)
                                                              ELSE {Ok(now)})
    BY <1>0, <1>9, ResultParts DEF Results
  <2> QED BY <1>11, <2>1, HandleInv DEF DeleteOwnLeaf, Delete
<1> QED
  BY <1>1, <1>2, <1>3, <1>4, <1>5, <1>6, <1>7, <1>8, <1>10, <1>11 DEF EditCerts

\* The edits of the columns of a port.
LEMMA IfaceInv ==
    ASSUME IInv, NEW p \in Ports, EditIface(p)
    PROVE  IInv'
<1>0. Good(now) /\ Absent \in Values \cup {Absent} /\ Values \subseteq Values \cup {Absent}
  BY DEF IInv
<1>a. PICK t0 \in Tunnels, o0 \in Options : TRUE
  BY DEF Tunnels, Options
<1>b. ASSUME NEW s, Good(s), NEW v \in Values \cup {Absent}
      PROVE  /\ Results(TxnModReqnumber(s, p, v)) /\ Results(TxnDelTunnel(s, p))
             /\ \A t \in Tunnels : Results(TxnAddTunnel(s, p, t, v))
             /\ \A o \in Options : Results(TxnModTunnelOpt(s, p, o, v))
  BY <1>a, <1>b, IfaceOpsGood
<1>1. CASE EditReqnumber(p)
  <2>1. \A v \in Values \cup {Absent} : Results(TxnModReqnumber(now, p, v))
    BY <1>0, <1>b
  <2> QED BY <1>1, <2>1, HandleInv DEF EditReqnumber, Write, Delete
<1>2. CASE DeleteTunnel(p)
  <2>1. Results(TxnDelTunnel(now, p))
    BY <1>0, <1>b
  <2> QED BY <1>2, <2>1, HandleInv DEF DeleteTunnel, Delete
<1>3. ASSUME NEW t \in Tunnels, NEW v \in Values, EditTunnel(p, t, v) PROVE IInv'
  <2> DEFINE add(s) == TxnAddTunnel(s, p, t, v)
             R == Then(TxnDelTunnel(now, p), add)
  <2>1. Results(TxnAddTunnel(now, p, t, v))
    BY <1>0, <1>b
  <2>2. ASSUME NEW q \in R PROVE Good(q.s)
    <3>1. PICK a \in TxnDelTunnel(now, p) : q = a \/ q \in TxnAddTunnel(a.s, p, t, v)
      BY DEF Then
    <3>2. Good(a.s)
      BY <1>0, <1>b DEF Results
    <3>3. Results(TxnAddTunnel(a.s, p, t, v))
      BY <1>b, <3>2
    <3> QED BY <3>1, <3>2, <3>3 DEF Results
  <2>3. Results(R)
    BY <2>2 DEF Results
  <2> QED BY <1>3, <2>1, <2>3, HandleInv DEF EditTunnel, Write
<1>4. ASSUME NEW o \in Options, EditOption(p, o) PROVE IInv'
  <2>1. \A v \in Values \cup {Absent} : Results(TxnModTunnelOpt(now, p, o, v))
    BY <1>0, <1>b
  <2> QED BY <1>4, <2>1, HandleInv DEF EditOption, Write, Delete
<1> QED BY <1>1, <1>2, <1>3, <1>4 DEF EditIface

\* The edits of a device.
LEMMA DeviceInv ==
    ASSUME IInv, NEW p \in Ports, EditDevice(p)
    PROVE  IInv'
<1>0. Good(now)
  BY DEF IInv
<1>1. CASE EditRate(p)
  <2>1. \A done : Results(TxnAddAdvert(now, p, done)) /\ Results(TxnDelAdvert(now, p, done))
    BY <1>0, DevOpsGood
  <2>2. PICK done, D, M, spoilt :
          \/ Handle(TxnAddAdvert(now, p, done), D, M, <<"dev", p, "rate">>, TRUE, spoilt)
          \/ Handle(TxnDelAdvert(now, p, done), D, M, <<"dev", p, "rate">>, TRUE, spoilt)
    BY <1>1 DEF EditRate, Write, Delete
  <2> QED BY <2>1, <2>2, HandleInv
<1>2. ASSUME NEW leaf \in {"admin", "bit"}, EditConfig(p, leaf) PROVE IInv'
  <2>1. \A v : Results(OfModPortCfg(now, p, leaf, v))
    BY <1>0, DevOpsGood
  <2>2. ASSUME NEW v,
               LET set(s) == OfModPortCfg(s, p, leaf, v)
               IN  Write(Then(OfModPortCfg(now, p, leaf, Absent), set), Leaf("dev", p, leaf),
                         {<<"dev", p, leaf, v>>}, <<"dev", p, leaf>>, TRUE, {})
        PROVE  IInv'
    <3> DEFINE set(s) == OfModPortCfg(s, p, leaf, v)
               R == Then(OfModPortCfg(now, p, leaf, Absent), set)
    <3>1. ASSUME NEW q \in R PROVE Good(q.s)
      <4>1. PICK a \in OfModPortCfg(now, p, leaf, Absent) : q = a \/ q \in OfModPortCfg(a.s, p, leaf, v)
        BY DEF Then
      <4>2. Good(a.s)
        BY <2>1 DEF Results
      <4>3. Results(OfModPortCfg(a.s, p, leaf, v))
        BY <4>2, DevOpsGood
      <4> QED BY <4>1, <4>2, <4>3 DEF Results
    <3>2. Results(R)
      BY <3>1 DEF Results
    <3> QED BY <2>2, <3>2, HandleInv DEF Write
  <2>3. ASSUME NEW v, Write(OfModPortCfg(now, p, leaf, v), {}, {<<"dev", p, leaf, v>>},
                            <<"dev", p, leaf>>, TRUE, {})
        PROVE  IInv'
    BY <2>1, <2>3, HandleInv DEF Write
  <2>4. ASSUME NEW D,
               Delete(OfModPortCfg(now, p, leaf, Absent), D, <<"dev", p, leaf>>, TRUE,
                      IF leaf = "admin" /\ p \in System \ Bare THEN {<<"dev", p, leaf>>} ELSE {})
        PROVE  IInv'
    BY <2>1, <2>4, HandleInv DEF Delete
  <2> QED BY <1>2, <2>2, <2>3, <2>4 DEF EditConfig
<1> QED BY <1>1, <1>2 DEF EditDevice

\* The program starts in a state of the invariant.
LEMMA InitInv == Init => IInv
<1> SUFFICES ASSUME Init PROVE IInv
  OBVIOUS
<1>1. NoRow \in SslRow /\ NoRow.own = Absent /\ NoRow.ext = Absent
  BY DEF NoRow, SslRow
<1> DEFINE ifs == [p \in Ports |-> [req |-> Absent, tunnel |-> Absent,
                                    opt |-> [o \in Options |-> Absent]]]
           fls == [f \in FileNames |-> Absent]
           dvs == [p \in Ports |-> [up |-> TRUE, bit |-> FALSE, rate |-> FALSE]]
<1>2. ifs \in [Ports -> Iface] /\ fls \in Files /\ dvs \in Devs
  BY DEF Iface, Files, FileNames, Devs
<1>3. now = [row |-> FALSE, ssl |-> NoRow, iface |-> ifs, file |-> fls, dev |-> dvs]
  BY DEF Init, FileNames
<1>4. db = [row |-> now.row, ssl |-> now.ssl, iface |-> now.iface]
  BY DEF Init
<1> HIDE DEF ifs, fls, dvs
<1>5. Good(now)
  BY <1>1, <1>2, <1>3 DEF Good, State, Used
<1>6. db \in Columns /\ Used(db)
  BY <1>4, <1>5 DEF Good, State, Used, Columns
<1>7. phase = "idle" /\ n \in 0..MaxOps
  BY EffectsAssumption DEF Init
<1> QED BY <1>5, <1>6, <1>7 DEF IInv

\* Every step keeps the invariant.
LEMMA StepInv == IInv /\ [Next]_vars => IInv'
<1> SUFFICES ASSUME IInv, [Next]_vars PROVE IInv'
  OBVIOUS
<1>0. Good(now) /\ 0 \in 0..MaxOps
  BY EffectsAssumption DEF IInv
<1>1. CASE UNCHANGED vars
  BY <1>1 DEF vars, IInv, Good, Used
<1>2. CASE Begin
  <2>1. UNCHANGED <<db, now, n>> /\ phase' = "delete"
    BY <1>2 DEF Begin
  <2> QED BY <2>1 DEF IInv, Good, Used
<1>3. CASE Commit
  <2>1. /\ db' = [row |-> now.row, ssl |-> now.ssl, iface |-> now.iface]
        /\ phase' = "idle" /\ n' = 0 /\ UNCHANGED now
    BY <1>3 DEF Commit, Idle
  <2>2. db' \in Columns /\ Used(db')
    BY <1>0, <2>1 DEF Good, State, Used, Columns
  <2>3. Used(db)'
    BY <2>2 DEF Used
  <2> QED BY <1>0, <2>1, <2>2, <2>3 DEF IInv, Good, Used
<1>4. CASE CommitFails
  <2>1. /\ now' = [now EXCEPT !.row = db.row, !.ssl = db.ssl, !.iface = db.iface]
        /\ phase' = "idle" /\ n' = 0 /\ UNCHANGED db
    BY <1>4 DEF CommitFails, TxnAbort, Idle
  <2>2. db.row \in BOOLEAN /\ db.ssl \in SslRow /\ db.iface \in [Ports -> Iface] /\ Used(db)
    BY DEF IInv, Columns
  <2>3. Good(now')
    BY <1>0, <2>1, <2>2 DEF Good, State, Used
  <2> QED BY <1>0, <2>1, <2>3 DEF IInv, Good, Used
<1> QED BY <1>1, <1>2, <1>3, <1>4, CertsInv, IfaceInv, DeviceInv DEF Next

\* The invariant holds in every reachable state.
LEMMA Inductive == Spec => []IInv
BY InitInv, StepInv, PTL DEF Spec

-----------------------------------------------------------------------------
(* What the functions promise                                              *)

\* Rows, files and ports keep their types: whatever fails half way, key.pem
\* holds a key, nothing, or what a failed write has left.
THEOREM TypeCorrect == Spec => []TypeOK
<1>1. IInv => TypeOK
  <2> SUFFICES ASSUME IInv PROVE TypeOK
    OBVIOUS
  <2>1. /\ now.row \in BOOLEAN /\ now.ssl \in SslRow /\ now.iface \in [Ports -> Iface]
        /\ now.file \in Files /\ now.dev \in Devs
    BY DEF IInv, Good, State
  <2>2. db.row \in BOOLEAN /\ db.ssl \in SslRow /\ db.iface \in [Ports -> Iface]
    BY DEF IInv, Columns
  <2>3. phase \in {"idle", "delete", "write"} /\ n \in 0..MaxOps
    BY DEF IInv
  <2> QED BY <2>1, <2>2, <2>3 DEF TypeOK, Files, Devs
<1> QED BY <1>1, Inductive, PTL

\* The SSL row is there exactly as long as a certificate needs it, in OVSDB
\* and in the transaction, in whatever order certificates come and go and
\* whichever of the steps fail.
THEOREM RowIsInUse == Spec => []RowInUse
<1>1. IInv => RowInUse
  BY DEF IInv, Good, Used, RowInUse
<1> QED BY <1>1, Inductive, PTL
-----------------------------------------------------------------------------
(* Documents                                                               *)

OwnLeaves  == {"resource-id", "certificate", "key-type", "key-data"}
ExtLeaves  == {"resource-id", "certificate"}
CertValues == ResIds \cup Texts \cup KeyTypes
IfLeaves   == {"requested-number", "tunnel", "key", "csum"}
IfValues   == Values \cup Tunnels
DevLeaves  == {<<"admin", "up">>, <<"admin", "down">>, <<"bit", "true">>, <<"bit", "false">>,
               <<"rate", "on">>}

\* The elements that documents have.
Typed(A) ==
    \A e \in A :
        \/ \E l \in OwnLeaves, v \in CertValues : e = <<"cert", "own", l, v>>
        \/ \E l \in ExtLeaves, v \in CertValues : e = <<"cert", "ext", l, v>>
        \/ \E p \in Ports, l \in IfLeaves, v \in IfValues : e = <<"iface", p, l, v>>
        \/ \E p \in Ports, d \in DevLeaves : e = <<"dev", p, d[1], d[2]>>

\* A document has the elements that are shown, part by part.
OwnMatch(s, A) ==
    \A l \in OwnLeaves, v \in CertValues :
        <<"cert", "own", l, v>> \in A <=> <<"cert", "own", l, v>> \in OwnedConfig(s)
ExtMatch(s, A) ==
    \A l \in ExtLeaves, v \in CertValues :
        <<"cert", "ext", l, v>> \in A <=> <<"cert", "ext", l, v>> \in ExternalConfig(s)
ReqMatch(s, A, p) ==
    \A v \in IfValues : <<"iface", p, "requested-number", v>> \in A <=> s.iface[p].req = v
TunnelMatch(s, A, p) ==
    \A t \in IfValues : <<"iface", p, "tunnel", t>> \in A <=> s.iface[p].tunnel = t
KeyMatch(s, A, p) ==
    \A v \in IfValues : <<"iface", p, "key", v>> \in A <=>
        s.iface[p].tunnel # Absent /\ s.iface[p].opt["key"] = v
AdminMatch(s, A, p) ==
    /\ <<"dev", p, "admin", "down">> \in A <=> ~s.dev[p].up
    /\ <<"dev", p, "admin", "up">> \in A => s.dev[p].up
BitMatch(s, A, p) ==
    /\ <<"dev", p, "bit", "true">> \in A <=> s.dev[p].bit
    /\ <<"dev", p, "bit", "false">> \in A => ~s.dev[p].bit
RateMatch(s, A, p) ==
    <<"dev", p, "rate", "on">> \in A <=> p \in System /\ s.dev[p].rate

\* All parts but those in X.
Match(s, A, X) ==
    /\ Own \notin X => OwnMatch(s, A)
    /\ Ext \notin X => ExtMatch(s, A)
    /\ \A p \in Ports :
         /\ ReqMatch(s, A, p) /\ TunnelMatch(s, A, p)
         /\ <<"iface", p, "key">> \notin X => KeyMatch(s, A, p)
         /\ <<"dev", p, "admin">> \notin X => AdminMatch(s, A, p)
         /\ <<"dev", p, "bit">> \notin X => BitMatch(s, A, p)
         /\ <<"dev", p, "rate">> \notin X => RateMatch(s, A, p)

\* The state after an abort.
Restored(s) == [s EXCEPT !.row = db.row, !.ssl = db.ssl, !.iface = db.iface]

\* A key belongs to a tunnel.
KeyHasTunnel(s) == \A p \in Ports : s.iface[p].opt["key"] # Absent => s.iface[p].tunnel # Absent

\* The certificates and tunnels that are left of the document read at the
\* beginning are still there.
StillThere(s, D, A) ==
    /\ \A r \in CertValues : <<"cert", "own", "resource-id", r>> \in D =>
         <<"cert", "own", "resource-id", r>> \in A /\ s.row /\ s.ssl.own = r
    /\ \A r \in CertValues : <<"cert", "ext", "resource-id", r>> \in D =>
         <<"cert", "ext", "resource-id", r>> \in A /\ s.row /\ s.ssl.ext = r
    /\ \A p \in Ports, t \in IfValues : <<"iface", p, "tunnel", t>> \in D => s.iface[p].tunnel = t

\* Two documents that differ in the settings of ports only: what is asked for,
\* and what the read of running got.
Alike(A, B) ==
    \A k, w, l, v : (k # "dev" \/ l = "rate") => (<<k, w, l, v>> \in A <=> <<k, w, l, v>> \in B)

WInv ==
    /\ Typed(doc) /\ Typed(ask) /\ Typed(seen)
    /\ phase = "delete" => Alike(ask, doc)
    /\ KeyHasTunnel(now) /\ KeyHasTunnel(db)
    /\ StillThere(now, doc, ask)
    /\ phase = "idle" => now = Restored(now) /\ hist = NoHist
    /\ phase # "idle" => Match(now, ask, (dirty \ hist.whole) \cup hist.spoilt)
    /\ Match(Restored(now), seen, dirty \cup hist.touched)

-----------------------------------------------------------------------------
(* Elements of documents                                                   *)

\* The document that is asked for, once D is deleted and M created.
After(A, D, M) == {e \in A \ D : \A m \in M : SubSeq(e, 1, 3) # SubSeq(m, 1, 3)} \cup M

\* What identifies an element.
LEMMA Prefix ==
    ASSUME NEW k, NEW w, NEW l, NEW v
    PROVE  SubSeq(<<k, w, l, v>>, 1, 3) = <<k, w, l>>
<1> DEFINE s == <<k, w, l, v>>
           t == <<k, w, l>>
           S == {k, w, l, v}
<1>1. s[1] = k /\ s[2] = w /\ s[3] = l /\ \A i \in 1..3 : s[i] \in S
  OBVIOUS
<1>2. t \in Seq(S) /\ Len(t) = 3 /\ t[1] = k /\ t[2] = w /\ t[3] = l
  OBVIOUS
<1> HIDE DEF s, t, S
<1>3. /\ SubSeq(s, 1, 3) \in Seq(S) /\ Len(SubSeq(s, 1, 3)) = 3
      /\ \A i \in 1..3 : SubSeq(s, 1, 3)[i] = s[1 + i - 1]
  BY <1>1, SubSeqProperties
<1>4. \A i \in 1..3 : SubSeq(s, 1, 3)[i] = t[i]
  BY <1>1, <1>2, <1>3
<1>5. SubSeq(s, 1, 3) = t
  BY <1>2, <1>3, <1>4, SeqEqual
<1> QED BY <1>5 DEF s, t

\* Elements are tuples of four.
LEMMA FourTuples ==
    ASSUME NEW A, Typed(A), NEW e \in A
    PROVE  e = <<e[1], e[2], e[3], e[4]>>
BY DEF Typed

\* What is in the new document: an element that was created, or one that was
\* neither deleted nor replaced.
LEMMA InAfter ==
    ASSUME NEW A, NEW D, NEW M, Typed(M), NEW k, NEW w, NEW l, NEW v
    PROVE  <<k, w, l, v>> \in After(A, D, M) <=>
             \/ <<k, w, l, v>> \in M
             \/ /\ <<k, w, l, v>> \in A /\ <<k, w, l, v>> \notin D
                /\ \A m \in M : m[1] # k \/ m[2] # w \/ m[3] # l
<1>1. \A m \in M : SubSeq(m, 1, 3) = <<m[1], m[2], m[3]>>
  BY FourTuples, Prefix
<1>2. SubSeq(<<k, w, l, v>>, 1, 3) = <<k, w, l>>
  BY Prefix
<1> QED BY <1>1, <1>2 DEF After


-----------------------------------------------------------------------------
(* What one element of an edit has to do                                   *)

\* The parts that are not promised once the edit is committed.
Exposed(part, whole, spoilt) ==
    (dirty \ (IF whole THEN hist.whole \cup {part} ELSE hist.whole))
       \cup (hist.spoilt \cup spoilt)

\* Outside the transaction only the given part has changed.
Local(s, part) ==
    /\ part # Own => /\ s.file["cert.pem"] = now.file["cert.pem"]
                     /\ s.file["key.pem"] = now.file["key.pem"]
    /\ part # Ext => s.file["ca_cert.pem"] = now.file["ca_cert.pem"]
    /\ \A p \in Ports :
         /\ part # <<"dev", p, "admin">> => s.dev[p].up = now.dev[p].up
         /\ part # <<"dev", p, "bit">> => s.dev[p].bit = now.dev[p].bit
         /\ part # <<"dev", p, "rate">> => s.dev[p].rate = now.dev[p].rate

\* A successful result agrees with the document that is then asked for.
Fits(s, D, M, X) ==
    /\ Typed(M) /\ KeyHasTunnel(s)
    /\ StillThere(s, doc \ D, After(ask, D, M))
    /\ Match(s, After(ask, D, M), X)

Does(R, D, M, part, whole, spoilt) ==
    \A r \in R : /\ Local(r.s, part)
                 /\ ~r.err => Fits(r.s, D, M, Exposed(part, whole, spoilt))

\* The same columns and files show the same certificates.
OwnSame(s, t) ==
    /\ t.ssl.own = s.ssl.own
    /\ s.ssl.own # Absent => /\ t.ssl.cert = s.ssl.cert /\ t.ssl.key = s.ssl.key
                             /\ t.file["cert.pem"] = s.file["cert.pem"]
                             /\ t.file["key.pem"] = s.file["key.pem"]
ExtSame(s, t) ==
    /\ t.ssl.ext = s.ssl.ext
    /\ s.ssl.ext # Absent => /\ t.ssl.ca = s.ssl.ca
                             /\ t.file["ca_cert.pem"] = s.file["ca_cert.pem"]

LEMMA SameCerts ==
    ASSUME NEW s, Good(s), NEW t, Good(t)
    PROVE  /\ OwnSame(s, t) => OwnedConfig(t) = OwnedConfig(s)
           /\ ExtSame(s, t) => ExternalConfig(t) = ExternalConfig(s)
<1>1. s.row <=> (s.ssl.own # Absent \/ s.ssl.ext # Absent)
  BY DEF Good, Used
<1>2. t.row <=> (t.ssl.own # Absent \/ t.ssl.ext # Absent)
  BY DEF Good, Used
<1>3. s.row \in BOOLEAN /\ t.row \in BOOLEAN
  BY DEF Good, State
<1> QED BY <1>1, <1>2, <1>3 DEF OwnSame, ExtSame, OwnedConfig, ExternalConfig, ParsePem

\* What is restored depends on the columns in OVSDB, the files and the ports.
LEMMA RestoredParts ==
    ASSUME IInv, NEW s, Good(s)
    PROVE  /\ Good(Restored(s)) /\ Restored(s).row = db.row /\ Restored(s).ssl = db.ssl
           /\ Restored(s).iface = db.iface
           /\ Restored(s).file = s.file /\ Restored(s).dev = s.dev
<1>1. db.row \in BOOLEAN /\ db.ssl \in SslRow /\ db.iface \in [Ports -> Iface] /\ Used(db)
  BY DEF IInv, Columns
<1>2. s \in State
  BY DEF Good
<1>3. /\ Restored(s) \in State /\ Restored(s).row = db.row /\ Restored(s).ssl = db.ssl
      /\ Restored(s).iface = db.iface /\ Restored(s).file = s.file /\ Restored(s).dev = s.dev
  BY <1>1, <1>2 DEF State, Restored
<1> QED BY <1>1, <1>3 DEF Good, Used

\* An abort leaves what the successful edits asked for, but in the parts
\* that were changed outside the transaction.
LEMMA RestoredMatches ==
    ASSUME IInv, NEW s, Good(s), NEW part, Local(s, part), NEW X, NEW Y, X \subseteq Y,
           (s.file # now.file \/ s.dev # now.dev) => part \in Y,
           NEW A, Match(Restored(now), A, X)
    PROVE  Match(Restored(s), A, Y)
<1> DEFINE a == Restored(now)
           b == Restored(s)
<1>1. /\ Good(a) /\ a.ssl = db.ssl /\ a.iface = db.iface /\ a.file = now.file /\ a.dev = now.dev
      /\ Good(b) /\ b.ssl = db.ssl /\ b.iface = db.iface /\ b.file = s.file /\ b.dev = s.dev
  BY RestoredParts DEF IInv
<1> HIDE DEF a, b
<1>2. Own \notin Y => OwnSame(a, b)
  BY <1>1 DEF Local, OwnSame
<1>3. Ext \notin Y => ExtSame(a, b)
  BY <1>1 DEF Local, ExtSame
<1>4. /\ Own \notin Y => OwnMatch(b, A)
      /\ Ext \notin Y => ExtMatch(b, A)
  BY <1>1, <1>2, <1>3, SameCerts DEF Match, OwnMatch, ExtMatch, a
<1>5. ASSUME NEW p \in Ports
      PROVE  /\ ReqMatch(b, A, p) /\ TunnelMatch(b, A, p)
             /\ <<"iface", p, "key">> \notin Y => KeyMatch(b, A, p)
  <2>1. /\ ReqMatch(a, A, p) /\ TunnelMatch(a, A, p)
        /\ <<"iface", p, "key">> \notin Y => KeyMatch(a, A, p)
    BY DEF Match, a
  <2> QED BY <1>1, <2>1 DEF ReqMatch, TunnelMatch, KeyMatch
<1>6. ASSUME NEW p \in Ports
      PROVE  /\ <<"dev", p, "admin">> \notin Y => b.dev[p].up = a.dev[p].up
             /\ <<"dev", p, "bit">> \notin Y => b.dev[p].bit = a.dev[p].bit
             /\ <<"dev", p, "rate">> \notin Y => b.dev[p].rate = a.dev[p].rate
  BY <1>1 DEF Local
<1>7. ASSUME NEW p \in Ports
      PROVE  /\ <<"dev", p, "admin">> \notin Y => AdminMatch(b, A, p)
             /\ <<"dev", p, "bit">> \notin Y => BitMatch(b, A, p)
             /\ <<"dev", p, "rate">> \notin Y => RateMatch(b, A, p)
  BY <1>6 DEF Match, AdminMatch, BitMatch, RateMatch, a
<1> QED BY <1>4, <1>5, <1>7 DEF Match, b

\* An abort keeps the agreement.
LEMMA AbortDoc ==
    ASSUME IInv, WInv, NEW s, Good(s), NEW touched, TxnAbort(s, touched),
           Match(Restored(s), seen, dirty \cup touched)
    PROVE  WInv'
<1>1. /\ now' = Restored(s) /\ dirty' = dirty \cup touched /\ phase' = "idle"
      /\ doc' = {} /\ ask' = {} /\ hist' = NoHist /\ seen' = seen /\ db' = db
  BY DEF TxnAbort, Idle, Restored
<1>2. NoHist.touched = {}
  BY DEF NoHist
<1>3. Restored(now)' = now'
  <2>1. /\ now' \in State /\ now'.row = db.row /\ now'.ssl = db.ssl /\ now'.iface = db.iface
    BY <1>1, RestoredParts DEF Good
  <2> QED BY <1>1, <2>1 DEF Restored, State
<1>4. (dirty \cup hist.touched)' = dirty \cup touched
  BY <1>1, <1>2
<1>5. Match(Restored(now)', seen', (dirty \cup hist.touched)')
  BY <1>1, <1>3, <1>4
<1>6. Typed(doc)' /\ Typed(ask)' /\ Typed(seen)'
  BY <1>1 DEF WInv, Typed
<1>7. now'.iface = db.iface
  BY <1>1, RestoredParts
<1>8. KeyHasTunnel(now)' /\ KeyHasTunnel(db)'
  BY <1>1, <1>7 DEF WInv, KeyHasTunnel
<1>9. StillThere(now, doc, ask)'
  BY <1>1 DEF StillThere
<1>10. phase' = "idle" /\ now' = Restored(now)' /\ hist' = NoHist
  BY <1>1, <1>3
<1> QED BY <1>5, <1>6, <1>8, <1>9, <1>10 DEF WInv

\* One element of an edit keeps the agreement, whether its function succeeds
\* or fails.
LEMMA HandleDoc ==
    ASSUME IInv, WInv, phase # "idle", NEW R, Results(R), NEW D, NEW M,
           NEW part, NEW whole, NEW spoilt,
           Does(R, D, M, part, whole, spoilt), Handle(R, D, M, part, whole, spoilt)
    PROVE  WInv'
<1>1. PICK r \in R :
        LET touched == hist.touched \cup
                          (IF r.s.file # now.file \/ r.s.dev # now.dev THEN {part} ELSE {})
        IN  IF r.err THEN TxnAbort(r.s, touched)
            ELSE /\ now' = r.s
                 /\ doc' = doc \ D
                 /\ ask' = After(ask, D, M)
                 /\ phase' = IF M = {} THEN phase ELSE "write"
                 /\ hist' = [touched |-> touched,
                             whole |-> IF whole THEN hist.whole \cup {part} ELSE hist.whole,
                             spoilt |-> hist.spoilt \cup spoilt]
                 /\ UNCHANGED <<db, seen, dirty>>
  BY DEF Handle, After
<1> DEFINE touched == hist.touched \cup
                        (IF r.s.file # now.file \/ r.s.dev # now.dev THEN {part} ELSE {})
<1>2. Good(r.s) /\ Local(r.s, part)
  BY DEF Results, Does
<1>3. Match(Restored(r.s), seen, dirty \cup touched)
  <2>1. dirty \cup hist.touched \subseteq dirty \cup touched
    OBVIOUS
  <2>2. (r.s.file # now.file \/ r.s.dev # now.dev) => part \in dirty \cup touched
    OBVIOUS
  <2>3. Match(Restored(now), seen, dirty \cup hist.touched)
    BY DEF WInv
  <2> HIDE DEF touched
  <2> QED BY <1>2, <2>1, <2>2, <2>3, RestoredMatches
<1>4. CASE r.err
  <2>1. TxnAbort(r.s, touched)
    BY <1>1, <1>4
  <2> HIDE DEF touched
  <2> QED BY <1>2, <1>3, <2>1, AbortDoc
<1>5. CASE ~r.err
  <2>1. /\ now' = r.s /\ doc' = doc \ D /\ ask' = After(ask, D, M)
        /\ phase' = IF M = {} THEN phase ELSE "write"
        /\ hist' = [touched |-> touched,
                    whole |-> IF whole THEN hist.whole \cup {part} ELSE hist.whole,
                    spoilt |-> hist.spoilt \cup spoilt]
        /\ db' = db /\ seen' = seen /\ dirty' = dirty
    BY <1>1, <1>5
  <2> HIDE DEF touched
  <2>2. Fits(r.s, D, M, Exposed(part, whole, spoilt))
    BY <1>5 DEF Does
  <2>3. phase' # "idle"
    BY <2>1
  <2>4. Typed(doc)' /\ Typed(ask)' /\ Typed(seen)'
    <3>1. Typed(doc) /\ Typed(ask) /\ Typed(seen) /\ Typed(M)
      BY <2>2 DEF WInv, Fits
    <3>2. \A e \in ask' : e \in ask \/ e \in M
      BY <2>1 DEF After
    <3> QED BY <2>1, <3>1, <3>2 DEF Typed
  <2>5. phase' = "delete" => Alike(ask, doc)'
    <3> SUFFICES ASSUME phase' = "delete" PROVE Alike(ask', doc')
      BY DEF Alike
    <3>1. M = {} /\ phase = "delete"
      BY <2>1
    <3>2. Alike(ask, doc) /\ ask' = ask \ D /\ doc' = doc \ D
      BY <2>1, <3>1 DEF WInv, After
    <3> QED BY <3>2 DEF Alike
  <2>6. KeyHasTunnel(now)' /\ KeyHasTunnel(db)'
    BY <2>1, <2>2 DEF WInv, Fits, KeyHasTunnel
  <2>7. StillThere(now, doc, ask)'
    BY <2>1, <2>2 DEF Fits, StillThere
  <2>8. /\ (dirty \ hist.whole)' \cup (hist.spoilt)' = Exposed(part, whole, spoilt)
        /\ (dirty \cup hist.touched)' = dirty \cup touched
    BY <2>1 DEF Exposed
  <2>10. Match(now', ask', ((dirty \ hist.whole) \cup hist.spoilt)')
    BY <2>1, <2>2, <2>8 DEF Fits
  <2>11. Restored(now)' = Restored(r.s)
    BY <2>1 DEF Restored
  <2>12. Match(Restored(now)', seen', (dirty \cup hist.touched)')
    BY <1>3, <2>1, <2>8, <2>11
  <2> QED BY <2>3, <2>4, <2>5, <2>6, <2>7, <2>10, <2>12 DEF WInv
<1> QED BY <1>4, <1>5

-----------------------------------------------------------------------------
(* Certificates                                                            *)

\* The elements of a certificate.
IsCert(e, who) == e[1] = "cert" /\ e[2] = who

\* The parts of ports, if neither the ports nor their elements change.
LEMMA PortsStay ==
    ASSUME WInv, phase # "idle", NEW s, s.iface = now.iface, NEW A, NEW X,
           \A p \in Ports : /\ s.dev[p].up = now.dev[p].up /\ s.dev[p].bit = now.dev[p].bit
                            /\ s.dev[p].rate = now.dev[p].rate,
           \A k, w, l, v : k # "cert" => (<<k, w, l, v>> \in A <=> <<k, w, l, v>> \in ask),
           \A p \in Ports : \A x \in {<<"iface", p, "key">>, <<"dev", p, "admin">>,
                                      <<"dev", p, "bit">>, <<"dev", p, "rate">>} :
               x \notin X => x \notin (dirty \ hist.whole) \cup hist.spoilt
    PROVE  \A p \in Ports :
             /\ ReqMatch(s, A, p) /\ TunnelMatch(s, A, p)
             /\ <<"iface", p, "key">> \notin X => KeyMatch(s, A, p)
             /\ <<"dev", p, "admin">> \notin X => AdminMatch(s, A, p)
             /\ <<"dev", p, "bit">> \notin X => BitMatch(s, A, p)
             /\ <<"dev", p, "rate">> \notin X => RateMatch(s, A, p)
<1> SUFFICES ASSUME NEW p \in Ports
             PROVE  /\ ReqMatch(s, A, p) /\ TunnelMatch(s, A, p)
                    /\ <<"iface", p, "key">> \notin X => KeyMatch(s, A, p)
                    /\ <<"dev", p, "admin">> \notin X => AdminMatch(s, A, p)
                    /\ <<"dev", p, "bit">> \notin X => BitMatch(s, A, p)
                    /\ <<"dev", p, "rate">> \notin X => RateMatch(s, A, p)
  OBVIOUS
<1> DEFINE Y == (dirty \ hist.whole) \cup hist.spoilt
<1>1. Match(now, ask, Y)
  BY DEF WInv
<1> HIDE DEF Y
<1>2. /\ <<"iface", p, "key">> \notin X => <<"iface", p, "key">> \notin Y
      /\ <<"dev", p, "admin">> \notin X => <<"dev", p, "admin">> \notin Y
      /\ <<"dev", p, "bit">> \notin X => <<"dev", p, "bit">> \notin Y
      /\ <<"dev", p, "rate">> \notin X => <<"dev", p, "rate">> \notin Y
  BY DEF Y
<1>3. /\ ReqMatch(now, ask, p) /\ TunnelMatch(now, ask, p)
      /\ <<"iface", p, "key">> \notin X => KeyMatch(now, ask, p)
      /\ <<"dev", p, "admin">> \notin X => AdminMatch(now, ask, p)
      /\ <<"dev", p, "bit">> \notin X => BitMatch(now, ask, p)
      /\ <<"dev", p, "rate">> \notin X => RateMatch(now, ask, p)
  BY <1>1, <1>2 DEF Match
<1>4. ReqMatch(s, A, p) /\ TunnelMatch(s, A, p)
  BY <1>3 DEF ReqMatch, TunnelMatch
<1>5. <<"iface", p, "key">> \notin X => KeyMatch(s, A, p)
  BY <1>3 DEF KeyMatch
<1>6. /\ <<"dev", p, "admin">> \notin X => AdminMatch(s, A, p)
      /\ <<"dev", p, "bit">> \notin X => BitMatch(s, A, p)
      /\ <<"dev", p, "rate">> \notin X => RateMatch(s, A, p)
  BY <1>3 DEF AdminMatch, BitMatch, RateMatch
<1> QED BY <1>4, <1>5, <1>6

\* A change of the owned certificate fits, if the external one is as before
\* or known to be mishandled.
LEMMA OwnFits ==
    ASSUME IInv, WInv, phase # "idle", NEW s, Good(s), s.iface = now.iface, Local(s, Own),
           NEW D, NEW M, Typed(M),
           \A e \in D : IsCert(e, "own"), \A e \in M : IsCert(e, "own"),
           NEW whole, NEW spoilt,
           Own \notin Exposed(Own, whole, spoilt) => OwnMatch(s, After(ask, D, M)),
           s.ssl.ext = now.ssl.ext, Ext \in spoilt \/ ExtSame(now, s),
           \A r \in CertValues : <<"cert", "own", "resource-id", r>> \in doc \ D =>
             <<"cert", "own", "resource-id", r>> \in After(ask, D, M) /\ s.ssl.own = now.ssl.own
    PROVE  Fits(s, D, M, Exposed(Own, whole, spoilt))
<1> DEFINE A == After(ask, D, M)
           X == Exposed(Own, whole, spoilt)
           Y == (dirty \ hist.whole) \cup hist.spoilt
<1>1. \A k, w, l, v : k # "cert" \/ w # "own" => (<<k, w, l, v>> \in A <=> <<k, w, l, v>> \in ask)
  <2> SUFFICES ASSUME NEW k, NEW w, NEW l, NEW v, k # "cert" \/ w # "own"
               PROVE  <<k, w, l, v>> \in A <=> <<k, w, l, v>> \in ask
    OBVIOUS
  <2>1. <<k, w, l, v>> \notin D \cup M
    BY DEF IsCert
  <2>2. \A m \in M : m[1] # k \/ m[2] # w
    BY DEF IsCert
  <2> QED BY <2>1, <2>2, InAfter
<1>2. \A x : x # Own /\ x \notin X => x \notin Y /\ x \notin spoilt
  BY DEF Exposed
<1> HIDE DEF A, X, Y
<1>3. Ext \notin X => ExtMatch(s, A)
  <2> SUFFICES ASSUME Ext \notin X PROVE ExtMatch(s, A)
    OBVIOUS
  <2>1. Ext # Own
    BY DEF Ext, Own
  <2>2. Ext \notin Y /\ ExtSame(now, s)
    BY <1>2, <2>1
  <2>3. ExtMatch(now, ask)
    BY <2>2 DEF WInv, Match, Y
  <2>4. ExternalConfig(s) = ExternalConfig(now)
    BY <2>2, SameCerts DEF IInv
  <2> QED BY <1>1, <2>3, <2>4 DEF ExtMatch
<1>4. \A p \in Ports : /\ s.dev[p].up = now.dev[p].up /\ s.dev[p].bit = now.dev[p].bit
                       /\ s.dev[p].rate = now.dev[p].rate
  BY DEF Local, Own
<1>5. \A p \in Ports : \A x \in {<<"iface", p, "key">>, <<"dev", p, "admin">>,
                                 <<"dev", p, "bit">>, <<"dev", p, "rate">>} :
               x \notin X => x \notin Y
  BY <1>2 DEF Own
<1>6. \A p \in Ports :
             /\ ReqMatch(s, A, p) /\ TunnelMatch(s, A, p)
             /\ <<"iface", p, "key">> \notin X => KeyMatch(s, A, p)
             /\ <<"dev", p, "admin">> \notin X => AdminMatch(s, A, p)
             /\ <<"dev", p, "bit">> \notin X => BitMatch(s, A, p)
             /\ <<"dev", p, "rate">> \notin X => RateMatch(s, A, p)
  BY <1>1, <1>4, <1>5, PortsStay DEF Y
<1>7. Match(s, A, X)
  BY <1>3, <1>6 DEF Match, A, X
<1>8. KeyHasTunnel(s)
  BY DEF WInv, KeyHasTunnel
<1>9. StillThere(s, doc \ D, A)
  <2>0. StillThere(now, doc, ask) /\ (s.row <=> (s.ssl.own # Absent \/ s.ssl.ext # Absent))
    BY DEF WInv, Good, Used
  <2>1. \A r \in CertValues : r # Absent
    BY EffectsAssumption DEF CertValues, KeyTypes
  <2>2. \A r \in CertValues : <<"cert", "own", "resource-id", r>> \in doc \ D =>
         <<"cert", "own", "resource-id", r>> \in A /\ s.row /\ s.ssl.own = r
    BY <2>0, <2>1 DEF StillThere, A
  <2>3. \A r \in CertValues : <<"cert", "ext", "resource-id", r>> \in doc \ D =>
         <<"cert", "ext", "resource-id", r>> \in A /\ s.row /\ s.ssl.ext = r
    BY <1>1, <2>0, <2>1 DEF StillThere
  <2>4. \A p \in Ports, t \in IfValues : <<"iface", p, "tunnel", t>> \in doc \ D => s.iface[p].tunnel = t
    BY <2>0 DEF StillThere
  <2> QED BY <2>2, <2>3, <2>4 DEF StillThere
<1> QED BY <1>7, <1>8, <1>9 DEF Fits, A, X
\* A change of the external certificate fits, if the owned one is as before.
LEMMA ExtFits ==
    ASSUME IInv, WInv, phase # "idle", NEW s, Good(s), s.iface = now.iface, Local(s, Ext),
           NEW D, NEW M, Typed(M),
           \A e \in D : IsCert(e, "ext"), \A e \in M : IsCert(e, "ext"),
           NEW whole, NEW spoilt,
           Ext \notin Exposed(Ext, whole, spoilt) => ExtMatch(s, After(ask, D, M)),
           OwnSame(now, s),
           \A r \in CertValues : <<"cert", "ext", "resource-id", r>> \in doc \ D =>
             <<"cert", "ext", "resource-id", r>> \in After(ask, D, M) /\ s.ssl.ext = now.ssl.ext
    PROVE  Fits(s, D, M, Exposed(Ext, whole, spoilt))
<1> DEFINE A == After(ask, D, M)
           X == Exposed(Ext, whole, spoilt)
           Y == (dirty \ hist.whole) \cup hist.spoilt
<1>1. \A k, w, l, v : k # "cert" \/ w # "ext" => (<<k, w, l, v>> \in A <=> <<k, w, l, v>> \in ask)
  <2> SUFFICES ASSUME NEW k, NEW w, NEW l, NEW v, k # "cert" \/ w # "ext"
               PROVE  <<k, w, l, v>> \in A <=> <<k, w, l, v>> \in ask
    OBVIOUS
  <2>1. <<k, w, l, v>> \notin D \cup M
    BY DEF IsCert
  <2>2. \A m \in M : m[1] # k \/ m[2] # w
    BY DEF IsCert
  <2> QED BY <2>1, <2>2, InAfter
<1>2. \A x : x # Ext /\ x \notin X => x \notin Y /\ x \notin spoilt
  BY DEF Exposed
<1> HIDE DEF A, X, Y
<1>3. Own \notin X => OwnMatch(s, A)
  <2> SUFFICES ASSUME Own \notin X PROVE OwnMatch(s, A)
    OBVIOUS
  <2>1. Ext # Own
    BY DEF Ext, Own
  <2>2. Own \notin Y
    BY <1>2, <2>1
  <2>3. OwnMatch(now, ask)
    BY <2>2 DEF WInv, Match, Y
  <2>4. OwnedConfig(s) = OwnedConfig(now)
    BY SameCerts DEF IInv
  <2> QED BY <1>1, <2>3, <2>4 DEF OwnMatch
<1>4. \A p \in Ports : /\ s.dev[p].up = now.dev[p].up /\ s.dev[p].bit = now.dev[p].bit
                       /\ s.dev[p].rate = now.dev[p].rate
  BY DEF Local, Ext
<1>5. \A p \in Ports : \A x \in {<<"iface", p, "key">>, <<"dev", p, "admin">>,
                                 <<"dev", p, "bit">>, <<"dev", p, "rate">>} :
               x \notin X => x \notin Y
  BY <1>2 DEF Ext
<1>6. \A p \in Ports :
             /\ ReqMatch(s, A, p) /\ TunnelMatch(s, A, p)
             /\ <<"iface", p, "key">> \notin X => KeyMatch(s, A, p)
             /\ <<"dev", p, "admin">> \notin X => AdminMatch(s, A, p)
             /\ <<"dev", p, "bit">> \notin X => BitMatch(s, A, p)
             /\ <<"dev", p, "rate">> \notin X => RateMatch(s, A, p)
  BY <1>1, <1>4, <1>5, PortsStay DEF Y
<1>7. Match(s, A, X)
  BY <1>3, <1>6 DEF Match, A, X
<1>8. KeyHasTunnel(s)
  BY DEF WInv, KeyHasTunnel
<1>9. StillThere(s, doc \ D, A)
  <2>0. StillThere(now, doc, ask) /\ (s.row <=> (s.ssl.own # Absent \/ s.ssl.ext # Absent))
    BY DEF WInv, Good, Used
  <2>1. \A r \in CertValues : r # Absent
    BY EffectsAssumption DEF CertValues, KeyTypes
  <2>2. \A r \in CertValues : <<"cert", "own", "resource-id", r>> \in doc \ D =>
         <<"cert", "own", "resource-id", r>> \in A /\ s.row /\ s.ssl.own = r
    BY <1>1, <2>0, <2>1 DEF StillThere, OwnSame
  <2>3. \A r \in CertValues : <<"cert", "ext", "resource-id", r>> \in doc \ D =>
         <<"cert", "ext", "resource-id", r>> \in A /\ s.row /\ s.ssl.ext = r
    BY <2>0, <2>1 DEF StillThere, A
  <2>4. \A p \in Ports, t \in IfValues : <<"iface", p, "tunnel", t>> \in doc \ D => s.iface[p].tunnel = t
    BY <2>0 DEF StillThere
  <2> QED BY <2>2, <2>3, <2>4 DEF StillThere
<1> QED BY <1>7, <1>8, <1>9 DEF Fits, A, X

\* What writing a file changes.
LEMMA WriteFileDoes ==
    ASSUME NEW s \in State, NEW f \in FileNames, NEW text, NEW q \in WriteFile(s, f, text)
    PROVE  /\ q.s.row = s.row /\ q.s.ssl = s.ssl /\ q.s.iface = s.iface /\ q.s.dev = s.dev
           /\ \A g \in FileNames : g # f => q.s.file[g] = s.file[g]
           /\ ~q.err => q.s.file[f] = text
<1>1. s.file \in [FileNames -> Texts \cup Keys \cup {Absent, Broken}]
  BY DEF State, Files
<1>2. ASSUME NEW x
      PROVE  LET t == [s EXCEPT !.file[f] = x]
             IN  /\ t.row = s.row /\ t.ssl = s.ssl /\ t.iface = s.iface /\ t.dev = s.dev
                 /\ \A g \in FileNames : g # f => t.file[g] = s.file[g]
                 /\ t.file[f] = x
  <2> DEFINE t == [s EXCEPT !.file[f] = x]
  <2>1. /\ t.row = s.row /\ t.ssl = s.ssl /\ t.iface = s.iface /\ t.dev = s.dev
        /\ t.file = [s.file EXCEPT ![f] = x]
    BY DEF State
  <2> HIDE DEF t
  <2>2. \A g \in FileNames : t.file[g] = IF g = f THEN x ELSE s.file[g]
    BY <1>1, <2>1
  <2> QED BY <2>1, <2>2 DEF t
<1>3. \/ q = Ok([s EXCEPT !.file[f] = text])
      \/ q = Err(s)
      \/ q = Err([s EXCEPT !.file[f] = Broken])
  BY DEF WriteFile
<1>4. CASE q = Ok([s EXCEPT !.file[f] = text])
  <2>1. q.s = [s EXCEPT !.file[f] = text]
    BY <1>4, ResultParts
  <2> QED BY <1>2, <2>1
<1>5. CASE q = Err(s)
  BY <1>5, ResultParts
<1>6. CASE q = Err([s EXCEPT !.file[f] = Broken])
  <2>1. q.s = [s EXCEPT !.file[f] = Broken] /\ q.err
    BY <1>6, ResultParts
  <2> QED BY <1>2, <2>1
<1> QED BY <1>3, <1>4, <1>5, <1>6

\* What the two functions that add a certificate change.
LEMMA AddOwnedDoes ==
    ASSUME NEW s, Good(s), NEW r \in ResIds, NEW c \in Texts, NEW k \in Keys,
           NEW q \in TxnAddOwned(s, r, c, k)
    PROVE  /\ q.s.iface = s.iface /\ q.s.dev = s.dev
           /\ q.s.file["ca_cert.pem"] = s.file["ca_cert.pem"] /\ ExtSame(s, q.s)
           /\ ~q.err => /\ q.s.ssl.own = r /\ q.s.ssl.cert = TRUE /\ q.s.ssl.key = TRUE
                        /\ q.s.file["cert.pem"] = c /\ q.s.file["key.pem"] = k
                        /\ s.row => s.ssl.own \in {Absent, r}
<1> DEFINE own(t) == [t EXCEPT !.row = TRUE, !.ssl.own = r, !.ssl.cert = TRUE, !.ssl.key = TRUE]
           link(t) == {Ok(own(t))}
           key(t) == WriteFile(t, "key.pem", k)
           W == Then(WriteFile(s, "cert.pem", c), key)
<1>0. s \in State
  BY DEF Good
<1>1. CASE q = Err(s)
  BY <1>1, ResultParts DEF ExtSame
<1>2. CASE q \in Then(W, link) /\ (s.row => s.ssl.own \in {Absent, r})
  <2>1. ASSUME NEW w \in W
        PROVE  /\ w.s.ssl = s.ssl /\ w.s.iface = s.iface /\ w.s.dev = s.dev /\ w.s \in State
               /\ w.s.file["ca_cert.pem"] = s.file["ca_cert.pem"]
               /\ ~w.err => w.s.file["cert.pem"] = c /\ w.s.file["key.pem"] = k
    <3>1. PICK a \in WriteFile(s, "cert.pem", c) :
            (a.err /\ w = a) \/ (~a.err /\ w \in WriteFile(a.s, "key.pem", k))
      BY DEF Then
    <3>2. /\ a.s.ssl = s.ssl /\ a.s.iface = s.iface /\ a.s.dev = s.dev
          /\ a.s.file["ca_cert.pem"] = s.file["ca_cert.pem"] /\ (~a.err => a.s.file["cert.pem"] = c)
      BY <1>0, WriteFileDoes DEF FileNames
    <3>3. Good(a.s)
      BY WriteFileGood DEF Results, FileNames
    <3>4. CASE w = a /\ a.err
      BY <3>2, <3>3, <3>4 DEF Good
    <3>5. CASE ~a.err /\ w \in WriteFile(a.s, "key.pem", k)
      <4>1. /\ w.s.ssl = a.s.ssl /\ w.s.iface = a.s.iface /\ w.s.dev = a.s.dev
            /\ w.s.file["ca_cert.pem"] = a.s.file["ca_cert.pem"]
            /\ w.s.file["cert.pem"] = a.s.file["cert.pem"] /\ (~w.err => w.s.file["key.pem"] = k)
        BY <3>3, <3>5, WriteFileDoes DEF FileNames, Good
      <4>2. Good(w.s)
        BY <3>3, <3>5, WriteFileGood DEF Results, FileNames
      <4> QED BY <3>2, <3>5, <4>1, <4>2 DEF Good
    <3> QED BY <3>1, <3>4, <3>5
  <2> HIDE DEF W
  <2>2. PICK w \in W : (w.err /\ q = w) \/ (~w.err /\ q = Ok(own(w.s)))
    BY <1>2 DEF Then
  <2>3. CASE w.err /\ q = w
    BY <2>1, <2>3 DEF ExtSame
  <2>4. CASE ~w.err /\ q = Ok(own(w.s))
    <3> DEFINE t == own(w.s)
    <3>1. w.s \in State /\ w.s.ssl \in SslRow
      BY <2>1 DEF State
    <3>2. /\ t.row = TRUE /\ t.iface = w.s.iface /\ t.dev = w.s.dev /\ t.file = w.s.file
          /\ t.ssl = [w.s.ssl EXCEPT !.own = r, !.cert = TRUE, !.key = TRUE]
      BY <3>1 DEF State
    <3> HIDE DEF t
    <3>3. /\ t.ssl.own = r /\ t.ssl.cert = TRUE /\ t.ssl.key = TRUE /\ t.ssl.ext = w.s.ssl.ext
          /\ t.ssl.ca = w.s.ssl.ca
      BY <3>1, <3>2 DEF SslRow
    <3>4. q.s = t
      BY <2>4, ResultParts DEF t
    <3>5. /\ w.s.ssl = s.ssl /\ w.s.iface = s.iface /\ w.s.dev = s.dev
          /\ w.s.file["ca_cert.pem"] = s.file["ca_cert.pem"]
          /\ w.s.file["cert.pem"] = c /\ w.s.file["key.pem"] = k
      BY <2>1, <2>4
    <3>6. ExtSame(s, t)
      BY <3>2, <3>3, <3>5 DEF ExtSame
    <3> QED BY <1>2, <3>2, <3>3, <3>4, <3>5, <3>6
  <2> QED BY <2>2, <2>3, <2>4
<1>3. q = Err(s) \/ (q \in Then(W, link) /\ (s.row => s.ssl.own \in {Absent, r}))
  BY DEF TxnAddOwned
<1> QED BY <1>1, <1>2, <1>3

LEMMA AddExternalDoes ==
    ASSUME NEW s, Good(s), NEW r \in ResIds, NEW c \in Texts, NEW q \in TxnAddExternal(s, r, c)
    PROVE  /\ q.s.iface = s.iface /\ q.s.dev = s.dev
           /\ q.s.file["cert.pem"] = s.file["cert.pem"] /\ q.s.file["key.pem"] = s.file["key.pem"]
           /\ OwnSame(s, q.s)
           /\ ~q.err => /\ q.s.ssl.ext = r /\ q.s.ssl.ca = TRUE
                        /\ q.s.file["ca_cert.pem"] = c
                        /\ s.row => s.ssl.ext \in {Absent, r}
<1> DEFINE ext(t) == [t EXCEPT !.row = TRUE, !.ssl.ext = r, !.ssl.ca = TRUE]
           link(t) == {Ok(ext(t))}
           W == WriteFile(s, "ca_cert.pem", c)
<1>0. s \in State
  BY DEF Good
<1>1. CASE q = Err(s)
  BY <1>1, ResultParts DEF OwnSame
<1>2. CASE q \in Then(W, link) /\ (s.row => s.ssl.ext \in {Absent, r})
  <2>1. PICK w \in W : (w.err /\ q = w) \/ (~w.err /\ q = Ok(ext(w.s)))
    BY <1>2 DEF Then
  <2>2. /\ w.s.ssl = s.ssl /\ w.s.iface = s.iface /\ w.s.dev = s.dev
        /\ w.s.file["cert.pem"] = s.file["cert.pem"] /\ w.s.file["key.pem"] = s.file["key.pem"]
        /\ ~w.err => w.s.file["ca_cert.pem"] = c
    BY <1>0, WriteFileDoes DEF FileNames
  <2>3. CASE w.err /\ q = w
    BY <2>2, <2>3 DEF OwnSame
  <2>4. CASE ~w.err /\ q = Ok(ext(w.s))
    <3> DEFINE t == ext(w.s)
    <3>1. w.s \in State /\ w.s.ssl \in SslRow
      <4>1. Good(w.s)
        BY WriteFileGood DEF Results, FileNames
      <4> QED BY <4>1 DEF Good, State
    <3>2. /\ t.iface = w.s.iface /\ t.dev = w.s.dev /\ t.file = w.s.file
          /\ t.ssl = [w.s.ssl EXCEPT !.ext = r, !.ca = TRUE]
      BY <3>1 DEF State
    <3> HIDE DEF t
    <3>3. /\ t.ssl.ext = r /\ t.ssl.ca = TRUE /\ t.ssl.own = w.s.ssl.own
          /\ t.ssl.cert = w.s.ssl.cert /\ t.ssl.key = w.s.ssl.key
      BY <3>1, <3>2 DEF SslRow
    <3>4. q.s = t
      BY <2>4, ResultParts DEF t
    <3>5. OwnSame(s, t)
      BY <2>2, <3>2, <3>3 DEF OwnSame
    <3> QED BY <1>2, <2>2, <2>4, <3>2, <3>3, <3>4, <3>5
  <2> QED BY <2>1, <2>3, <2>4
<1>3. q = Err(s) \/ (q \in Then(W, link) /\ (s.row => s.ssl.ext \in {Absent, r}))
  BY DEF TxnAddExternal
<1> QED BY <1>1, <1>2, <1>3

\* The creation of a certificate.
LEMMA CreateOwnedDoc ==
    ASSUME IInv, WInv, NEW r \in ResIds, NEW c \in Texts, NEW k \in Keys, CreateOwned(r, c, k)
    PROVE  WInv'
<1> DEFINE R == TxnAddOwned(now, r, c, k)
           M == {<<"cert", "own", "resource-id", r>>, <<"cert", "own", "certificate", c>>,
                 <<"cert", "own", "key-type", k.type>>, <<"cert", "own", "key-data", k.data>>}
           A == After(ask, {}, M)
<1>1. /\ Good(now) /\ Results(R) /\ phase # "idle" /\ Handle(R, {}, M, Own, TRUE, {})
      /\ \A e \in Asked("cert", "own") : e[3] = "resource-id" => e[4] # r
  BY AddCertsGood DEF IInv, CreateOwned, Write
<1>2. k.type \in KeyTypes /\ k.data \in Texts /\ r # Absent
  BY EffectsAssumption DEF Keys
<1>3. Typed(M) /\ \A e \in M : IsCert(e, "own")
  BY <1>2 DEF Typed, IsCert, OwnLeaves, CertValues
<1>4. \A l \in OwnLeaves, v \in CertValues :
        <<"cert", "own", l, v>> \in A <=> <<"cert", "own", l, v>> \in M
  <2> SUFFICES ASSUME NEW l \in OwnLeaves, NEW v \in CertValues
               PROVE  <<"cert", "own", l, v>> \in A <=> <<"cert", "own", l, v>> \in M
    OBVIOUS
  <2>1. \E m \in M : m[1] = "cert" /\ m[2] = "own" /\ m[3] = l
    BY DEF OwnLeaves
  <2> HIDE DEF M
  <2> QED BY <1>3, <2>1, InAfter
<1> HIDE DEF A, R
<1>5. ASSUME NEW q \in R
      PROVE  /\ Local(q.s, Own)
             /\ ~q.err => Fits(q.s, {}, M, Exposed(Own, TRUE, {}))
  <2>1. /\ q.s.iface = now.iface /\ q.s.dev = now.dev
        /\ q.s.file["ca_cert.pem"] = now.file["ca_cert.pem"] /\ ExtSame(now, q.s)
        /\ ~q.err => /\ q.s.ssl.own = r /\ q.s.ssl.cert = TRUE /\ q.s.ssl.key = TRUE
                     /\ q.s.file["cert.pem"] = c /\ q.s.file["key.pem"] = k
                     /\ now.row => now.ssl.own \in {Absent, r}
    BY <1>1, AddOwnedDoes DEF R
  <2>2. Local(q.s, Own)
    BY <2>1 DEF Local
  <2>3. Good(q.s)
    BY <1>1 DEF Results
  <2>4. ASSUME ~q.err PROVE Fits(q.s, {}, M, Exposed(Own, TRUE, {}))
    <3>1. q.s.row
      BY <1>2, <2>1, <2>3, <2>4 DEF Good, Used
    <3>2. OwnedConfig(q.s) = M
      BY <1>2, <2>1, <2>4, <3>1 DEF OwnedConfig, ParsePem
    <3>3. OwnMatch(q.s, A)
      BY <1>4, <3>2 DEF OwnMatch
    <3>4. ASSUME NEW x \in CertValues, <<"cert", "own", "resource-id", x>> \in doc
          PROVE  FALSE
      <4>1. <<"cert", "own", "resource-id", x>> \in ask /\ now.row /\ now.ssl.own = x
        BY <3>4 DEF WInv, StillThere
      <4>2. x # r
        BY <1>1, <4>1 DEF Asked
      <4>3. x # Absent
        BY EffectsAssumption DEF CertValues, KeyTypes
      <4> QED BY <2>1, <2>4, <4>1, <4>2, <4>3
    <3>5. q.s.ssl.ext = now.ssl.ext
      BY <2>1 DEF ExtSame
    <3> HIDE DEF M
    <3> QED BY <1>1, <1>3, <2>1, <2>2, <2>3, <3>3, <3>4, <3>5, OwnFits DEF A
  <2> QED BY <2>2, <2>4
<1> HIDE DEF M
<1>6. Does(R, {}, M, Own, TRUE, {})
  BY <1>5 DEF Does
<1> QED BY <1>1, <1>6, HandleDoc

LEMMA CreateExternalDoc ==
    ASSUME IInv, WInv, NEW r \in ResIds, NEW c \in Texts, CreateExternal(r, c)
    PROVE  WInv'
<1> DEFINE R == TxnAddExternal(now, r, c)
           M == {<<"cert", "ext", "resource-id", r>>, <<"cert", "ext", "certificate", c>>}
           A == After(ask, {}, M)
<1>1. /\ Good(now) /\ Results(R) /\ phase # "idle" /\ Handle(R, {}, M, Ext, TRUE, {})
      /\ \A e \in Asked("cert", "ext") : e[3] = "resource-id" => e[4] # r
  BY AddCertsGood DEF IInv, CreateExternal, Write
<1>2. r # Absent
  BY EffectsAssumption
<1>3. Typed(M) /\ \A e \in M : IsCert(e, "ext")
  BY DEF Typed, IsCert, ExtLeaves, CertValues
<1>4. \A l \in ExtLeaves, v \in CertValues :
        <<"cert", "ext", l, v>> \in A <=> <<"cert", "ext", l, v>> \in M
  <2> SUFFICES ASSUME NEW l \in ExtLeaves, NEW v \in CertValues
               PROVE  <<"cert", "ext", l, v>> \in A <=> <<"cert", "ext", l, v>> \in M
    OBVIOUS
  <2>1. \E m \in M : m[1] = "cert" /\ m[2] = "ext" /\ m[3] = l
    BY DEF ExtLeaves
  <2> HIDE DEF M
  <2> QED BY <1>3, <2>1, InAfter
<1> HIDE DEF A, R
<1>5. ASSUME NEW q \in R
      PROVE  /\ Local(q.s, Ext)
             /\ ~q.err => Fits(q.s, {}, M, Exposed(Ext, TRUE, {}))
  <2>1. /\ q.s.iface = now.iface /\ q.s.dev = now.dev
        /\ q.s.file["cert.pem"] = now.file["cert.pem"] /\ q.s.file["key.pem"] = now.file["key.pem"]
        /\ OwnSame(now, q.s)
        /\ ~q.err => /\ q.s.ssl.ext = r /\ q.s.ssl.ca = TRUE
                     /\ q.s.file["ca_cert.pem"] = c
                     /\ now.row => now.ssl.ext \in {Absent, r}
    BY <1>1, AddExternalDoes DEF R
  <2>2. Local(q.s, Ext)
    BY <2>1 DEF Local
  <2>3. Good(q.s)
    BY <1>1 DEF Results
  <2>4. ASSUME ~q.err PROVE Fits(q.s, {}, M, Exposed(Ext, TRUE, {}))
    <3>1. q.s.row
      BY <1>2, <2>1, <2>3, <2>4 DEF Good, Used
    <3>2. ExternalConfig(q.s) = M
      BY <1>2, <2>1, <2>4, <3>1 DEF ExternalConfig
    <3>3. ExtMatch(q.s, A)
      BY <1>4, <3>2 DEF ExtMatch
    <3>4. ASSUME NEW x \in CertValues, <<"cert", "ext", "resource-id", x>> \in doc
          PROVE  FALSE
      <4>1. <<"cert", "ext", "resource-id", x>> \in ask /\ now.row /\ now.ssl.ext = x
        BY <3>4 DEF WInv, StillThere
      <4>2. x # r
        BY <1>1, <4>1 DEF Asked
      <4>3. x # Absent
        BY EffectsAssumption DEF CertValues, KeyTypes
      <4> QED BY <2>1, <2>4, <4>1, <4>2, <4>3
    <3> HIDE DEF M
    <3> QED BY <1>1, <1>3, <2>1, <2>2, <2>3, <3>3, <3>4, ExtFits DEF A
  <2> QED BY <2>2, <2>4
<1> HIDE DEF M
<1>6. Does(R, {}, M, Ext, TRUE, {})
  BY <1>5 DEF Does
<1> QED BY <1>1, <1>6, HandleDoc

\* The functions that change an owned certificate, and nothing else of it.
OwnStep(s, t) ==
    /\ t.iface = s.iface /\ t.dev = s.dev /\ t.file["ca_cert.pem"] = s.file["ca_cert.pem"]
    /\ t.ssl.own = s.ssl.own /\ t.ssl.ext = s.ssl.ext /\ t.ssl.key = s.ssl.key

LEMMA RemoveOwnDoes ==
    ASSUME NEW s, Good(s), NEW r, NEW q \in RemoveOwnCert(s, r)
    PROVE  /\ OwnStep(s, q.s) /\ q.s.file["key.pem"] = s.file["key.pem"]
           /\ q.s.ssl.cert = s.ssl.cert
<1> DEFINE t == [s EXCEPT !.file["cert.pem"] = Absent, !.ssl.ca = FALSE]
<1>1. s \in State /\ s.ssl \in SslRow /\ s.file \in [FileNames -> Texts \cup Keys \cup {Absent, Broken}]
  BY DEF Good, State, Files
<1>2. /\ t.iface = s.iface /\ t.dev = s.dev /\ t.file = [s.file EXCEPT !["cert.pem"] = Absent]
      /\ t.ssl = [s.ssl EXCEPT !.ca = FALSE]
  BY <1>1 DEF State
<1>3. q.s = s \/ q.s = t
  BY ResultParts DEF RemoveOwnCert
<1> HIDE DEF t
<1>4. /\ t.ssl.own = s.ssl.own /\ t.ssl.ext = s.ssl.ext /\ t.ssl.key = s.ssl.key
      /\ t.ssl.cert = s.ssl.cert
  BY <1>1, <1>2 DEF SslRow
<1>5. t.file["ca_cert.pem"] = s.file["ca_cert.pem"] /\ t.file["key.pem"] = s.file["key.pem"]
  BY <1>1, <1>2 DEF FileNames
<1> QED BY <1>2, <1>3, <1>4, <1>5 DEF OwnStep

\* A file is as before; a file has a content.
FileSame(s, t, f) == t.file[f] = s.file[f]
FileIs(t, f, text) == t.file[f] = text

LEMMA ModOwnDoes ==
    ASSUME NEW s, Good(s), NEW r, NEW c \in Texts
    PROVE  \A q \in TxnModOwnCert(s, r, c) :
             /\ OwnStep(s, q.s) /\ FileSame(s, q.s, "key.pem")
             /\ ~q.err => q.s.ssl.cert = TRUE /\ FileIs(q.s, "cert.pem", c)
<1> SUFFICES ASSUME NEW q \in TxnModOwnCert(s, r, c)
             PROVE  /\ OwnStep(s, q.s) /\ q.s.file["key.pem"] = s.file["key.pem"]
                    /\ ~q.err => q.s.ssl.cert = TRUE /\ q.s.file["cert.pem"] = c
  BY DEF FileSame, FileIs
<1> DEFINE cert(t) == [t EXCEPT !.ssl.cert = TRUE]
           set(t) == {Ok(cert(t))}
           W == WriteFile(s, "cert.pem", c)
<1>1. CASE q = Err(s)
  BY <1>1, ResultParts DEF OwnStep
<1>2. CASE q \in Then(W, set)
  <2>1. PICK w \in W : (w.err /\ q = w) \/ (~w.err /\ q = Ok(cert(w.s)))
    BY <1>2 DEF Then
  <2>2. /\ w.s.ssl = s.ssl /\ w.s.iface = s.iface /\ w.s.dev = s.dev
        /\ w.s.file["ca_cert.pem"] = s.file["ca_cert.pem"] /\ w.s.file["key.pem"] = s.file["key.pem"]
        /\ ~w.err => w.s.file["cert.pem"] = c
    BY WriteFileDoes DEF FileNames, Good
  <2>3. CASE w.err /\ q = w
    BY <2>2, <2>3 DEF OwnStep
  <2>4. CASE ~w.err /\ q = Ok(cert(w.s))
    <3> DEFINE t == cert(w.s)
    <3>1. w.s \in State /\ w.s.ssl \in SslRow
      <4>1. Good(w.s)
        BY WriteFileGood DEF Results, FileNames
      <4> QED BY <4>1 DEF Good, State
    <3>2. /\ t.iface = w.s.iface /\ t.dev = w.s.dev /\ t.file = w.s.file
          /\ t.ssl = [w.s.ssl EXCEPT !.cert = TRUE]
      BY <3>1 DEF State
    <3> HIDE DEF t
    <3>3. /\ t.ssl.ext = w.s.ssl.ext /\ t.ssl.own = w.s.ssl.own
          /\ t.ssl.cert = TRUE /\ t.ssl.key = w.s.ssl.key
      BY <3>1, <3>2 DEF SslRow
    <3>4. q.s = t
      BY <2>4, ResultParts DEF t
    <3> QED BY <2>2, <2>4, <3>2, <3>3, <3>4 DEF OwnStep
  <2> QED BY <2>1, <2>3, <2>4
<1> QED BY <1>1, <1>2 DEF TxnModOwnCert

\* The functions that change the key.
LEMMA ModKeyDoes ==
    ASSUME NEW s, Good(s), NEW r
    PROVE  /\ \A t \in KeyTypes : \A q \in TxnModKeyType(s, r, t) :
                /\ OwnStep(s, q.s) /\ ExtSame(s, q.s)
                /\ q.s.file["cert.pem"] = s.file["cert.pem"] /\ q.s.ssl.cert = s.ssl.cert
                /\ ~q.err => q.s.file["key.pem"] = [s.file["key.pem"] EXCEPT !.type = t]
           /\ \A d \in Texts : \A q \in TxnModKeyData(s, r, d) :
                /\ OwnStep(s, q.s) /\ ExtSame(s, q.s)
                /\ q.s.file["cert.pem"] = s.file["cert.pem"] /\ q.s.ssl.cert = s.ssl.cert
                /\ ~q.err => q.s.file["key.pem"] = [s.file["key.pem"] EXCEPT !.data = d]
<1>0. s \in State /\ s.file \in [FileNames -> Texts \cup Keys \cup {Absent, Broken}]
  BY DEF Good, State, Files
<1>1. ASSUME NEW t \in KeyTypes, NEW q \in TxnModKeyType(s, r, t)
      PROVE  /\ OwnStep(s, q.s) /\ ExtSame(s, q.s)
             /\ q.s.file["cert.pem"] = s.file["cert.pem"] /\ q.s.ssl.cert = s.ssl.cert
             /\ ~q.err => q.s.file["key.pem"] = [s.file["key.pem"] EXCEPT !.type = t]
  <2> DEFINE k == [s.file["key.pem"] EXCEPT !.type = t]
  <2>1. [s EXCEPT !.file["key.pem"].type = t] = [s EXCEPT !.file["key.pem"] = k]
    BY <1>0 DEF State, FileNames
  <2>2. CASE q = Err(s)
    BY <2>2, ResultParts DEF OwnStep, ExtSame
  <2>3. CASE q \in WriteFile(s, "key.pem", k)
    BY <1>0, <2>3, WriteFileDoes DEF OwnStep, ExtSame, FileNames
  <2> QED BY <2>1, <2>2, <2>3 DEF TxnModKeyType, WriteFile
<1>2. ASSUME NEW d \in Texts, NEW q \in TxnModKeyData(s, r, d)
      PROVE  /\ OwnStep(s, q.s) /\ ExtSame(s, q.s)
             /\ q.s.file["cert.pem"] = s.file["cert.pem"] /\ q.s.ssl.cert = s.ssl.cert
             /\ ~q.err => q.s.file["key.pem"] = [s.file["key.pem"] EXCEPT !.data = d]
  <2>1. CASE q = Err(s)
    BY <2>1, ResultParts DEF OwnStep, ExtSame
  <2>2. CASE q \in WriteFile(s, "key.pem", [s.file["key.pem"] EXCEPT !.data = d])
    BY <1>0, <2>2, WriteFileDoes DEF OwnStep, ExtSame, FileNames
  <2> QED BY <2>1, <2>2 DEF TxnModKeyData
<1> QED BY <1>1, <1>2

\* The replacement of a leaf of the owned certificate.
LEMMA ReplaceOwnLeaf ==
    ASSUME IInv, WInv, phase # "idle", NEW l \in OwnLeaves, l # "resource-id", NEW v \in CertValues,
           NEW id \in CertValues, <<"cert", "own", "resource-id", id>> \in doc, NEW s, Good(s),
           OwnStep(now, s), NEW spoilt, Ext \in spoilt \/ ExtSame(now, s),
           OwnedConfig(now) # {} =>
             \A m \in OwnLeaves, u \in CertValues :
               <<"cert", "own", m, u>> \in OwnedConfig(s) <=>
                 IF m = l THEN u = v ELSE <<"cert", "own", m, u>> \in OwnedConfig(now)
    PROVE  /\ Local(s, Own)
           /\ Fits(s, Leaf("cert", "own", l), {<<"cert", "own", l, v>>}, Exposed(Own, FALSE, spoilt))
<1> DEFINE D == Leaf("cert", "own", l)
           M == {<<"cert", "own", l, v>>}
           A == After(ask, D, M)
<1>1. Typed(M) /\ (\A e \in M : IsCert(e, "own")) /\ (\A e \in D : IsCert(e, "own"))
  BY DEF Typed, IsCert, Leaf
<1>2. \A m \in OwnLeaves, u \in CertValues : <<"cert", "own", m, u>> \in A <=>
             IF m = l THEN u = v ELSE <<"cert", "own", m, u>> \in ask
  <2> SUFFICES ASSUME NEW m \in OwnLeaves, NEW u \in CertValues
               PROVE  <<"cert", "own", m, u>> \in A <=>
                        IF m = l THEN u = v ELSE <<"cert", "own", m, u>> \in ask
    OBVIOUS
  <2>1. (\A y \in M : y[1] # "cert" \/ y[2] # "own" \/ y[3] # m) <=> m # l
    OBVIOUS
  <2>2. <<"cert", "own", m, u>> \in M <=> m = l /\ u = v
    OBVIOUS
  <2>3. <<"cert", "own", m, u>> \in D => m = l
    BY DEF Leaf
  <2> HIDE DEF M, D
  <2> QED BY <1>1, <2>1, <2>2, <2>3, InAfter
<1>3. Local(s, Own)
  BY DEF Local, OwnStep
<1>4. Own \notin Exposed(Own, FALSE, spoilt) => OwnMatch(s, A)
  <2> SUFFICES ASSUME Own \notin Exposed(Own, FALSE, spoilt) PROVE OwnMatch(s, A)
    OBVIOUS
  <2>1. Own \notin (dirty \ hist.whole) \cup hist.spoilt
    BY DEF Exposed
  <2>2. OwnMatch(now, ask)
    BY <2>1 DEF WInv, Match
  <2>3. <<"cert", "own", "resource-id", id>> \in ask
    BY DEF WInv, StillThere
  <2>4. OwnedConfig(now) # {}
    BY <2>2, <2>3 DEF OwnMatch, OwnLeaves
  <2> HIDE DEF A
  <2> QED BY <1>2, <2>2, <2>4 DEF OwnMatch
<1>5. ASSUME NEW r \in CertValues, <<"cert", "own", "resource-id", r>> \in doc \ D
      PROVE  <<"cert", "own", "resource-id", r>> \in A /\ s.ssl.own = now.ssl.own
  <2>1. <<"cert", "own", "resource-id", r>> \in ask
    BY <1>5 DEF WInv, StillThere
  <2>2. "resource-id" \in OwnLeaves
    BY DEF OwnLeaves
  <2> HIDE DEF A
  <2> QED BY <1>2, <2>1, <2>2 DEF OwnStep
<1>6. s.iface = now.iface /\ s.ssl.ext = now.ssl.ext
  BY DEF OwnStep
<1> HIDE DEF D, M
<1>7. Fits(s, D, M, Exposed(Own, FALSE, spoilt))
  BY <1>1, <1>3, <1>4, <1>5, <1>6, OwnFits
<1> QED BY <1>3, <1>7 DEF D, M

\* The identifier of a certificate in the document.
LEMMA CertId ==
    ASSUME WInv, NEW who \in {"own", "ext"}, NEW e \in Leaf("cert", who, "resource-id")
    PROVE  e[4] \in CertValues /\ e = <<"cert", who, "resource-id", e[4]>> /\ e \in doc
BY DEF WInv, Typed, Leaf

\* A certificate that is shown has a row and files that can be read.
LEMMA OwnedIsShown ==
    ASSUME OwnedConfig(now) # {}
    PROVE  /\ now.row /\ now.ssl.own # Absent /\ now.ssl.cert /\ now.ssl.key
           /\ now.file["cert.pem"] \in Texts /\ now.file["key.pem"] \in Keys
           /\ OwnedConfig(now) = {<<"cert", "own", "resource-id", now.ssl.own>>,
                                  <<"cert", "own", "certificate", now.file["cert.pem"]>>,
                                  <<"cert", "own", "key-type", now.file["key.pem"].type>>,
                                  <<"cert", "own", "key-data", now.file["key.pem"].data>>}
BY DEF OwnedConfig, ParsePem

LEMMA ReplaceOwnCertDoc ==
    ASSUME IInv, WInv, NEW c \in Texts, ReplaceOwnCert(c)
    PROVE  WInv'
<1>1. PICK e \in Leaf("cert", "own", "resource-id") :
        LET add(s) == TxnModOwnCert(s, e[4], c)
        IN  Write(Then(RemoveOwnCert(now, e[4]), add), Leaf("cert", "own", "certificate"),
                  {<<"cert", "own", "certificate", c>>}, Own, FALSE, {Ext})
  BY DEF ReplaceOwnCert
<1> DEFINE r == e[4]
           add(s) == TxnModOwnCert(s, r, c)
           R == Then(RemoveOwnCert(now, r), add)
           D == Leaf("cert", "own", "certificate")
           M == {<<"cert", "own", "certificate", c>>}
<1>2. phase # "idle" /\ Handle(R, D, M, Own, FALSE, {Ext}) /\ Good(now)
  BY <1>1 DEF Write, IInv
<1>3. r \in CertValues /\ <<"cert", "own", "resource-id", r>> \in doc
  BY CertId
<1>4. c \in CertValues /\ "certificate" \in OwnLeaves
  BY DEF CertValues, OwnLeaves
<1> HIDE DEF r
<1>5. ASSUME NEW q \in R
      PROVE  /\ Good(q.s) /\ Local(q.s, Own)
             /\ ~q.err => Fits(q.s, D, M, Exposed(Own, FALSE, {Ext}))
  <2>1. PICK a \in RemoveOwnCert(now, r) :
          (a.err /\ q = a) \/ (~a.err /\ q \in TxnModOwnCert(a.s, r, c))
    BY DEF Then
  <2>2. Good(a.s) /\ OwnStep(now, a.s) /\ a.s.file["key.pem"] = now.file["key.pem"]
    BY <1>2, ModCertsGood, RemoveOwnDoes DEF Results
  <2>3. CASE a.err /\ q = a
    BY <2>2, <2>3 DEF Local, OwnStep
  <2>4. CASE ~a.err /\ q \in TxnModOwnCert(a.s, r, c)
    <3>0. /\ OwnStep(a.s, q.s) /\ FileSame(a.s, q.s, "key.pem")
          /\ ~q.err => q.s.ssl.cert = TRUE /\ FileIs(q.s, "cert.pem", c)
      BY <2>2, <2>4, ModOwnDoes
    <3>1. /\ OwnStep(a.s, q.s) /\ q.s.file["key.pem"] = a.s.file["key.pem"]
          /\ ~q.err => q.s.ssl.cert = TRUE /\ q.s.file["cert.pem"] = c
      BY <3>0 DEF FileSame, FileIs
    <3>2. Good(q.s)
      BY <2>2, <2>4, ModCertsGood DEF Results
    <3>3. OwnStep(now, q.s) /\ q.s.file["key.pem"] = now.file["key.pem"]
      BY <2>2, <3>1 DEF OwnStep
    <3>4. Local(q.s, Own)
      BY <3>3 DEF Local, OwnStep
    <3>5. ASSUME ~q.err PROVE Fits(q.s, D, M, Exposed(Own, FALSE, {Ext}))
      <4>1. ASSUME OwnedConfig(now) # {}, NEW m \in OwnLeaves, NEW u \in CertValues
            PROVE  <<"cert", "own", m, u>> \in OwnedConfig(q.s) <=>
                     IF m = "certificate" THEN u = c ELSE <<"cert", "own", m, u>> \in OwnedConfig(now)
        <5>1. /\ now.row /\ now.ssl.own # Absent /\ now.ssl.cert /\ now.ssl.key
              /\ now.file["cert.pem"] \in Texts /\ now.file["key.pem"] \in Keys
              /\ OwnedConfig(now) = {<<"cert", "own", "resource-id", now.ssl.own>>,
                                  <<"cert", "own", "certificate", now.file["cert.pem"]>>,
                                  <<"cert", "own", "key-type", now.file["key.pem"].type>>,
                                  <<"cert", "own", "key-data", now.file["key.pem"].data>>}
          BY <4>1, OwnedIsShown
        <5>2. /\ q.s.ssl.own = now.ssl.own /\ q.s.ssl.key = now.ssl.key /\ q.s.ssl.cert
              /\ q.s.file["cert.pem"] = c
          BY <3>1, <3>3, <3>5 DEF OwnStep
        <5>3. q.s.row
          BY <3>2, <5>1, <5>2 DEF Good, Used
        <5>4. OwnedConfig(q.s) = {<<"cert", "own", "resource-id", now.ssl.own>>,
                                  <<"cert", "own", "certificate", c>>,
                                  <<"cert", "own", "key-type", now.file["key.pem"].type>>,
                                  <<"cert", "own", "key-data", now.file["key.pem"].data>>}
          BY <3>3, <5>1, <5>2, <5>3 DEF OwnedConfig, ParsePem
        <5> QED BY <5>1, <5>4 DEF OwnLeaves
      <4> QED BY <1>2, <1>3, <1>4, <3>2, <3>3, <4>1, ReplaceOwnLeaf
    <3> QED BY <3>2, <3>4, <3>5
  <2> QED BY <2>1, <2>3, <2>4
<1> HIDE DEF R, D, M
<1>6. Results(R) /\ Does(R, D, M, Own, FALSE, {Ext})
  BY <1>5 DEF Results, Does
<1> QED BY <1>2, <1>6, HandleDoc

LEMMA ReplaceKeyTypeDoc ==
    ASSUME IInv, WInv, NEW t \in KeyTypes, ReplaceKeyType(t)
    PROVE  WInv'
<1>1. PICK e \in Leaf("cert", "own", "resource-id") :
        Write(TxnModKeyType(now, e[4], t), Leaf("cert", "own", "key-type"),
              {<<"cert", "own", "key-type", t>>}, Own, FALSE, {})
  BY DEF ReplaceKeyType
<1> DEFINE r == e[4]
           R == TxnModKeyType(now, r, t)
           D == Leaf("cert", "own", "key-type")
           M == {<<"cert", "own", "key-type", t>>}
<1>2. phase # "idle" /\ Handle(R, D, M, Own, FALSE, {}) /\ Good(now) /\ Results(R)
  BY <1>1, ModKeyGood DEF Write, IInv
<1>3. r \in CertValues /\ <<"cert", "own", "resource-id", r>> \in doc
  BY CertId
<1>4. t \in CertValues /\ "key-type" \in OwnLeaves
  BY DEF CertValues, OwnLeaves
<1> HIDE DEF r
<1>5. ASSUME NEW q \in R
      PROVE  Local(q.s, Own) /\ (~q.err => Fits(q.s, D, M, Exposed(Own, FALSE, {})))
  <2>1. /\ OwnStep(now, q.s) /\ ExtSame(now, q.s)
        /\ q.s.file["cert.pem"] = now.file["cert.pem"] /\ q.s.ssl.cert = now.ssl.cert
        /\ ~q.err => q.s.file["key.pem"] = [now.file["key.pem"] EXCEPT !.type = t]
    BY <1>2, ModKeyDoes
  <2>2. Good(q.s)
    BY <1>2 DEF Results
  <2>3. Local(q.s, Own)
    BY <2>1 DEF Local, OwnStep
  <2>4. ASSUME ~q.err PROVE Fits(q.s, D, M, Exposed(Own, FALSE, {}))
    <3>1. ASSUME OwnedConfig(now) # {}, NEW m \in OwnLeaves, NEW u \in CertValues
          PROVE  <<"cert", "own", m, u>> \in OwnedConfig(q.s) <=>
                   IF m = "key-type" THEN u = t ELSE <<"cert", "own", m, u>> \in OwnedConfig(now)
      <4>1. /\ now.row /\ now.ssl.own # Absent /\ now.ssl.cert /\ now.ssl.key
            /\ now.file["cert.pem"] \in Texts /\ now.file["key.pem"] \in Keys
            /\ OwnedConfig(now) = {<<"cert", "own", "resource-id", now.ssl.own>>,
                                  <<"cert", "own", "certificate", now.file["cert.pem"]>>,
                                  <<"cert", "own", "key-type", now.file["key.pem"].type>>,
                                  <<"cert", "own", "key-data", now.file["key.pem"].data>>}
        BY <3>1, OwnedIsShown
      <4>2. /\ q.s.ssl.own = now.ssl.own /\ q.s.ssl.key /\ q.s.ssl.cert
            /\ q.s.file["key.pem"] = [now.file["key.pem"] EXCEPT !.type = t]
        BY <2>1, <2>4, <4>1 DEF OwnStep
      <4>3. q.s.row
        BY <2>2, <4>1, <4>2 DEF Good, Used
      <4>4. /\ q.s.file["key.pem"] \in Keys /\ q.s.file["key.pem"].type = t
            /\ q.s.file["key.pem"].data = now.file["key.pem"].data
        BY <4>1, <4>2 DEF Keys
      <4>5. OwnedConfig(q.s) = {<<"cert", "own", "resource-id", now.ssl.own>>,
                                <<"cert", "own", "certificate", now.file["cert.pem"]>>,
                                <<"cert", "own", "key-type", t>>,
                                <<"cert", "own", "key-data", now.file["key.pem"].data>>}
        BY <2>1, <4>1, <4>2, <4>3, <4>4 DEF OwnedConfig, ParsePem
      <4> QED BY <4>1, <4>5 DEF OwnLeaves
    <3> QED BY <1>2, <1>3, <1>4, <2>1, <2>2, <3>1, ReplaceOwnLeaf
  <2> QED BY <2>3, <2>4
<1> HIDE DEF R, D, M
<1>6. Does(R, D, M, Own, FALSE, {})
  BY <1>5 DEF Does
<1> QED BY <1>2, <1>6, HandleDoc

LEMMA ReplaceKeyDataDoc ==
    ASSUME IInv, WInv, NEW d \in Texts, ReplaceKeyData(d)
    PROVE  WInv'
<1>1. PICK e \in Leaf("cert", "own", "resource-id") :
        Write(TxnModKeyData(now, e[4], d), Leaf("cert", "own", "key-data"),
              {<<"cert", "own", "key-data", d>>}, Own, FALSE, {})
  BY DEF ReplaceKeyData
<1> DEFINE r == e[4]
           R == TxnModKeyData(now, r, d)
           D == Leaf("cert", "own", "key-data")
           M == {<<"cert", "own", "key-data", d>>}
<1>2. phase # "idle" /\ Handle(R, D, M, Own, FALSE, {}) /\ Good(now) /\ Results(R)
  BY <1>1, ModKeyGood DEF Write, IInv
<1>3. r \in CertValues /\ <<"cert", "own", "resource-id", r>> \in doc
  BY CertId
<1>4. d \in CertValues /\ "key-data" \in OwnLeaves
  BY DEF CertValues, OwnLeaves
<1> HIDE DEF r
<1>5. ASSUME NEW q \in R
      PROVE  Local(q.s, Own) /\ (~q.err => Fits(q.s, D, M, Exposed(Own, FALSE, {})))
  <2>1. /\ OwnStep(now, q.s) /\ ExtSame(now, q.s)
        /\ q.s.file["cert.pem"] = now.file["cert.pem"] /\ q.s.ssl.cert = now.ssl.cert
        /\ ~q.err => q.s.file["key.pem"] = [now.file["key.pem"] EXCEPT !.data = d]
    BY <1>2, ModKeyDoes
  <2>2. Good(q.s)
    BY <1>2 DEF Results
  <2>3. Local(q.s, Own)
    BY <2>1 DEF Local, OwnStep
  <2>4. ASSUME ~q.err PROVE Fits(q.s, D, M, Exposed(Own, FALSE, {}))
    <3>1. ASSUME OwnedConfig(now) # {}, NEW m \in OwnLeaves, NEW u \in CertValues
          PROVE  <<"cert", "own", m, u>> \in OwnedConfig(q.s) <=>
                   IF m = "key-data" THEN u = d ELSE <<"cert", "own", m, u>> \in OwnedConfig(now)
      <4>1. /\ now.row /\ now.ssl.own # Absent /\ now.ssl.cert /\ now.ssl.key
            /\ now.file["cert.pem"] \in Texts /\ now.file["key.pem"] \in Keys
            /\ OwnedConfig(now) = {<<"cert", "own", "resource-id", now.ssl.own>>,
                                  <<"cert", "own", "certificate", now.file["cert.pem"]>>,
                                  <<"cert", "own", "key-type", now.file["key.pem"].type>>,
                                  <<"cert", "own", "key-data", now.file["key.pem"].data>>}
        BY <3>1, OwnedIsShown
      <4>2. /\ q.s.ssl.own = now.ssl.own /\ q.s.ssl.key /\ q.s.ssl.cert
            /\ q.s.file["key.pem"] = [now.file["key.pem"] EXCEPT !.data = d]
        BY <2>1, <2>4, <4>1 DEF OwnStep
      <4>3. q.s.row
        BY <2>2, <4>1, <4>2 DEF Good, Used
      <4>4. /\ q.s.file["key.pem"] \in Keys /\ q.s.file["key.pem"].type = now.file["key.pem"].type
            /\ q.s.file["key.pem"].data = d
        BY <4>1, <4>2 DEF Keys
      <4>5. OwnedConfig(q.s) = {<<"cert", "own", "resource-id", now.ssl.own>>,
                                <<"cert", "own", "certificate", now.file["cert.pem"]>>,
                                <<"cert", "own", "key-type", now.file["key.pem"].type>>,
                                <<"cert", "own", "key-data", d>>}
        BY <2>1, <4>1, <4>2, <4>3, <4>4 DEF OwnedConfig, ParsePem
      <4> QED BY <4>1, <4>5 DEF OwnLeaves
    <3> QED BY <1>2, <1>3, <1>4, <2>1, <2>2, <3>1, ReplaceOwnLeaf
  <2> QED BY <2>3, <2>4
<1> HIDE DEF R, D, M
<1>6. Does(R, D, M, Own, FALSE, {})
  BY <1>5 DEF Does
<1> QED BY <1>2, <1>6, HandleDoc

\* What deleting a certificate changes.
LEMMA DelOwnedDoes ==
    ASSUME NEW s, Good(s), NEW r
    PROVE  \A q \in TxnDelOwned(s, r) :
             /\ q.s.iface = s.iface /\ q.s.dev = s.dev /\ FileSame(s, q.s, "ca_cert.pem")
             /\ ExtSame(s, q.s) /\ (~q.err => q.s.ssl.own = Absent)
<1> SUFFICES ASSUME NEW q \in TxnDelOwned(s, r)
             PROVE  /\ q.s.iface = s.iface /\ q.s.dev = s.dev /\ FileSame(s, q.s, "ca_cert.pem")
                    /\ ExtSame(s, q.s) /\ (~q.err => q.s.ssl.own = Absent)
  OBVIOUS
<1> DEFINE x == [s EXCEPT !.row = FALSE, !.ssl = NoRow]
           y == [s EXCEPT !.file["cert.pem"] = Absent, !.file["key.pem"] = Absent,
                          !.ssl.own = Absent, !.ssl.cert = FALSE, !.ssl.key = FALSE]
<1>0. s \in State /\ s.ssl \in SslRow /\ s.file \in [FileNames -> Texts \cup Keys \cup {Absent, Broken}]
  BY DEF Good, State, Files
<1>1. \/ q.s = s /\ q.err
      \/ q.s = x /\ s.ssl.ext = Absent
      \/ q.s = y
  BY ResultParts DEF TxnDelOwned
<1>2. x.iface = s.iface /\ x.dev = s.dev /\ x.file = s.file /\ x.ssl.own = Absent /\ x.ssl.ext = Absent
  BY <1>0 DEF State, NoRow
<1>3. /\ y.iface = s.iface /\ y.dev = s.dev
      /\ y.file = [s.file EXCEPT !["cert.pem"] = Absent, !["key.pem"] = Absent]
      /\ y.ssl = [s.ssl EXCEPT !.own = Absent, !.cert = FALSE, !.key = FALSE]
  BY <1>0 DEF State
<1> HIDE DEF x, y
<1>4. /\ y.ssl.own = Absent /\ y.ssl.ext = s.ssl.ext /\ y.ssl.ca = s.ssl.ca
      /\ y.file["ca_cert.pem"] = s.file["ca_cert.pem"]
  BY <1>0, <1>3 DEF SslRow, FileNames
<1>5. CASE q.s = s /\ q.err
  BY <1>5 DEF FileSame, ExtSame
<1>6. CASE q.s = x /\ s.ssl.ext = Absent
  BY <1>2, <1>6 DEF FileSame, ExtSame
<1>7. CASE q.s = y
  BY <1>3, <1>4, <1>7 DEF FileSame, ExtSame
<1> QED BY <1>1, <1>5, <1>6, <1>7

LEMMA DelExternalDoes ==
    ASSUME NEW s, Good(s), NEW r
    PROVE  \A q \in TxnDelExternal(s, r) :
             /\ q.s.iface = s.iface /\ q.s.dev = s.dev
             /\ FileSame(s, q.s, "cert.pem") /\ FileSame(s, q.s, "key.pem")
             /\ OwnSame(s, q.s) /\ (~q.err => q.s.ssl.ext = Absent)
<1> SUFFICES ASSUME NEW q \in TxnDelExternal(s, r)
             PROVE  /\ q.s.iface = s.iface /\ q.s.dev = s.dev
                    /\ FileSame(s, q.s, "cert.pem") /\ FileSame(s, q.s, "key.pem")
                    /\ OwnSame(s, q.s) /\ (~q.err => q.s.ssl.ext = Absent)
  OBVIOUS
<1> DEFINE x == [s EXCEPT !.row = FALSE, !.ssl = NoRow]
           y == [s EXCEPT !.file["ca_cert.pem"] = Absent, !.ssl.ext = Absent, !.ssl.ca = FALSE]
<1>0. s \in State /\ s.ssl \in SslRow /\ s.file \in [FileNames -> Texts \cup Keys \cup {Absent, Broken}]
  BY DEF Good, State, Files
<1>1. \/ q.s = s /\ q.err
      \/ q.s = x /\ s.ssl.own = Absent
      \/ q.s = y
  BY ResultParts DEF TxnDelExternal
<1>2. x.iface = s.iface /\ x.dev = s.dev /\ x.file = s.file /\ x.ssl.own = Absent /\ x.ssl.ext = Absent
  BY <1>0 DEF State, NoRow
<1>3. /\ y.iface = s.iface /\ y.dev = s.dev
      /\ y.file = [s.file EXCEPT !["ca_cert.pem"] = Absent]
      /\ y.ssl = [s.ssl EXCEPT !.ext = Absent, !.ca = FALSE]
  BY <1>0 DEF State
<1> HIDE DEF x, y
<1>4. /\ y.ssl.ext = Absent /\ y.ssl.own = s.ssl.own /\ y.ssl.cert = s.ssl.cert
      /\ y.ssl.key = s.ssl.key /\ y.file["cert.pem"] = s.file["cert.pem"]
      /\ y.file["key.pem"] = s.file["key.pem"]
  BY <1>0, <1>3 DEF SslRow, FileNames
<1>5. CASE q.s = s /\ q.err
  BY <1>5 DEF FileSame, OwnSame
<1>6. CASE q.s = x /\ s.ssl.own = Absent
  BY <1>2, <1>6 DEF FileSame, OwnSame
<1>7. CASE q.s = y
  BY <1>3, <1>4, <1>7 DEF FileSame, OwnSame
<1> QED BY <1>1, <1>5, <1>6, <1>7

\* The deletion of a certificate.
LEMMA DeleteOwnedDoc ==
    ASSUME IInv, WInv, DeleteOwned
    PROVE  WInv'
<1>1. PICK e \in Leaf("cert", "own", "resource-id") :
        Delete(TxnDelOwned(now, e[4]), Cert("own"), Own, TRUE, {})
  BY DEF DeleteOwned
<1> DEFINE r == e[4]
           R == TxnDelOwned(now, r)
           D == Cert("own")
           A == After(ask, D, {})
<1>2. phase = "delete" /\ Handle(R, D, {}, Own, TRUE, {}) /\ Good(now) /\ Alike(ask, doc)
  BY <1>1 DEF Delete, IInv, WInv
<1>3. Results(R)
  BY <1>2, DelCertsGood
<1>4. /\ Typed({}) /\ (\A e1 \in D : IsCert(e1, "own")) /\ \A l, v : <<"cert", "own", l, v>> \notin doc \ D
  BY DEF Typed, Cert, IsCert
<1>5. \A l, v : <<"cert", "own", l, v>> \notin A
  BY <1>2, <1>4 DEF After, Alike
<1> HIDE DEF r, R, D, A
<1>6. ASSUME NEW q \in R
      PROVE  Local(q.s, Own) /\ (~q.err => Fits(q.s, D, {}, Exposed(Own, TRUE, {})))
  <2>1. /\ q.s.iface = now.iface /\ q.s.dev = now.dev /\ FileSame(now, q.s, "ca_cert.pem")
        /\ ExtSame(now, q.s) /\ (~q.err => q.s.ssl.own = Absent)
    BY <1>2, DelOwnedDoes DEF R
  <2>2. Local(q.s, Own) /\ Good(q.s)
    BY <1>3, <2>1 DEF Local, FileSame, Results
  <2>3. ASSUME ~q.err PROVE Fits(q.s, D, {}, Exposed(Own, TRUE, {}))
    <3>1. OwnedConfig(q.s) = {}
      BY <2>1, <2>3 DEF OwnedConfig
    <3>2. OwnMatch(q.s, A)
      BY <1>5, <3>1 DEF OwnMatch
    <3>3. q.s.ssl.ext = now.ssl.ext /\ phase # "idle"
      BY <1>2, <2>1 DEF ExtSame
    <3> QED BY <1>4, <2>1, <2>2, <3>2, <3>3, OwnFits DEF A
  <2> QED BY <2>2, <2>3
<1>7. Does(R, D, {}, Own, TRUE, {})
  BY <1>6 DEF Does
<1> QED BY <1>2, <1>3, <1>7, HandleDoc

LEMMA DeleteExternalDoc ==
    ASSUME IInv, WInv, DeleteExternal
    PROVE  WInv'
<1>1. PICK e \in Leaf("cert", "ext", "resource-id") :
        Delete(TxnDelExternal(now, e[4]), Cert("ext"), Ext, TRUE, {})
  BY DEF DeleteExternal
<1> DEFINE r == e[4]
           R == TxnDelExternal(now, r)
           D == Cert("ext")
           A == After(ask, D, {})
<1>2. phase = "delete" /\ Handle(R, D, {}, Ext, TRUE, {}) /\ Good(now) /\ Alike(ask, doc)
  BY <1>1 DEF Delete, IInv, WInv
<1>3. Results(R)
  BY <1>2, DelCertsGood
<1>4. /\ Typed({}) /\ (\A e1 \in D : IsCert(e1, "ext")) /\ \A l, v : <<"cert", "ext", l, v>> \notin doc \ D
  BY DEF Typed, Cert, IsCert
<1>5. \A l, v : <<"cert", "ext", l, v>> \notin A
  BY <1>2, <1>4 DEF After, Alike
<1> HIDE DEF r, R, D, A
<1>6. ASSUME NEW q \in R
      PROVE  Local(q.s, Ext) /\ (~q.err => Fits(q.s, D, {}, Exposed(Ext, TRUE, {})))
  <2>1. /\ q.s.iface = now.iface /\ q.s.dev = now.dev
        /\ FileSame(now, q.s, "cert.pem") /\ FileSame(now, q.s, "key.pem")
        /\ OwnSame(now, q.s) /\ (~q.err => q.s.ssl.ext = Absent)
    BY <1>2, DelExternalDoes DEF R
  <2>2. Local(q.s, Ext) /\ Good(q.s)
    BY <1>3, <2>1 DEF Local, FileSame, Results
  <2>3. ASSUME ~q.err PROVE Fits(q.s, D, {}, Exposed(Ext, TRUE, {}))
    <3>1. ExternalConfig(q.s) = {}
      BY <2>1, <2>3 DEF ExternalConfig
    <3>2. ExtMatch(q.s, A)
      BY <1>5, <3>1 DEF ExtMatch
    <3> QED BY <1>2, <1>4, <2>1, <2>2, <3>2, ExtFits DEF A
  <2> QED BY <2>2, <2>3
<1>7. Does(R, D, {}, Ext, TRUE, {})
  BY <1>6 DEF Does
<1> QED BY <1>2, <1>3, <1>7, HandleDoc

\* The functions that change the file of an external certificate.
ExtStep(s, t) ==
    /\ t.iface = s.iface /\ t.dev = s.dev
    /\ t.file["cert.pem"] = s.file["cert.pem"] /\ t.file["key.pem"] = s.file["key.pem"]
    /\ t.ssl.own = s.ssl.own /\ t.ssl.ext = s.ssl.ext
    /\ t.ssl.cert = s.ssl.cert /\ t.ssl.key = s.ssl.key

LEMMA RemoveExtDoes ==
    ASSUME NEW s, Good(s), NEW r
    PROVE  \A q \in RemoveExtCert(s, r) : ExtStep(s, q.s)
<1> SUFFICES ASSUME NEW q \in RemoveExtCert(s, r) PROVE ExtStep(s, q.s)
  OBVIOUS
<1> DEFINE t == [s EXCEPT !.file["ca_cert.pem"] = Absent, !.ssl.ca = FALSE]
<1>1. s \in State /\ s.ssl \in SslRow /\ s.file \in [FileNames -> Texts \cup Keys \cup {Absent, Broken}]
  BY DEF Good, State, Files
<1>2. /\ t.iface = s.iface /\ t.dev = s.dev /\ t.file = [s.file EXCEPT !["ca_cert.pem"] = Absent]
      /\ t.ssl = [s.ssl EXCEPT !.ca = FALSE]
  BY <1>1 DEF State
<1>3. q.s = s \/ q.s = t
  BY ResultParts DEF RemoveExtCert
<1> HIDE DEF t
<1>4. /\ t.ssl.own = s.ssl.own /\ t.ssl.ext = s.ssl.ext /\ t.ssl.key = s.ssl.key
      /\ t.ssl.cert = s.ssl.cert
  BY <1>1, <1>2 DEF SslRow
<1>5. t.file["cert.pem"] = s.file["cert.pem"] /\ t.file["key.pem"] = s.file["key.pem"]
  BY <1>1, <1>2 DEF FileNames
<1> QED BY <1>2, <1>3, <1>4, <1>5 DEF ExtStep

LEMMA ModExtDoes ==
    ASSUME NEW s, Good(s), NEW r, NEW c \in Texts
    PROVE  \A q \in TxnModExtCert(s, r, c) :
             /\ ExtStep(s, q.s)
             /\ ~q.err => q.s.ssl.ca = TRUE /\ FileIs(q.s, "ca_cert.pem", c)
<1> SUFFICES ASSUME NEW q \in TxnModExtCert(s, r, c)
             PROVE  /\ ExtStep(s, q.s)
                    /\ ~q.err => q.s.ssl.ca = TRUE /\ q.s.file["ca_cert.pem"] = c
  BY DEF FileIs
<1> DEFINE ca(t) == [t EXCEPT !.ssl.ca = TRUE]
           set(t) == {Ok(ca(t))}
           W == WriteFile(s, "ca_cert.pem", c)
<1>1. CASE q = Err(s)
  BY <1>1, ResultParts DEF ExtStep
<1>2. CASE q \in Then(W, set)
  <2>1. PICK w \in W : (w.err /\ q = w) \/ (~w.err /\ q = Ok(ca(w.s)))
    BY <1>2 DEF Then
  <2>2. /\ w.s.ssl = s.ssl /\ w.s.iface = s.iface /\ w.s.dev = s.dev
        /\ w.s.file["cert.pem"] = s.file["cert.pem"] /\ w.s.file["key.pem"] = s.file["key.pem"]
        /\ ~w.err => w.s.file["ca_cert.pem"] = c
    BY WriteFileDoes DEF FileNames, Good
  <2>3. CASE w.err /\ q = w
    BY <2>2, <2>3 DEF ExtStep
  <2>4. CASE ~w.err /\ q = Ok(ca(w.s))
    <3> DEFINE t == ca(w.s)
    <3>1. w.s \in State /\ w.s.ssl \in SslRow
      <4>1. Good(w.s)
        BY WriteFileGood DEF Results, FileNames
      <4> QED BY <4>1 DEF Good, State
    <3>2. /\ t.iface = w.s.iface /\ t.dev = w.s.dev /\ t.file = w.s.file
          /\ t.ssl = [w.s.ssl EXCEPT !.ca = TRUE]
      BY <3>1 DEF State
    <3> HIDE DEF t
    <3>3. /\ t.ssl.ext = w.s.ssl.ext /\ t.ssl.own = w.s.ssl.own
          /\ t.ssl.cert = w.s.ssl.cert /\ t.ssl.key = w.s.ssl.key /\ t.ssl.ca = TRUE
      BY <3>1, <3>2 DEF SslRow
    <3>4. q.s = t
      BY <2>4, ResultParts DEF t
    <3> QED BY <2>2, <2>4, <3>2, <3>3, <3>4 DEF ExtStep
  <2> QED BY <2>1, <2>3, <2>4
<1> QED BY <1>1, <1>2 DEF TxnModExtCert

LEMMA ReplaceExtCertDoc ==
    ASSUME IInv, WInv, NEW c \in Texts, ReplaceExtCert(c)
    PROVE  WInv'
<1>1. PICK e \in Leaf("cert", "ext", "resource-id") :
        LET add(s) == TxnModExtCert(s, e[4], c)
        IN  Write(Then(RemoveExtCert(now, e[4]), add), Leaf("cert", "ext", "certificate"),
                  {<<"cert", "ext", "certificate", c>>}, Ext, FALSE, {})
  BY DEF ReplaceExtCert
<1> DEFINE r == e[4]
           add(s) == TxnModExtCert(s, r, c)
           R == Then(RemoveExtCert(now, r), add)
           D == Leaf("cert", "ext", "certificate")
           M == {<<"cert", "ext", "certificate", c>>}
           A == After(ask, D, M)
<1>2. phase # "idle" /\ Handle(R, D, M, Ext, FALSE, {}) /\ Good(now)
  BY <1>1 DEF Write, IInv
<1>3. r \in CertValues /\ <<"cert", "ext", "resource-id", r>> \in doc
  BY CertId
<1>4. c \in CertValues /\ "certificate" \in ExtLeaves /\ "resource-id" \in ExtLeaves
  BY DEF CertValues, ExtLeaves
<1> HIDE DEF r
<1>5. Typed(M) /\ (\A x \in M : IsCert(x, "ext")) /\ (\A x \in D : IsCert(x, "ext"))
  BY <1>4 DEF Typed, IsCert, Leaf
<1>6. \A m \in ExtLeaves, u \in CertValues : <<"cert", "ext", m, u>> \in A <=>
             IF m = "certificate" THEN u = c ELSE <<"cert", "ext", m, u>> \in ask
  <2> SUFFICES ASSUME NEW m \in ExtLeaves, NEW u \in CertValues
               PROVE  <<"cert", "ext", m, u>> \in A <=>
                        IF m = "certificate" THEN u = c ELSE <<"cert", "ext", m, u>> \in ask
    OBVIOUS
  <2>1. (\A y \in M : y[1] # "cert" \/ y[2] # "ext" \/ y[3] # m) <=> m # "certificate"
    OBVIOUS
  <2>2. <<"cert", "ext", m, u>> \in M <=> m = "certificate" /\ u = c
    OBVIOUS
  <2>3. <<"cert", "ext", m, u>> \in D => m = "certificate"
    BY DEF Leaf
  <2> HIDE DEF M, D
  <2> QED BY <1>5, <2>1, <2>2, <2>3, InAfter
<1> HIDE DEF A
<1>7. ASSUME NEW q \in R
      PROVE  /\ Good(q.s) /\ Local(q.s, Ext)
             /\ ~q.err => Fits(q.s, D, M, Exposed(Ext, FALSE, {}))
  <2>1. PICK a \in RemoveExtCert(now, r) :
          (a.err /\ q = a) \/ (~a.err /\ q \in TxnModExtCert(a.s, r, c))
    BY DEF Then
  <2>2. Good(a.s) /\ ExtStep(now, a.s)
    BY <1>2, ModCertsGood, RemoveExtDoes DEF Results
  <2>3. CASE a.err /\ q = a
    BY <2>2, <2>3 DEF Local, ExtStep
  <2>4. CASE ~a.err /\ q \in TxnModExtCert(a.s, r, c)
    <3>1. /\ ExtStep(a.s, q.s)
          /\ ~q.err => q.s.ssl.ca = TRUE /\ FileIs(q.s, "ca_cert.pem", c)
      BY <2>2, <2>4, ModExtDoes
    <3>2. Good(q.s)
      BY <2>2, <2>4, ModCertsGood DEF Results
    <3>3. ExtStep(now, q.s)
      BY <2>2, <3>1 DEF ExtStep
    <3>4. Local(q.s, Ext)
      BY <3>3 DEF Local, ExtStep
    <3>5. ASSUME ~q.err PROVE Fits(q.s, D, M, Exposed(Ext, FALSE, {}))
      <4>1. ASSUME Ext \notin Exposed(Ext, FALSE, {}) PROVE ExtMatch(q.s, A)
        <5>1. ExtMatch(now, ask)
          BY <1>2, <4>1 DEF Exposed, WInv, Match
        <5>2. <<"cert", "ext", "resource-id", r>> \in ask /\ now.row /\ now.ssl.ext = r
          BY <1>3 DEF WInv, StillThere
        <5>3. r # Absent
          BY <1>3, EffectsAssumption DEF CertValues, KeyTypes
        <5>4. \A u \in CertValues : <<"cert", "ext", "resource-id", u>> \in ask <=> u = r
          <6>1. <<"cert", "ext", "resource-id", r>> \in ExternalConfig(now)
            BY <1>3, <1>4, <5>1, <5>2 DEF ExtMatch
          <6>2. \A u : <<"cert", "ext", "resource-id", u>> \in ExternalConfig(now) <=> u = r
            BY <5>2, <6>1 DEF ExternalConfig
          <6> QED BY <1>4, <5>1, <6>2 DEF ExtMatch
        <5>5. q.s.ssl.ext = r /\ q.s.row /\ q.s.ssl.ca /\ q.s.file["ca_cert.pem"] = c
          BY <3>1, <3>2, <3>3, <3>5, <5>2, <5>3 DEF ExtStep, FileIs, Good, Used
        <5>6. ExternalConfig(q.s) = {<<"cert", "ext", "resource-id", r>>,
                                     <<"cert", "ext", "certificate", c>>}
          BY <5>3, <5>5 DEF ExternalConfig
        <5> QED BY <1>6, <5>4, <5>6 DEF ExtMatch, ExtLeaves
      <4>2. ASSUME NEW x \in CertValues, <<"cert", "ext", "resource-id", x>> \in doc \ D
            PROVE  <<"cert", "ext", "resource-id", x>> \in A /\ q.s.ssl.ext = now.ssl.ext
        <5>1. <<"cert", "ext", "resource-id", x>> \in ask
          BY <4>2 DEF WInv, StillThere
        <5> QED BY <1>4, <1>6, <3>3, <5>1 DEF ExtStep
      <4>3. OwnSame(now, q.s) /\ q.s.iface = now.iface
        BY <3>3 DEF ExtStep, OwnSame
      <4> HIDE DEF D, M
      <4> QED BY <1>2, <1>5, <3>2, <3>4, <4>1, <4>2, <4>3, ExtFits DEF A
    <3> QED BY <3>2, <3>4, <3>5
  <2> QED BY <2>1, <2>3, <2>4
<1> HIDE DEF R, D, M
<1>8. Results(R) /\ Does(R, D, M, Ext, FALSE, {})
  BY <1>7 DEF Results, Does
<1> QED BY <1>2, <1>8, HandleDoc

\* The deletion of a leaf of a certificate, which spoils the certificate.
LEMMA DeleteOwnLeafDoc ==
    ASSUME IInv, WInv, NEW l \in {"certificate", "private-key", "key-type", "key-data"},
           DeleteOwnLeaf(l)
    PROVE  WInv'
<1>1. PICK e \in Leaf("cert", "own", "resource-id") :
        Delete(IF l \in {"certificate", "private-key"} THEN RemoveOwnCert(now, e[4]) ELSE {Ok(now)},
               Leaf("cert", "own", l), Own, FALSE, {Own, Ext})
  BY DEF DeleteOwnLeaf
<1> DEFINE r == e[4]
           R == IF l \in {"certificate", "private-key"} THEN RemoveOwnCert(now, r) ELSE {Ok(now)}
           D == Leaf("cert", "own", l)
           A == After(ask, D, {})
<1>2. phase = "delete" /\ Handle(R, D, {}, Own, FALSE, {Own, Ext}) /\ Good(now) /\ Alike(ask, doc)
  BY <1>1 DEF Delete, IInv, WInv
<1>3. Typed({}) /\ (\A x \in D : IsCert(x, "own"))
  BY DEF Typed, Leaf, IsCert
<1>4. A = ask \ D
  BY DEF After
<1>4a. \A x : <<"cert", "own", "resource-id", x>> \in doc \ D => <<"cert", "own", "resource-id", x>> \in A
  BY <1>2, <1>4 DEF Alike
<1> HIDE DEF r, D, A
<1>5. ASSUME NEW q \in R
      PROVE  Good(q.s) /\ Local(q.s, Own) /\ Fits(q.s, D, {}, Exposed(Own, FALSE, {Own, Ext}))
  <2>1. q \in RemoveOwnCert(now, r) \/ q.s = now
    BY ResultParts DEF R
  <2>2. Good(q.s) /\ OwnStep(now, q.s)
    BY <1>2, <2>1, ModCertsGood, RemoveOwnDoes DEF Results, OwnStep
  <2>3. Local(q.s, Own) /\ q.s.iface = now.iface /\ q.s.ssl.ext = now.ssl.ext /\ q.s.ssl.own = now.ssl.own
    BY <2>2 DEF Local, OwnStep
  <2>4. Own \in Exposed(Own, FALSE, {Own, Ext}) /\ Ext \in {Own, Ext} /\ phase # "idle"
    BY <1>2 DEF Exposed
  <2>5. Fits(q.s, D, {}, Exposed(Own, FALSE, {Own, Ext}))
    BY <1>3, <1>4a, <2>2, <2>3, <2>4, OwnFits DEF A
  <2> QED BY <2>2, <2>3, <2>5
<1> HIDE DEF R
<1>6. Results(R) /\ Does(R, D, {}, Own, FALSE, {Own, Ext})
  BY <1>5 DEF Results, Does
<1> QED BY <1>2, <1>6, HandleDoc

LEMMA DeleteExtLeafDoc ==
    ASSUME IInv, WInv, DeleteExtLeaf
    PROVE  WInv'
<1>1. PICK e \in Leaf("cert", "ext", "resource-id") :
        Delete(RemoveExtCert(now, e[4]), Leaf("cert", "ext", "certificate"), Ext, FALSE, {Ext})
  BY DEF DeleteExtLeaf
<1> DEFINE r == e[4]
           R == RemoveExtCert(now, r)
           D == Leaf("cert", "ext", "certificate")
           A == After(ask, D, {})
<1>2. phase = "delete" /\ Handle(R, D, {}, Ext, FALSE, {Ext}) /\ Good(now) /\ Alike(ask, doc)
  BY <1>1 DEF Delete, IInv, WInv
<1>3. Typed({}) /\ (\A x \in D : IsCert(x, "ext"))
  BY DEF Typed, Leaf, IsCert
<1>4. A = ask \ D
  BY DEF After
<1>4a. \A x : <<"cert", "ext", "resource-id", x>> \in doc \ D => <<"cert", "ext", "resource-id", x>> \in A
  BY <1>2, <1>4 DEF Alike
<1> HIDE DEF r, D, A
<1>5. ASSUME NEW q \in R
      PROVE  Good(q.s) /\ Local(q.s, Ext) /\ Fits(q.s, D, {}, Exposed(Ext, FALSE, {Ext}))
  <2>1. Good(q.s) /\ ExtStep(now, q.s)
    BY <1>2, ModCertsGood, RemoveExtDoes DEF Results
  <2>2. Local(q.s, Ext) /\ q.s.iface = now.iface /\ q.s.ssl.ext = now.ssl.ext /\ OwnSame(now, q.s)
    BY <2>1 DEF Local, ExtStep, OwnSame
  <2>3. Ext \in Exposed(Ext, FALSE, {Ext}) /\ phase # "idle"
    BY <1>2 DEF Exposed
  <2>4. Fits(q.s, D, {}, Exposed(Ext, FALSE, {Ext}))
    BY <1>3, <1>4a, <2>1, <2>2, <2>3, ExtFits DEF A
  <2> QED BY <2>1, <2>2, <2>4
<1> HIDE DEF R
<1>6. Results(R) /\ Does(R, D, {}, Ext, FALSE, {Ext})
  BY <1>5 DEF Results, Does
<1> QED BY <1>2, <1>6, HandleDoc

-----------------------------------------------------------------------------
(* Ports                                                                   *)

\* An element of a port; all parts of a port but those in X.
IsPort(e, p) == e[1] # "cert" /\ e[2] = p

PortMatch(s, A, X, p) ==
    /\ ReqMatch(s, A, p) /\ TunnelMatch(s, A, p)
    /\ <<"iface", p, "key">> \notin X => KeyMatch(s, A, p)
    /\ <<"dev", p, "admin">> \notin X => AdminMatch(s, A, p)
    /\ <<"dev", p, "bit">> \notin X => BitMatch(s, A, p)
    /\ <<"dev", p, "rate">> \notin X => RateMatch(s, A, p)

\* Nothing has changed but the interface and the device of a port.
PortStep(s, t, p) ==
    /\ t.row = s.row /\ t.ssl = s.ssl /\ t.file = s.file
    /\ \A x \in Ports \ {p} : t.iface[x] = s.iface[x] /\ t.dev[x] = s.dev[x]

\* A port other than the one that is edited.
LEMMA OtherPort ==
    ASSUME WInv, phase # "idle", NEW s, NEW A, NEW p \in Ports, NEW X,
           s.iface[p] = now.iface[p], s.dev[p] = now.dev[p],
           \A k, l, v : <<k, p, l, v>> \in A <=> <<k, p, l, v>> \in ask,
           \A k, l : <<k, p, l>> \notin X => <<k, p, l>> \notin (dirty \ hist.whole) \cup hist.spoilt
    PROVE  PortMatch(s, A, X, p)
<1>1. PortMatch(now, ask, (dirty \ hist.whole) \cup hist.spoilt, p)
  BY DEF WInv, Match, PortMatch
<1>2. PortMatch(now, ask, X, p)
  BY <1>1 DEF PortMatch
<1>3. ReqMatch(s, A, p) /\ TunnelMatch(s, A, p)
  BY <1>2 DEF PortMatch, ReqMatch, TunnelMatch
<1>4. <<"iface", p, "key">> \notin X => KeyMatch(s, A, p)
  BY <1>2 DEF PortMatch, KeyMatch
<1>5. /\ <<"dev", p, "admin">> \notin X => AdminMatch(s, A, p)
      /\ <<"dev", p, "bit">> \notin X => BitMatch(s, A, p)
      /\ <<"dev", p, "rate">> \notin X => RateMatch(s, A, p)
  BY <1>2 DEF PortMatch, AdminMatch, BitMatch, RateMatch
<1> QED BY <1>3, <1>4, <1>5 DEF PortMatch

\* A change of a port fits, if it fits at the port.
LEMMA PortFits ==
    ASSUME IInv, WInv, phase # "idle", NEW s, Good(s), NEW p \in Ports, PortStep(now, s, p),
           NEW D, NEW M, Typed(M), \A e \in D : IsPort(e, p), \A e \in M : IsPort(e, p),
           NEW k, NEW l, k # "cert", NEW whole, NEW spoilt, \A x \in spoilt : x[2] = p /\ x[1] # "cert",
           s.iface[p].opt["key"] # Absent => s.iface[p].tunnel # Absent,
           \A t \in IfValues : <<"iface", p, "tunnel", t>> \in doc \ D => s.iface[p].tunnel = t,
           PortMatch(s, After(ask, D, M), Exposed(<<k, p, l>>, whole, spoilt), p)
    PROVE  Fits(s, D, M, Exposed(<<k, p, l>>, whole, spoilt))
<1> DEFINE A == After(ask, D, M)
           X == Exposed(<<k, p, l>>, whole, spoilt)
           Y == (dirty \ hist.whole) \cup hist.spoilt
<1>1. \A a, b, c, v : a = "cert" \/ b # p => (<<a, b, c, v>> \in A <=> <<a, b, c, v>> \in ask)
  <2> SUFFICES ASSUME NEW a, NEW b, NEW c, NEW v, a = "cert" \/ b # p
               PROVE  <<a, b, c, v>> \in A <=> <<a, b, c, v>> \in ask
    OBVIOUS
  <2>1. <<a, b, c, v>> \notin D \cup M
    BY DEF IsPort
  <2>2. \A m \in M : m[1] # a \/ m[2] # b
    BY DEF IsPort
  <2> QED BY <2>1, <2>2, InAfter
<1>2. \A a, b, c : a = "cert" \/ b # p => (<<a, b, c>> \notin X => <<a, b, c>> \notin Y)
  BY DEF Exposed
<1>0. /\ Typed(doc) /\ StillThere(now, doc, ask) /\ KeyHasTunnel(now) /\ Match(now, ask, Y)
      /\ Good(now)
  BY DEF WInv, IInv
<1> HIDE DEF A, X, Y
<1>3. OwnSame(now, s) /\ ExtSame(now, s)
  BY DEF PortStep, OwnSame, ExtSame
<1>4. OwnedConfig(s) = OwnedConfig(now) /\ ExternalConfig(s) = ExternalConfig(now)
  BY <1>0, <1>3, SameCerts
<1>5. Own \notin X => OwnMatch(s, A)
  <2> SUFFICES ASSUME Own \notin X PROVE OwnMatch(s, A)
    OBVIOUS
  <2>1. Own \notin Y
    BY <1>2 DEF Own
  <2>2. OwnMatch(now, ask)
    BY <1>0, <2>1 DEF Match
  <2> QED BY <1>1, <1>4, <2>2 DEF OwnMatch
<1>6. Ext \notin X => ExtMatch(s, A)
  <2> SUFFICES ASSUME Ext \notin X PROVE ExtMatch(s, A)
    OBVIOUS
  <2>1. Ext \notin Y
    BY <1>2 DEF Ext
  <2>2. ExtMatch(now, ask)
    BY <1>0, <2>1 DEF Match
  <2> QED BY <1>1, <1>4, <2>2 DEF ExtMatch
<1>7. ASSUME NEW x \in Ports PROVE PortMatch(s, A, X, x)
  <2>1. CASE x = p
    BY <2>1 DEF A, X
  <2>2. CASE x # p
    <3>1. s.iface[x] = now.iface[x] /\ s.dev[x] = now.dev[x]
      BY <2>2 DEF PortStep
    <3>2. \A a, c, v : <<a, x, c, v>> \in A <=> <<a, x, c, v>> \in ask
      BY <1>1, <2>2
    <3>3. \A a, c : <<a, x, c>> \notin X => <<a, x, c>> \notin (dirty \ hist.whole) \cup hist.spoilt
      BY <1>2, <2>2 DEF Y
    <3> QED BY <3>1, <3>2, <3>3, OtherPort
  <2> QED BY <2>1, <2>2
<1>8. Match(s, A, X)
  BY <1>5, <1>6, <1>7 DEF Match, PortMatch
<1>9. KeyHasTunnel(s)
  BY <1>0 DEF KeyHasTunnel, PortStep
<1>10. StillThere(s, doc \ D, A)
  <2>1. \A r \in CertValues : <<"cert", "own", "resource-id", r>> \in doc \ D =>
         <<"cert", "own", "resource-id", r>> \in A /\ s.row /\ s.ssl.own = r
    BY <1>0, <1>1 DEF StillThere, PortStep
  <2>2. \A r \in CertValues : <<"cert", "ext", "resource-id", r>> \in doc \ D =>
         <<"cert", "ext", "resource-id", r>> \in A /\ s.row /\ s.ssl.ext = r
    BY <1>0, <1>1 DEF StillThere, PortStep
  <2>3. \A x \in Ports, t \in IfValues : <<"iface", x, "tunnel", t>> \in doc \ D => s.iface[x].tunnel = t
    BY <1>0 DEF StillThere, PortStep
  <2> QED BY <2>1, <2>2, <2>3 DEF StillThere
<1> QED BY <1>8, <1>9, <1>10 DEF Fits, A, X

\* One leaf of a port has a value, or none; the other elements stay.
LeafIs(A, k, w, l, v) ==
    \A a, b, c, u : <<a, b, c, u>> \in A <=>
        IF a = k /\ b = w /\ c = l THEN v # Absent /\ u = v ELSE <<a, b, c, u>> \in ask
One(k, w, l, v) == {<<k, w, l, v>>}

LEMMA LeafReplaced ==
    ASSUME NEW k, NEW w, NEW l, NEW v, v # Absent, Typed(One(k, w, l, v))
    PROVE  LeafIs(After(ask, Leaf(k, w, l), One(k, w, l, v)), k, w, l, v)
<1> DEFINE D == Leaf(k, w, l)
           M == One(k, w, l, v)
<1> SUFFICES ASSUME NEW a, NEW b, NEW c, NEW u
             PROVE  <<a, b, c, u>> \in After(ask, D, M) <=>
                      IF a = k /\ b = w /\ c = l THEN v # Absent /\ u = v ELSE <<a, b, c, u>> \in ask
  BY DEF LeafIs
<1>1. (\A m \in M : m[1] # a \/ m[2] # b \/ m[3] # c) <=> ~(a = k /\ b = w /\ c = l)
  BY DEF One
<1>2. <<a, b, c, u>> \in M <=> a = k /\ b = w /\ c = l /\ u = v
  BY DEF One
<1>3. <<a, b, c, u>> \in D => a = k /\ b = w /\ c = l
  BY DEF Leaf
<1> HIDE DEF D, M
<1>4. Typed(M)
  BY DEF M
<1> QED BY <1>1, <1>2, <1>3, <1>4, InAfter

LEMMA LeafDeleted ==
    ASSUME Alike(ask, doc), NEW k, NEW w, NEW l, k # "dev"
    PROVE  LeafIs(After(ask, Leaf(k, w, l), {}), k, w, l, Absent)
BY DEF LeafIs, After, Leaf, Alike

\* What is asked for and found at the port of an edit, before it.
LEMMA PortNow ==
    ASSUME WInv, phase # "idle", NEW p \in Ports, NEW k, NEW l, NEW whole, NEW spoilt
    PROVE  LET X == Exposed(<<k, p, l>>, whole, spoilt)
           IN  /\ ReqMatch(now, ask, p) /\ TunnelMatch(now, ask, p)
               /\ <<"iface", p, "key">> \notin X /\ (k # "iface" \/ l # "key") => KeyMatch(now, ask, p)
               /\ <<"dev", p, "admin">> \notin X /\ (k # "dev" \/ l # "admin") => AdminMatch(now, ask, p)
               /\ <<"dev", p, "bit">> \notin X /\ (k # "dev" \/ l # "bit") => BitMatch(now, ask, p)
               /\ <<"dev", p, "rate">> \notin X /\ (k # "dev" \/ l # "rate") => RateMatch(now, ask, p)
<1> DEFINE X == Exposed(<<k, p, l>>, whole, spoilt)
           Y == (dirty \ hist.whole) \cup hist.spoilt
<1>1. PortMatch(now, ask, Y, p)
  BY DEF WInv, Match, PortMatch
<1>2. \A a, c : <<a, p, c>> \notin X /\ (k # a \/ l # c) => <<a, p, c>> \notin Y
  BY DEF Exposed
<1> HIDE DEF X, Y
<1>3. ReqMatch(now, ask, p) /\ TunnelMatch(now, ask, p)
  BY <1>1 DEF PortMatch
<1>4. <<"iface", p, "key">> \notin X /\ (k # "iface" \/ l # "key") => KeyMatch(now, ask, p)
  BY <1>1, <1>2 DEF PortMatch
<1>5. /\ <<"dev", p, "admin">> \notin X /\ (k # "dev" \/ l # "admin") => AdminMatch(now, ask, p)
      /\ <<"dev", p, "bit">> \notin X /\ (k # "dev" \/ l # "bit") => BitMatch(now, ask, p)
      /\ <<"dev", p, "rate">> \notin X /\ (k # "dev" \/ l # "rate") => RateMatch(now, ask, p)
  BY <1>1, <1>2 DEF PortMatch
<1> QED BY <1>3, <1>4, <1>5 DEF X

\* An edit of the interface leaves the device as it is.
LEMMA DevStays ==
    ASSUME WInv, phase # "idle", NEW p \in Ports, NEW s, s.dev = now.dev, NEW A,
           \A l, v : <<"dev", p, l, v>> \in A <=> <<"dev", p, l, v>> \in ask,
           NEW l0, NEW whole, NEW spoilt
    PROVE  LET X == Exposed(<<"iface", p, l0>>, whole, spoilt)
           IN  /\ <<"dev", p, "admin">> \notin X => AdminMatch(s, A, p)
               /\ <<"dev", p, "bit">> \notin X => BitMatch(s, A, p)
               /\ <<"dev", p, "rate">> \notin X => RateMatch(s, A, p)
<1> DEFINE k == "iface"
           X == Exposed(<<k, p, l0>>, whole, spoilt)
<1>0. k # "dev"
  OBVIOUS
<1> HIDE DEF k
<1>1. /\ <<"dev", p, "admin">> \notin X => AdminMatch(now, ask, p)
      /\ <<"dev", p, "bit">> \notin X => BitMatch(now, ask, p)
      /\ <<"dev", p, "rate">> \notin X => RateMatch(now, ask, p)
  BY <1>0, PortNow
<1> HIDE DEF X
<1>2. /\ <<"dev", p, "admin">> \notin X => AdminMatch(s, A, p)
      /\ <<"dev", p, "bit">> \notin X => BitMatch(s, A, p)
      /\ <<"dev", p, "rate">> \notin X => RateMatch(s, A, p)
  BY <1>1 DEF AdminMatch, BitMatch, RateMatch
<1> QED BY <1>2 DEF X, k

\* An edit of a leaf of the interface, tunnel apart.
LEMMA IfaceLeafFits ==
    ASSUME IInv, WInv, phase # "idle", NEW p \in Ports,
           NEW l \in {"requested-number", "key", "csum"}, NEW v \in Values \cup {Absent},
           NEW D, NEW M, Typed(M), \A e \in D : IsPort(e, p), \A e \in M : IsPort(e, p),
           LeafIs(After(ask, D, M), "iface", p, l, v),
           NEW s, Good(s), PortStep(now, s, p), s.dev = now.dev,
           s.iface[p].tunnel = now.iface[p].tunnel,
           s.iface[p].req = IF l = "requested-number" THEN v ELSE now.iface[p].req,
           s.iface[p].opt["key"] = IF l = "key" THEN v ELSE now.iface[p].opt["key"],
           l = "key" => now.iface[p].tunnel # Absent
    PROVE  Fits(s, D, M, Exposed(<<"iface", p, l>>, TRUE, {}))
<1> DEFINE A == After(ask, D, M)
           X == Exposed(<<"iface", p, l>>, TRUE, {})
<1>0. \A u \in IfValues : u # Absent
  BY EffectsAssumption DEF IfValues, Tunnels
<1>1. \A a, b, c, u : <<a, b, c, u>> \in A <=>
        IF a = "iface" /\ b = p /\ c = l THEN v # Absent /\ u = v ELSE <<a, b, c, u>> \in ask
  BY DEF LeafIs
<1>2. /\ ReqMatch(now, ask, p) /\ TunnelMatch(now, ask, p)
      /\ <<"iface", p, "key">> \notin X /\ l # "key" => KeyMatch(now, ask, p)
  BY PortNow
<1>3. /\ <<"dev", p, "admin">> \notin X => AdminMatch(s, A, p)
      /\ <<"dev", p, "bit">> \notin X => BitMatch(s, A, p)
      /\ <<"dev", p, "rate">> \notin X => RateMatch(s, A, p)
  <2>1. \A c, u : <<"dev", p, c, u>> \in A <=> <<"dev", p, c, u>> \in ask
    BY <1>1
  <2> HIDE DEF A
  <2> QED BY <2>1, DevStays
<1>4. /\ s.iface[p].opt["key"] # Absent => s.iface[p].tunnel # Absent
      /\ \A t \in IfValues : <<"iface", p, "tunnel", t>> \in doc \ D => s.iface[p].tunnel = t
  BY DEF WInv, KeyHasTunnel, StillThere
<1> HIDE DEF A, X
<1>5. ReqMatch(s, A, p)
  BY <1>0, <1>1, <1>2 DEF ReqMatch
<1>6. TunnelMatch(s, A, p)
  BY <1>1, <1>2 DEF TunnelMatch
<1>7. <<"iface", p, "key">> \notin X => KeyMatch(s, A, p)
  BY <1>0, <1>1, <1>2 DEF KeyMatch
<1>8. PortMatch(s, A, X, p)
  BY <1>3, <1>5, <1>6, <1>7 DEF PortMatch
<1>9. PortMatch(s, After(ask, D, M), Exposed(<<"iface", p, l>>, TRUE, {}), p)
  BY <1>8 DEF A, X
<1>10. \A x \in {} : x[2] = p /\ x[1] # "cert"
  OBVIOUS
<1> QED BY <1>4, <1>9, <1>10, PortFits

\* The functions for interfaces change one leaf; the tunnel and its key.
LeafStep(s, t, p, l, v) ==
    /\ PortStep(s, t, p) /\ t.dev = s.dev /\ t.iface[p].tunnel = s.iface[p].tunnel
    /\ t.iface[p].req = IF l = "requested-number" THEN v ELSE s.iface[p].req
    /\ t.iface[p].opt["key"] = IF l = "key" THEN v ELSE s.iface[p].opt["key"]
TunnelStep(s, t, p, x, w) ==
    /\ PortStep(s, t, p) /\ t.dev = s.dev /\ t.iface[p].req = s.iface[p].req
    /\ t.iface[p].tunnel = x /\ t.iface[p].opt["key"] = w

WithIface(s, p, j) == [s EXCEPT !.iface[p] = j]
WithTunnel(s, p, x, w) == [s EXCEPT !.iface[p].tunnel = x, !.iface[p].opt["key"] = w]

LEMMA IfaceIs ==
    ASSUME NEW s, Good(s), NEW p \in Ports
    PROVE  /\ s \in State /\ s.iface \in [Ports -> Iface] /\ s.iface[p] \in Iface
           /\ s.iface[p].opt \in [Options -> Values \cup {Absent}] /\ "key" \in Options
<1>1. s \in State /\ s.iface \in [Ports -> Iface] /\ s.iface[p] \in Iface
  BY DEF Good, State
<1>2. s.iface[p].opt \in [Options -> Values \cup {Absent}] /\ "key" \in Options
  BY <1>1 DEF Iface, Options
<1> QED BY <1>1, <1>2

LEMMA IfaceSet ==
    ASSUME NEW s, Good(s), NEW p \in Ports, NEW j, NEW x, x = WithIface(s, p, j)
    PROVE  PortStep(s, x, p) /\ x.dev = s.dev /\ x.iface[p] = j
<1>1. /\ x.row = s.row /\ x.ssl = s.ssl /\ x.file = s.file /\ x.dev = s.dev
      /\ x.iface = [s.iface EXCEPT ![p] = j]
  BY IfaceIs DEF State, WithIface
<1>2. x.iface[p] = j /\ \A y \in Ports \ {p} : x.iface[y] = s.iface[y]
  BY <1>1, IfaceIs
<1> QED BY <1>1, <1>2 DEF PortStep

LEMMA ReqnumberDoes ==
    ASSUME NEW s, Good(s), NEW p \in Ports, NEW v
    PROVE  \A q \in TxnModReqnumber(s, p, v) : LeafStep(s, q.s, p, "requested-number", v)
<1> SUFFICES ASSUME NEW q \in TxnModReqnumber(s, p, v)
             PROVE  LeafStep(s, q.s, p, "requested-number", v)
  OBVIOUS
<1> DEFINE j == [s.iface[p] EXCEPT !.req = v]
<1>1. q.s = WithIface(s, p, j)
  BY IfaceIs, ResultParts DEF State, TxnModReqnumber, WithIface
<1>2. j.req = v /\ j.tunnel = s.iface[p].tunnel /\ j.opt = s.iface[p].opt
  BY IfaceIs DEF Iface
<1> HIDE DEF j
<1>3. PortStep(s, q.s, p) /\ q.s.dev = s.dev /\ q.s.iface[p] = j
  BY IfaceSet, <1>1
<1> QED BY <1>2, <1>3 DEF LeafStep

LEMMA OptionDoes ==
    ASSUME NEW s, Good(s), NEW p \in Ports, NEW o \in Options, NEW v
    PROVE  \A q \in TxnModTunnelOpt(s, p, o, v) : LeafStep(s, q.s, p, o, v)
<1> SUFFICES ASSUME NEW q \in TxnModTunnelOpt(s, p, o, v) PROVE LeafStep(s, q.s, p, o, v)
  OBVIOUS
<1> DEFINE i == s.iface[p]
           j == [i EXCEPT !.opt = [i.opt EXCEPT ![o] = v]]
<1>1. q.s = WithIface(s, p, j)
  BY IfaceIs, ResultParts DEF State, Iface, TxnModTunnelOpt, WithIface
<1>2. j.req = i.req /\ j.tunnel = i.tunnel /\ j.opt = [i.opt EXCEPT ![o] = v]
  BY IfaceIs DEF Iface
<1>3. [i.opt EXCEPT ![o] = v]["key"] = IF o = "key" THEN v ELSE i.opt["key"]
  BY IfaceIs
<1>4. o # "requested-number"
  BY DEF Options
<1> HIDE DEF j
<1>5. PortStep(s, q.s, p) /\ q.s.dev = s.dev /\ q.s.iface[p] = j
  BY IfaceSet, <1>1
<1> QED BY <1>2, <1>3, <1>4, <1>5 DEF LeafStep

LEMMA TunnelSet ==
    ASSUME NEW s, Good(s), NEW p \in Ports, NEW x, NEW w, NEW t, t = WithTunnel(s, p, x, w)
    PROVE  TunnelStep(s, t, p, x, w)
<1> DEFINE i == s.iface[p]
           j == [i EXCEPT !.tunnel = x, !.opt = [i.opt EXCEPT !["key"] = w]]
<1>0. s \in State /\ s.iface \in [Ports -> Iface] /\ i \in Iface
  BY IfaceIs
<1>a. [s EXCEPT !.iface[p].tunnel = x, !.iface[p].opt["key"] = w] = [s EXCEPT !.iface[p] = j]
  BY <1>0 DEF State, Iface
<1>1. t = WithIface(s, p, j)
  BY <1>a DEF WithIface, WithTunnel
<1>2. j.req = i.req /\ j.tunnel = x /\ j.opt["key"] = w
  BY IfaceIs DEF Iface
<1> HIDE DEF j
<1>3. PortStep(s, t, p) /\ t.dev = s.dev /\ t.iface[p] = j
  BY IfaceSet, <1>1
<1> QED BY <1>2, <1>3 DEF TunnelStep

LEMMA DelTunnelDoes ==
    ASSUME NEW s, Good(s), NEW p \in Ports
    PROVE  \A q \in TxnDelTunnel(s, p) : TunnelStep(s, q.s, p, Absent, Absent) /\ ~q.err
<1> SUFFICES ASSUME NEW q \in TxnDelTunnel(s, p)
             PROVE  TunnelStep(s, q.s, p, Absent, Absent) /\ ~q.err
  OBVIOUS
<1>1. q.s = WithTunnel(s, p, Absent, Absent) /\ ~q.err
  BY ResultParts DEF TxnDelTunnel, WithTunnel
<1> QED BY <1>1, TunnelSet

LEMMA AddTunnelDoes ==
    ASSUME NEW s, Good(s), NEW p \in Ports, NEW t, NEW v
    PROVE  \A q \in TxnAddTunnel(s, p, t, v) :
             TunnelStep(s, q.s, p, t,
                        IF s.iface[p].opt["key"] = Absent THEN v ELSE s.iface[p].opt["key"])
<1> DEFINE w == IF s.iface[p].opt["key"] = Absent THEN v ELSE s.iface[p].opt["key"]
<1> SUFFICES ASSUME NEW q \in TxnAddTunnel(s, p, t, v) PROVE TunnelStep(s, q.s, p, t, w)
  OBVIOUS
<1>1. [s EXCEPT !.iface[p].tunnel = t, !.iface[p].opt["key"] = IF @ = Absent THEN v ELSE @]
        = [s EXCEPT !.iface[p].tunnel = t, !.iface[p].opt["key"] = w]
  BY IfaceIs DEF State, Iface
<1>2. q.s = WithTunnel(s, p, t, w)
  BY <1>1, ResultParts DEF TxnAddTunnel, WithTunnel
<1> HIDE DEF w
<1> QED BY <1>2, TunnelSet

\* Only the interface of a port has changed, so nothing outside the transaction.
LEMMA IfaceLocal ==
    ASSUME NEW s, NEW p, PortStep(now, s, p), s.dev = now.dev, NEW part
    PROVE  Local(s, part)
BY DEF PortStep, Local

\* The elements of one leaf, deleted and created.
LEMMA LeafElements ==
    ASSUME NEW p \in Ports, NEW k \in {"iface", "dev"}, NEW l, NEW v
    PROVE  /\ \A e \in Leaf(k, p, l) : IsPort(e, p)
           /\ \A e \in One(k, p, l, v) : IsPort(e, p)
           /\ k = "iface" /\ l \in IfLeaves /\ v \in IfValues => Typed(One(k, p, l, v))
           /\ k = "dev" /\ <<l, v>> \in DevLeaves => Typed(One(k, p, l, v))
<1>1. /\ \A e \in Leaf(k, p, l) : IsPort(e, p)
      /\ \A e \in One(k, p, l, v) : IsPort(e, p)
  BY DEF Leaf, One, IsPort
<1>2. k = "iface" /\ l \in IfLeaves /\ v \in IfValues => Typed(One(k, p, l, v))
  BY DEF One, Typed
<1>3. ASSUME k = "dev", <<l, v>> \in DevLeaves PROVE Typed(One(k, p, l, v))
  <2>1. \E d \in DevLeaves : <<k, p, l, v>> = <<"dev", p, d[1], d[2]>>
    BY <1>3
  <2> QED BY <2>1 DEF One, Typed
<1> QED BY <1>1, <1>2, <1>3

LEMMA NoElements == Typed({}) /\ \A p : \A e \in {} : IsPort(e, p)
BY DEF Typed

\* A leaf of the interface is written or deleted.
LEMMA IfaceLeafDoc ==
    ASSUME IInv, WInv, phase # "idle", NEW p \in Ports,
           NEW l \in {"requested-number", "key", "csum"}, NEW v \in Values \cup {Absent},
           NEW R, Results(R), NEW M,
           v = Absent => M = {} /\ Alike(ask, doc),
           v # Absent => M = One("iface", p, l, v),
           \A q \in R : LeafStep(now, q.s, p, l, v),
           l = "key" => now.iface[p].tunnel # Absent,
           Handle(R, Leaf("iface", p, l), M, <<"iface", p, l>>, TRUE, {})
    PROVE  WInv'
<1> DEFINE k == "iface"
           D == Leaf(k, p, l)
<1>1. k \in {"iface", "dev"} /\ l \in IfLeaves
  BY DEF IfLeaves
<1>2. /\ Typed(M) /\ (\A e \in D : IsPort(e, p)) /\ (\A e \in M : IsPort(e, p))
      /\ LeafIs(After(ask, D, M), k, p, l, v)
  <2>1. CASE v = Absent
    <3>1. M = {} /\ Alike(ask, doc)
      BY <2>1
    <3>2. k # "dev"
      OBVIOUS
    <3> HIDE DEF k
    <3> QED BY <1>1, <2>1, <3>1, <3>2, LeafElements, NoElements, LeafDeleted
  <2>2. CASE v # Absent
    <3>1. M = One(k, p, l, v) /\ v \in IfValues
      BY <2>2 DEF IfValues
    <3>2. k = "iface"
      OBVIOUS
    <3> HIDE DEF k
    <3> QED BY <1>1, <2>2, <3>1, <3>2, LeafElements, LeafReplaced
  <2> QED BY <2>1, <2>2
<1>3. ASSUME NEW q \in R
      PROVE  Local(q.s, <<k, p, l>>) /\ Fits(q.s, D, M, Exposed(<<k, p, l>>, TRUE, {}))
  <2>0. /\ PortStep(now, q.s, p) /\ q.s.dev = now.dev
        /\ q.s.iface[p].tunnel = now.iface[p].tunnel
        /\ q.s.iface[p].req = IF l = "requested-number" THEN v ELSE now.iface[p].req
        /\ q.s.iface[p].opt["key"] = IF l = "key" THEN v ELSE now.iface[p].opt["key"]
    BY DEF LeafStep
  <2>1. Local(q.s, <<k, p, l>>) /\ Good(q.s)
    BY <2>0, IfaceLocal DEF Results
  <2> HIDE DEF D
  <2>2. Fits(q.s, D, M, Exposed(<<"iface", p, l>>, TRUE, {}))
    BY <1>2, <2>0, <2>1, IfaceLeafFits
  <2> QED BY <2>1, <2>2
<1> HIDE DEF D
<1>4. Does(R, D, M, <<k, p, l>>, TRUE, {})
  BY <1>3 DEF Does
<1>5. Handle(R, D, M, <<k, p, l>>, TRUE, {})
  BY DEF D
<1> HIDE DEF k
<1> QED BY <1>4, <1>5, HandleDoc

LEMMA EditReqnumberDoc ==
    ASSUME IInv, WInv, NEW p \in Ports, EditReqnumber(p)
    PROVE  WInv'
<1> DEFINE l == "requested-number"
<1>0. Good(now) /\ Absent \notin Values /\ l \in {"requested-number", "key", "csum"} /\ l # "key"
  BY EffectsAssumption DEF IInv
<1>a. PICK t0 \in Tunnels, o0 \in Options : TRUE
  BY DEF Tunnels, Options
<1>1. ASSUME NEW v \in Values \cup {Absent}
      PROVE  /\ Results(TxnModReqnumber(now, p, v))
             /\ \A q \in TxnModReqnumber(now, p, v) : LeafStep(now, q.s, p, l, v)
  BY <1>0, <1>a, IfaceOpsGood, ReqnumberDoes
<1>2. ASSUME NEW v \in Values,
             Write(TxnModReqnumber(now, p, v), Leaf("iface", p, l), {<<"iface", p, l, v>>},
                   <<"iface", p, l>>, TRUE, {})
      PROVE  WInv'
  <2> DEFINE M == {<<"iface", p, l, v>>}
             R == TxnModReqnumber(now, p, v)
  <2>1. M = One("iface", p, l, v) /\ v # Absent /\ v \in Values \cup {Absent}
    BY <1>0 DEF One
  <2>2. phase # "idle" /\ Handle(R, Leaf("iface", p, l), M, <<"iface", p, l>>, TRUE, {})
    BY <1>2 DEF Write
  <2>3. Results(R) /\ \A q \in R : LeafStep(now, q.s, p, l, v)
    BY <1>1, <2>1
  <2> HIDE DEF M, R, l
  <2> QED BY <1>0, <2>1, <2>2, <2>3, IfaceLeafDoc
<1>3. ASSUME Delete(TxnModReqnumber(now, p, Absent), Leaf("iface", p, l), <<"iface", p, l>>, TRUE, {})
      PROVE  WInv'
  <2> DEFINE R == TxnModReqnumber(now, p, Absent)
  <2>1. /\ phase # "idle" /\ Alike(ask, doc)
        /\ Handle(R, Leaf("iface", p, l), {}, <<"iface", p, l>>, TRUE, {})
    BY <1>3 DEF Delete, WInv
  <2>2. Results(R) /\ \A q \in R : LeafStep(now, q.s, p, l, Absent)
    BY <1>1
  <2> HIDE DEF R, l
  <2> QED BY <1>0, <2>1, <2>2, IfaceLeafDoc
<1> QED BY <1>2, <1>3 DEF EditReqnumber

LEMMA EditOptionDoc ==
    ASSUME IInv, WInv, NEW p \in Ports, NEW o \in Options, EditOption(p, o)
    PROVE  WInv'
<1>0. Good(now) /\ Absent \notin Values /\ o \in {"requested-number", "key", "csum"}
  BY EffectsAssumption DEF IInv, Options
<1>a. PICK t0 \in Tunnels : TRUE
  BY DEF Tunnels
<1>b. now.iface[p].tunnel # Absent
  <2>1. PICK e \in Leaf("iface", p, "tunnel") : TRUE
    BY DEF EditOption
  <2>2. PICK t \in IfValues : e = <<"iface", p, "tunnel", t>> /\ e \in doc
    BY DEF Leaf, WInv, Typed
  <2>3. now.iface[p].tunnel = t
    BY <2>2 DEF WInv, StillThere
  <2> QED BY <2>3, EffectsAssumption DEF IfValues, Tunnels
<1>1. ASSUME NEW v \in Values \cup {Absent}
      PROVE  /\ Results(TxnModTunnelOpt(now, p, o, v))
             /\ \A q \in TxnModTunnelOpt(now, p, o, v) : LeafStep(now, q.s, p, o, v)
  BY <1>0, <1>a, IfaceOpsGood, OptionDoes
<1>2. ASSUME NEW v \in Values,
             Write(TxnModTunnelOpt(now, p, o, v), Leaf("iface", p, o), {<<"iface", p, o, v>>},
                   <<"iface", p, o>>, TRUE, {})
      PROVE  WInv'
  <2> DEFINE M == {<<"iface", p, o, v>>}
             R == TxnModTunnelOpt(now, p, o, v)
  <2>1. M = One("iface", p, o, v) /\ v # Absent /\ v \in Values \cup {Absent}
    BY <1>0 DEF One
  <2>2. phase # "idle" /\ Handle(R, Leaf("iface", p, o), M, <<"iface", p, o>>, TRUE, {})
    BY <1>2 DEF Write
  <2>3. Results(R) /\ \A q \in R : LeafStep(now, q.s, p, o, v)
    BY <1>1, <2>1
  <2> HIDE DEF M, R
  <2> QED BY <1>0, <1>b, <2>1, <2>2, <2>3, IfaceLeafDoc
<1>3. ASSUME Delete(TxnModTunnelOpt(now, p, o, Absent), Leaf("iface", p, o), <<"iface", p, o>>, TRUE, {})
      PROVE  WInv'
  <2> DEFINE R == TxnModTunnelOpt(now, p, o, Absent)
  <2>1. /\ phase # "idle" /\ Alike(ask, doc)
        /\ Handle(R, Leaf("iface", p, o), {}, <<"iface", p, o>>, TRUE, {})
    BY <1>3 DEF Delete, WInv
  <2>2. Results(R) /\ \A q \in R : LeafStep(now, q.s, p, o, Absent)
    BY <1>1
  <2> HIDE DEF R
  <2> QED BY <1>0, <1>b, <2>1, <2>2, IfaceLeafDoc
<1> QED BY <1>2, <1>3 DEF EditOption

\* The document has tunnel x and key w, and the rest of the port as before.
TunnelIs(A, D, p, x) ==
    /\ \A l, v : <<"dev", p, l, v>> \in A <=> <<"dev", p, l, v>> \in ask
    /\ \A v : <<"iface", p, "requested-number", v>> \in A <=>
             <<"iface", p, "requested-number", v>> \in ask
    /\ \A v : <<"iface", p, "tunnel", v>> \notin doc \ D
    /\ \A v \in IfValues : <<"iface", p, "tunnel", v>> \in A <=> v = x
KeyIs(A, p, w) == \A v \in IfValues : <<"iface", p, "key", v>> \in A <=> v = w
OfPort(X, p) == \A x \in X : x[2] = p /\ x[1] # "cert"

\* The tunnel of a port is written with its key, or deleted with all of it.
LEMMA TunnelFits ==
    ASSUME IInv, WInv, phase # "idle", NEW p \in Ports, NEW D, NEW M, Typed(M),
           \A e \in D : IsPort(e, p), \A e \in M : IsPort(e, p), NEW spoilt, OfPort(spoilt, p),
           NEW s, Good(s), NEW x, NEW w, TunnelStep(now, s, p, x, w), w # Absent => x # Absent,
           TunnelIs(After(ask, D, M), D, p, x),
           KeyIs(After(ask, D, M), p, w) \/ <<"iface", p, "key">> \in spoilt
    PROVE  Fits(s, D, M, Exposed(<<"iface", p, "tunnel">>, TRUE, spoilt))
<1> DEFINE A == After(ask, D, M)
           X == Exposed(<<"iface", p, "tunnel">>, TRUE, spoilt)
<1>a. /\ \A l, v : <<"dev", p, l, v>> \in A <=> <<"dev", p, l, v>> \in ask
      /\ \A v : <<"iface", p, "requested-number", v>> \in A <=> <<"iface", p, "requested-number", v>> \in ask
      /\ \A v : <<"iface", p, "tunnel", v>> \notin doc \ D
      /\ \A v \in IfValues : <<"iface", p, "tunnel", v>> \in A <=> v = x
  BY DEF TunnelIs
<1>b. \A y \in spoilt : y[2] = p /\ y[1] # "cert"
  BY DEF OfPort
<1>0. /\ PortStep(now, s, p) /\ s.dev = now.dev /\ s.iface[p].req = now.iface[p].req
      /\ s.iface[p].tunnel = x /\ s.iface[p].opt["key"] = w
  BY DEF TunnelStep
<1>1. ReqMatch(now, ask, p)
  BY PortNow
<1>2. /\ <<"dev", p, "admin">> \notin X => AdminMatch(s, A, p)
      /\ <<"dev", p, "bit">> \notin X => BitMatch(s, A, p)
      /\ <<"dev", p, "rate">> \notin X => RateMatch(s, A, p)
  <2>1. \A l, v : <<"dev", p, l, v>> \in A <=> <<"dev", p, l, v>> \in ask
    BY <1>a
  <2> HIDE DEF A
  <2> QED BY <1>0, <2>1, DevStays
<1>3. <<"iface", p, "key">> \in spoilt => <<"iface", p, "key">> \in X
  BY DEF Exposed
<1>4. \A v \in IfValues : v # Absent
  BY EffectsAssumption DEF IfValues, Tunnels
<1> HIDE DEF X
<1>5. ReqMatch(s, A, p) /\ TunnelMatch(s, A, p)
  BY <1>0, <1>1, <1>a DEF ReqMatch, TunnelMatch
<1>6. <<"iface", p, "key">> \notin X => KeyMatch(s, A, p)
  BY <1>0, <1>3, <1>4 DEF KeyMatch, KeyIs
<1>7. PortMatch(s, A, X, p)
  BY <1>2, <1>5, <1>6 DEF PortMatch
<1>8. PortMatch(s, After(ask, D, M), Exposed(<<"iface", p, "tunnel">>, TRUE, spoilt), p)
  BY <1>7 DEF X
<1> QED BY <1>0, <1>8, <1>a, <1>b, PortFits

LEMMA TunnelElements ==
    ASSUME NEW p \in Ports
    PROVE  /\ \A e \in TunnelNode(p) : IsPort(e, p)
           /\ \A a, b, c, u : <<a, b, c, u>> \in TunnelNode(p) <=>
                <<a, b, c, u>> \in doc /\ a = "iface" /\ b = p /\ c \in {"tunnel", "key", "csum"}
<1>1. \A e : e \in TunnelNode(p) <=>
        e \in doc /\ e[1] = "iface" /\ e[2] = p /\ e[3] \in {"tunnel", "key", "csum"}
  BY DEF TunnelNode, Leaf, Options
<1>2. \A e \in TunnelNode(p) : IsPort(e, p)
  BY <1>1 DEF IsPort
<1>3. \A a, b, c, u : <<a, b, c, u>> \in TunnelNode(p) <=>
         <<a, b, c, u>> \in doc /\ a = "iface" /\ b = p /\ c \in {"tunnel", "key", "csum"}
  BY <1>1
<1> QED BY <1>2, <1>3

LEMMA EditTunnelDoc ==
    ASSUME IInv, WInv, NEW p \in Ports, NEW t \in Tunnels, NEW v \in Values, EditTunnel(p, t, v)
    PROVE  WInv'
<1> DEFINE add(s) == TxnAddTunnel(s, p, t, v)
           M == {<<"iface", p, "tunnel", t>>, <<"iface", p, "key", v>>}
           part == <<"iface", p, "tunnel">>
           other == \E e \in Asked("iface", p) : e[3] = "tunnel" /\ e[4] # t
           D == TunnelNode(p)
           A == After(ask, D, M)
           spoilt == IF other THEN {<<"iface", p, "key">>} ELSE {}
           R == Then(TxnDelTunnel(now, p), add)
<1>0. /\ Good(now) /\ v \in IfValues /\ t \in IfValues /\ t # Absent /\ v # Absent
      /\ v \in Values \cup {Absent}
  BY EffectsAssumption DEF IInv, IfValues, Tunnels
<1>a. PICK o0 \in Options : TRUE
  BY DEF Options
<1>1. Typed(M) /\ (\A e \in M : IsPort(e, p)) /\ (\A e \in D : IsPort(e, p))
  BY <1>0, TunnelElements DEF Typed, IsPort, IfLeaves
<1>2. \A a, b, c, u : <<a, b, c, u>> \in A <=>
        \/ a = "iface" /\ b = p /\ c = "tunnel" /\ u = t
        \/ a = "iface" /\ b = p /\ c = "key" /\ u = v
        \/ <<a, b, c, u>> \in ask /\ <<a, b, c, u>> \notin D /\ ~(a = "iface" /\ b = p /\ c \in {"tunnel", "key"})
  <2> SUFFICES ASSUME NEW a, NEW b, NEW c, NEW u
               PROVE  <<a, b, c, u>> \in A <=>
                        \/ a = "iface" /\ b = p /\ c = "tunnel" /\ u = t
                        \/ a = "iface" /\ b = p /\ c = "key" /\ u = v
                        \/ /\ <<a, b, c, u>> \in ask /\ <<a, b, c, u>> \notin D
                           /\ ~(a = "iface" /\ b = p /\ c \in {"tunnel", "key"})
    OBVIOUS
  <2>1. <<a, b, c, u>> \in M <=> \/ a = "iface" /\ b = p /\ c = "tunnel" /\ u = t
                                 \/ a = "iface" /\ b = p /\ c = "key" /\ u = v
    OBVIOUS
  <2>2. (\A m \in M : m[1] # a \/ m[2] # b \/ m[3] # c) <=> ~(a = "iface" /\ b = p /\ c \in {"tunnel", "key"})
    OBVIOUS
  <2> HIDE DEF M, D
  <2> QED BY <1>1, <2>1, <2>2, InAfter
<1>3. \A a, b, c, u : <<a, b, c, u>> \in D <=>
                <<a, b, c, u>> \in doc /\ a = "iface" /\ b = p /\ c \in {"tunnel", "key", "csum"}
  BY TunnelElements
<1> HIDE DEF D, A
<1>4. TunnelIs(A, D, p, t) /\ KeyIs(A, p, v)
  BY <1>2, <1>3 DEF TunnelIs, KeyIs
<1>5. OfPort(spoilt, p) /\ OfPort({}, p)
  BY DEF OfPort
<1>6. ASSUME <<"iface", p, "tunnel", t>> \notin ask, Write(add(now), D, M, part, TRUE, spoilt)
      PROVE  WInv'
  <2>1. phase # "idle" /\ Handle(add(now), D, M, part, TRUE, spoilt) /\ Results(add(now))
    BY <1>0, <1>6, <1>a, IfaceOpsGood DEF Write
  <2>2. ASSUME ~other PROVE now.iface[p].opt["key"] = Absent
    <3>1. TunnelMatch(now, ask, p)
      BY <2>1, PortNow
    <3>2. now.iface[p].tunnel \in Tunnels \cup {Absent}
      BY <1>0, IfaceIs DEF Iface
    <3>3. now.iface[p].tunnel \in Tunnels => <<"iface", p, "tunnel", now.iface[p].tunnel>> \in ask
      BY <3>1 DEF TunnelMatch, IfValues
    <3>4. now.iface[p].tunnel \notin Tunnels
      BY <1>6, <2>2, <3>3 DEF Asked
    <3> QED BY <3>2, <3>4 DEF WInv, KeyHasTunnel
  <2> DEFINE w == IF now.iface[p].opt["key"] = Absent THEN v ELSE now.iface[p].opt["key"]
  <2>3. KeyIs(A, p, w) \/ <<"iface", p, "key">> \in spoilt
    BY <1>4, <2>2
  <2> HIDE DEF M, spoilt
  <2>4. ASSUME NEW q \in add(now)
        PROVE  Local(q.s, part) /\ Fits(q.s, D, M, Exposed(part, TRUE, spoilt))
    <3>1. TunnelStep(now, q.s, p, t, w) /\ Good(q.s)
      BY <1>0, <2>1, AddTunnelDoes DEF Results
    <3>2. Local(q.s, part)
      BY <3>1, IfaceLocal DEF TunnelStep
    <3> HIDE DEF w
    <3>3. Fits(q.s, D, M, Exposed(part, TRUE, spoilt))
      BY <1>0, <1>1, <1>4, <1>5, <2>1, <2>3, <3>1, TunnelFits DEF A
    <3> QED BY <3>2, <3>3
  <2> HIDE DEF part, add
  <2>5. Does(add(now), D, M, part, TRUE, spoilt)
    BY <2>4 DEF Does
  <2> QED BY <2>1, <2>5, HandleDoc
<1>7. ASSUME Write(R, D, M, part, TRUE, {})
      PROVE  WInv'
  <2>1. phase # "idle" /\ Handle(R, D, M, part, TRUE, {})
    BY <1>7 DEF Write
  <2> HIDE DEF M
  <2>2. ASSUME NEW q \in R
        PROVE  Good(q.s) /\ Local(q.s, part) /\ Fits(q.s, D, M, Exposed(part, TRUE, {}))
    <3>1. PICK a \in TxnDelTunnel(now, p) : (a.err /\ q = a) \/ q \in TxnAddTunnel(a.s, p, t, v)
      BY DEF Then
    <3>2. Good(a.s) /\ TunnelStep(now, a.s, p, Absent, Absent) /\ ~a.err
      BY <1>0, <1>a, IfaceOpsGood, DelTunnelDoes DEF Results
    <3>3. q \in TxnAddTunnel(a.s, p, t, v)
      BY <3>1, <3>2
    <3> DEFINE w == IF a.s.iface[p].opt["key"] = Absent THEN v ELSE a.s.iface[p].opt["key"]
    <3>4. Good(q.s) /\ TunnelStep(a.s, q.s, p, t, w)
      BY <1>0, <1>a, <3>2, <3>3, IfaceOpsGood, AddTunnelDoes DEF Results
    <3>5. w = v
      BY <3>2 DEF TunnelStep
    <3> HIDE DEF w
    <3>6. TunnelStep(now, q.s, p, t, v)
      BY <3>2, <3>4, <3>5 DEF TunnelStep, PortStep
    <3>7. Local(q.s, part)
      BY <3>6, IfaceLocal DEF TunnelStep
    <3>9. Fits(q.s, D, M, Exposed(part, TRUE, {}))
      BY <1>0, <1>1, <1>4, <1>5, <2>1, <3>4, <3>6, TunnelFits DEF A
    <3> QED BY <3>4, <3>7, <3>9
  <2> HIDE DEF part, R
  <2>3. Results(R) /\ Does(R, D, M, part, TRUE, {})
    BY <2>2 DEF Does, Results
  <2> QED BY <2>1, <2>3, HandleDoc
<1> QED BY <1>6, <1>7 DEF EditTunnel, D

LEMMA DeleteTunnelDoc ==
    ASSUME IInv, WInv, NEW p \in Ports, DeleteTunnel(p)
    PROVE  WInv'
<1> DEFINE part == <<"iface", p, "tunnel">>
           D == TunnelNode(p)
           A == After(ask, D, {})
           R == TxnDelTunnel(now, p)
<1>1. phase # "idle" /\ Handle(R, D, {}, part, TRUE, {}) /\ Alike(ask, doc) /\ Good(now)
  BY DEF DeleteTunnel, Delete, WInv, IInv
<1>2. Results(R)
  BY <1>1, IfaceOpsGood DEF Tunnels, Options
<1>3. \A a, b, c, u : <<a, b, c, u>> \in D <=>
                <<a, b, c, u>> \in doc /\ a = "iface" /\ b = p /\ c \in {"tunnel", "key", "csum"}
  BY TunnelElements
<1>4. A = ask \ D
  BY DEF After
<1>5. Typed({}) /\ (\A e \in {} : IsPort(e, p)) /\ (\A e \in D : IsPort(e, p))
  BY TunnelElements, NoElements
<1> HIDE DEF D, A
<1>6. \A u \in IfValues : u # Absent
  BY EffectsAssumption DEF IfValues, Tunnels
<1>7. TunnelIs(A, D, p, Absent) /\ KeyIs(A, p, Absent)
  BY <1>1, <1>3, <1>4, <1>6 DEF TunnelIs, KeyIs, Alike
<1>8. ASSUME NEW q \in R
      PROVE  Local(q.s, part) /\ Fits(q.s, D, {}, Exposed(part, TRUE, {}))
  <2>1. TunnelStep(now, q.s, p, Absent, Absent) /\ Good(q.s)
    BY <1>1, <1>2, DelTunnelDoes DEF Results
  <2>2. Local(q.s, part)
    BY <2>1, IfaceLocal DEF TunnelStep
  <2>3. OfPort({}, p)
    BY DEF OfPort
  <2>4. Fits(q.s, D, {}, Exposed(part, TRUE, {}))
    BY <1>1, <1>5, <1>7, <2>1, <2>3, TunnelFits DEF A
  <2> QED BY <2>2, <2>4
<1> HIDE DEF part, R
<1>9. Does(R, D, {}, part, TRUE, {})
  BY <1>8 DEF Does
<1> QED BY <1>1, <1>2, <1>9, HandleDoc

\* A function for a device changes at most one leaf of it.
DevLeaf == {"admin", "bit", "rate"}
DevStep(s, t, p, l) ==
    /\ PortStep(s, t, p) /\ t.iface = s.iface
    /\ l # "admin" => t.dev[p].up = s.dev[p].up
    /\ l # "bit" => t.dev[p].bit = s.dev[p].bit
    /\ l # "rate" => t.dev[p].rate = s.dev[p].rate
OthersStay(A, p, l) ==
    \A a, b, c, u : a # "dev" \/ b # p \/ c # l => (<<a, b, c, u>> \in A <=> <<a, b, c, u>> \in ask)
DevMatch(s, A, p, l) ==
    /\ l = "admin" => AdminMatch(s, A, p)
    /\ l = "bit" => BitMatch(s, A, p)
    /\ l = "rate" => RateMatch(s, A, p)

LEMMA DevFits ==
    ASSUME IInv, WInv, phase # "idle", NEW p \in Ports, NEW l \in DevLeaf, NEW D, NEW M, Typed(M),
           \A e \in D : IsPort(e, p), \A e \in M : IsPort(e, p), NEW spoilt, OfPort(spoilt, p),
           NEW s, Good(s), DevStep(now, s, p, l), OthersStay(After(ask, D, M), p, l),
           DevMatch(s, After(ask, D, M), p, l) \/ <<"dev", p, l>> \in spoilt
    PROVE  Fits(s, D, M, Exposed(<<"dev", p, l>>, TRUE, spoilt))
<1> DEFINE A == After(ask, D, M)
           k == "dev"
           X == Exposed(<<k, p, l>>, TRUE, spoilt)
<1>1. \A a, b, c, u : a # "dev" \/ b # p \/ c # l => (<<a, b, c, u>> \in A <=> <<a, b, c, u>> \in ask)
  BY DEF OthersStay
<1>2. \A y \in spoilt : y[2] = p /\ y[1] # "cert"
  BY DEF OfPort
<1>3. <<"dev", p, l>> \in spoilt => <<"dev", p, l>> \in X
  BY DEF Exposed
<1>4. k # "iface" /\ k = "dev" /\ k # "cert"
  OBVIOUS
<1>5. DevMatch(s, A, p, l) \/ <<"dev", p, l>> \in X
  BY <1>3
<1> HIDE DEF k
<1>6. /\ ReqMatch(now, ask, p) /\ TunnelMatch(now, ask, p)
      /\ <<"iface", p, "key">> \notin X => KeyMatch(now, ask, p)
      /\ <<"dev", p, "admin">> \notin X /\ l # "admin" => AdminMatch(now, ask, p)
      /\ <<"dev", p, "bit">> \notin X /\ l # "bit" => BitMatch(now, ask, p)
      /\ <<"dev", p, "rate">> \notin X /\ l # "rate" => RateMatch(now, ask, p)
  BY <1>4, PortNow
<1>7. /\ s.iface[p].opt["key"] # Absent => s.iface[p].tunnel # Absent
      /\ \A t \in IfValues : <<"iface", p, "tunnel", t>> \in doc \ D => s.iface[p].tunnel = t
      /\ PortStep(now, s, p)
  BY DEF WInv, KeyHasTunnel, StillThere, DevStep
<1> HIDE DEF A, X
<1>8. ReqMatch(s, A, p) /\ TunnelMatch(s, A, p)
  BY <1>1, <1>6 DEF ReqMatch, TunnelMatch, DevStep
<1>9. <<"iface", p, "key">> \notin X => KeyMatch(s, A, p)
  BY <1>1, <1>6 DEF KeyMatch, DevStep
<1>10. <<"dev", p, "admin">> \notin X => AdminMatch(s, A, p)
  <2>1. CASE l = "admin"
    BY <1>5, <2>1 DEF DevMatch
  <2>2. CASE l # "admin"
    BY <1>1, <1>6, <2>2 DEF AdminMatch, DevStep
  <2> QED BY <2>1, <2>2
<1>11. <<"dev", p, "bit">> \notin X => BitMatch(s, A, p)
  <2>1. CASE l = "bit"
    BY <1>5, <2>1 DEF DevMatch
  <2>2. CASE l # "bit"
    BY <1>1, <1>6, <2>2 DEF BitMatch, DevStep
  <2> QED BY <2>1, <2>2
<1>12. <<"dev", p, "rate">> \notin X => RateMatch(s, A, p)
  <2>1. CASE l = "rate"
    BY <1>5, <2>1 DEF DevMatch
  <2>2. CASE l # "rate"
    BY <1>1, <1>6, <2>2 DEF RateMatch, DevStep
  <2> QED BY <2>1, <2>2
<1>13. PortMatch(s, A, X, p)
  BY <1>8, <1>9, <1>10, <1>11, <1>12 DEF PortMatch
<1>14. PortMatch(s, After(ask, D, M), Exposed(<<k, p, l>>, TRUE, spoilt), p)
  BY <1>13 DEF A, X
<1>15. Fits(s, D, M, Exposed(<<k, p, l>>, TRUE, spoilt))
  BY <1>2, <1>4, <1>7, <1>14, PortFits
<1> QED BY <1>15 DEF k

\* The functions for devices and OpenFlow ports.
WithDev(s, p, j) == [s EXCEPT !.dev[p] = j]

LEMMA DevSet ==
    ASSUME NEW s, Good(s), NEW p \in Ports, NEW j, NEW t, t = WithDev(s, p, j)
    PROVE  PortStep(s, t, p) /\ t.iface = s.iface /\ t.dev[p] = j
<1>0. s \in State /\ s.dev \in Devs
  BY DEF Good, State
<1>1. /\ t.row = s.row /\ t.ssl = s.ssl /\ t.file = s.file /\ t.iface = s.iface
      /\ t.dev = [s.dev EXCEPT ![p] = j]
  BY <1>0 DEF State, WithDev
<1>2. t.dev[p] = j /\ \A y \in Ports \ {p} : t.dev[y] = s.dev[y]
  BY <1>0, <1>1 DEF Devs
<1> QED BY <1>1, <1>2 DEF PortStep

WithUp(s, p, x) == [s EXCEPT !.dev[p].up = x]
WithBit(s, p, x) == [s EXCEPT !.dev[p].bit = x]
WithRate(s, p, x) == [s EXCEPT !.dev[p].rate = x]

LEMMA DevFields ==
    ASSUME NEW s, Good(s), NEW p \in Ports, NEW x
    PROVE  /\ DevStep(s, WithUp(s, p, x), p, "admin") /\ WithUp(s, p, x).dev[p].up = x
           /\ DevStep(s, WithBit(s, p, x), p, "bit") /\ WithBit(s, p, x).dev[p].bit = x
           /\ DevStep(s, WithRate(s, p, x), p, "rate") /\ WithRate(s, p, x).dev[p].rate = x
<1> DEFINE d == s.dev[p]
<1>0. s \in State /\ s.dev \in Devs /\ d \in [up : BOOLEAN, bit : BOOLEAN, rate : BOOLEAN]
  BY DEF Good, State, Devs
<1>1. DevStep(s, WithUp(s, p, x), p, "admin") /\ WithUp(s, p, x).dev[p].up = x
  <2> DEFINE t == WithUp(s, p, x)
             j == [d EXCEPT !.up = x]
  <2>1. t = WithDev(s, p, j)
    BY <1>0 DEF State, Devs, WithDev, WithUp
  <2>2. j.up = x /\ j.bit = d.bit /\ j.rate = d.rate
    BY <1>0
  <2> HIDE DEF t, j
  <2>3. DevStep(s, t, p, "admin") /\ t.dev[p].up = x
    BY <2>1, <2>2, DevSet DEF DevStep
  <2> QED BY <2>3 DEF t
<1>2. DevStep(s, WithBit(s, p, x), p, "bit") /\ WithBit(s, p, x).dev[p].bit = x
  <2> DEFINE t == WithBit(s, p, x)
             j == [d EXCEPT !.bit = x]
  <2>1. t = WithDev(s, p, j)
    BY <1>0 DEF State, Devs, WithDev, WithBit
  <2>2. j.bit = x /\ j.up = d.up /\ j.rate = d.rate
    BY <1>0
  <2> HIDE DEF t, j
  <2>3. DevStep(s, t, p, "bit") /\ t.dev[p].bit = x
    BY <2>1, <2>2, DevSet DEF DevStep
  <2> QED BY <2>3 DEF t
<1>3. DevStep(s, WithRate(s, p, x), p, "rate") /\ WithRate(s, p, x).dev[p].rate = x
  <2> DEFINE t == WithRate(s, p, x)
             j == [d EXCEPT !.rate = x]
  <2>1. t = WithDev(s, p, j)
    BY <1>0 DEF State, Devs, WithDev, WithRate
  <2>2. j.rate = x /\ j.up = d.up /\ j.bit = d.bit
    BY <1>0
  <2> HIDE DEF t, j
  <2>3. DevStep(s, t, p, "rate") /\ t.dev[p].rate = x
    BY <2>1, <2>2, DevSet DEF DevStep
  <2> QED BY <2>3 DEF t
<1> QED BY <1>1, <1>2, <1>3

\* of_mod_port_cfg sets the leaf, or, without a value, its default; the
\* exception is the administrative state of a device with other flags.
DevIs(t, p, leaf, v) ==
    /\ leaf = "admin" /\ (v # Absent \/ p \notin System \ Bare) => (t.dev[p].up <=> v \in {Absent, "up"})
    /\ leaf = "bit" => (t.dev[p].bit <=> v = "true")

LEMMA OfModDoes ==
    ASSUME NEW s, Good(s), NEW p \in Ports, NEW leaf \in {"admin", "bit"}, NEW v
    PROVE  \A q \in OfModPortCfg(s, p, leaf, v) :
             DevStep(s, q.s, p, leaf) /\ (~q.err => DevIs(q.s, p, leaf, v))
<1> SUFFICES ASSUME NEW q \in OfModPortCfg(s, p, leaf, v)
             PROVE  DevStep(s, q.s, p, leaf) /\ (~q.err => DevIs(q.s, p, leaf, v))
  OBVIOUS
<1> DEFINE on == (v \in {Absent, "up"})
           set == (v = "true")
           x == WithUp(s, p, on)
           y == WithBit(s, p, set)
<1>1. \/ q.s = s /\ q.err
      \/ q.s = s /\ leaf = "admin" /\ p \in System /\ v = Absent /\ (s.dev[p].up \/ p \notin Bare)
      \/ q.s = x /\ leaf = "admin"
      \/ q.s = y /\ leaf = "bit"
  BY ResultParts DEF OfModPortCfg, TxnModAdmin, OfModPort, WithUp, WithBit
<1> HIDE DEF on, set
<1>2. /\ DevStep(s, x, p, "admin") /\ x.dev[p].up = on
      /\ DevStep(s, y, p, "bit") /\ y.dev[p].bit = set
  BY DevFields
<1> HIDE DEF x, y
<1>3. DevStep(s, s, p, leaf)
  BY DEF DevStep, PortStep
<1> QED BY <1>1, <1>2, <1>3 DEF DevIs, on, set

\* Only a leaf of the device has changed, which belongs to no transaction.
LEMMA DevLocal ==
    ASSUME NEW s, NEW p, NEW l \in DevLeaf, DevStep(now, s, p, l)
    PROVE  Local(s, <<"dev", p, l>>)
BY DEF DevStep, PortStep, Local, DevLeaf

\* A leaf of a device is written or deleted.
LEMMA DevLeafDoc ==
    ASSUME IInv, WInv, phase # "idle", NEW p \in Ports, NEW l \in DevLeaf,
           NEW R, Results(R), NEW D, NEW M, Typed(M),
           \A e \in D : IsPort(e, p), \A e \in M : IsPort(e, p), NEW spoilt, OfPort(spoilt, p),
           OthersStay(After(ask, D, M), p, l),
           \A q \in R : /\ DevStep(now, q.s, p, l)
                        /\ ~q.err => DevMatch(q.s, After(ask, D, M), p, l) \/ <<"dev", p, l>> \in spoilt,
           Handle(R, D, M, <<"dev", p, l>>, TRUE, spoilt)
    PROVE  WInv'
<1> DEFINE part == <<"dev", p, l>>
<1>1. ASSUME NEW q \in R
      PROVE  Local(q.s, part) /\ (~q.err => Fits(q.s, D, M, Exposed(part, TRUE, spoilt)))
  BY DevLocal, DevFits DEF Results
<1>2. Handle(R, D, M, part, TRUE, spoilt)
  OBVIOUS
<1> HIDE DEF part
<1>3. Does(R, D, M, part, TRUE, spoilt)
  BY <1>1 DEF Does
<1> QED BY <1>2, <1>3, HandleDoc

LEMMA EditRateDoc ==
    ASSUME IInv, WInv, NEW p \in Ports, EditRate(p)
    PROVE  WInv'
<1> DEFINE e == <<"dev", p, "rate", "on">>
           E == {e}
           l == "rate"
           part == <<"dev", p, "rate">>
           Spoilt(done) == IF done THEN {} ELSE {part}
<1>0. /\ Good(now) /\ l \in DevLeaf
      /\ \A done : Results(TxnAddAdvert(now, p, done)) /\ Results(TxnDelAdvert(now, p, done))
  BY DevOpsGood DEF IInv, DevLeaf
<1>1. /\ Typed(E) /\ Typed({}) /\ (\A x \in E : IsPort(x, p)) /\ (\A x \in {} : IsPort(x, p))
      /\ \A done : OfPort(Spoilt(done), p)
  <2>1. \E d \in DevLeaves : e = <<"dev", p, d[1], d[2]>>
    BY DEF DevLeaves
  <2> QED BY <2>1 DEF Typed, IsPort, OfPort
<1>2. ASSUME NEW x
      PROVE  DevStep(now, WithRate(now, p, x), p, l) /\ WithRate(now, p, x).dev[p].rate = x
  BY <1>0, DevFields
<1>3. DevStep(now, now, p, l)
  BY DEF DevStep, PortStep
<1>4. ASSUME NEW done \in BOOLEAN,
             Write(TxnAddAdvert(now, p, done), {}, {e}, part, TRUE, Spoilt(done))
      PROVE  WInv'
  <2> DEFINE R == TxnAddAdvert(now, p, done)
             A == After(ask, {}, E)
  <2>1. phase # "idle" /\ Handle(R, {}, E, <<"dev", p, l>>, TRUE, Spoilt(done))
    BY <1>4 DEF Write
  <2>2. e \in A /\ OthersStay(A, p, l)
    <3>1. e \in A
      BY DEF After
    <3>2. ASSUME NEW a, NEW b, NEW c, NEW u, a # "dev" \/ b # p \/ c # l
          PROVE  <<a, b, c, u>> \in A <=> <<a, b, c, u>> \in ask
      <4>1. <<a, b, c, u>> \notin E /\ \A m \in E : m[1] # a \/ m[2] # b \/ m[3] # c
        BY <3>2
      <4> HIDE DEF E
      <4> QED BY <1>1, <4>1, InAfter
    <3> QED BY <3>1, <3>2 DEF OthersStay
  <2> HIDE DEF A
  <2>3. ASSUME NEW q \in R
        PROVE  /\ DevStep(now, q.s, p, l)
               /\ ~q.err => DevMatch(q.s, A, p, l) \/ <<"dev", p, l>> \in Spoilt(done)
    <3>1. (q.s = now /\ (q.err \/ ~done)) \/ (q.s = WithRate(now, p, TRUE) /\ p \in System)
      BY ResultParts DEF TxnAddAdvert, DevSetEthtool, WithRate
    <3> QED BY <1>2, <1>3, <2>2, <3>1 DEF DevMatch, RateMatch
  <2> HIDE DEF E, R, l, Spoilt
  <2> QED BY <1>0, <1>1, <2>1, <2>2, <2>3, DevLeafDoc DEF A, R
<1>5. ASSUME NEW done \in BOOLEAN,
             Delete(TxnDelAdvert(now, p, done), {e}, part, TRUE, Spoilt(done))
      PROVE  WInv'
  <2> DEFINE R == TxnDelAdvert(now, p, done)
             A == After(ask, E, {})
  <2>1. phase # "idle" /\ Handle(R, E, {}, <<"dev", p, l>>, TRUE, Spoilt(done))
    BY <1>5 DEF Delete
  <2>2. e \notin A /\ OthersStay(A, p, l)
    BY DEF After, OthersStay
  <2> HIDE DEF A
  <2>3. ASSUME NEW q \in R
        PROVE  /\ DevStep(now, q.s, p, l)
               /\ ~q.err => DevMatch(q.s, A, p, l) \/ <<"dev", p, l>> \in Spoilt(done)
    <3>1. (q.s = now /\ (q.err \/ ~done)) \/ (q.s = WithRate(now, p, FALSE) /\ p \in System)
      BY ResultParts DEF TxnDelAdvert, DevSetEthtool, WithRate
    <3> QED BY <1>2, <1>3, <2>2, <3>1 DEF DevMatch, RateMatch
  <2> HIDE DEF E, R, l, Spoilt
  <2> QED BY <1>0, <1>1, <2>1, <2>2, <2>3, DevLeafDoc DEF A, R
<1> QED BY <1>4, <1>5 DEF EditRate

LEMMA EditConfigDoc ==
    ASSUME IInv, WInv, NEW p \in Ports, NEW leaf \in {"admin", "bit"}, EditConfig(p, leaf)
    PROVE  WInv'
<1> DEFINE D == Leaf("dev", p, leaf)
           G == D \cup {e \in Asked("dev", p) : e[3] = leaf}
           U == OfModPortCfg(now, p, leaf, Absent)
           V == IF leaf = "admin" THEN {"up", "down"} ELSE {"true", "false"}
           T == IF leaf = "admin" /\ p \in System \ Bare THEN {<<"dev", p, leaf>>} ELSE {}
<1>0. Good(now) /\ leaf \in DevLeaf
  BY DEF IInv, DevLeaf
<1>1. ASSUME NEW s, Good(s), NEW v, NEW q \in OfModPortCfg(s, p, leaf, v)
      PROVE  Good(q.s) /\ DevStep(s, q.s, p, leaf) /\ (~q.err => DevIs(q.s, p, leaf, v))
  BY <1>1, DevOpsGood, OfModDoes DEF Results
<1>2. ASSUME NEW v \in V, NEW R, phase # "idle",
             Handle(R, D, One("dev", p, leaf, v), <<"dev", p, leaf>>, TRUE, {}),
             \A q \in R : /\ Good(q.s) /\ DevStep(now, q.s, p, leaf)
                          /\ ~q.err => DevIs(q.s, p, leaf, v)
      PROVE  WInv'
  <2> DEFINE k == "dev"
             M == One(k, p, leaf, v)
             A == After(ask, D, M)
  <2>1. phase # "idle" /\ Handle(R, D, M, <<"dev", p, leaf>>, TRUE, {})
    BY <1>2
  <2>2. v # Absent /\ <<leaf, v>> \in DevLeaves
    BY <1>2, EffectsAssumption DEF DevLeaves
  <2>3. k = "dev" /\ k \in {"iface", "dev"} /\ D = Leaf(k, p, leaf)
    OBVIOUS
  <2> HIDE DEF k, D
  <2>4. /\ Typed(M) /\ (\A x \in M : IsPort(x, p)) /\ (\A x \in D : IsPort(x, p))
    BY <2>2, <2>3, LeafElements
  <2>5. LeafIs(A, k, p, leaf, v)
    BY <2>2, <2>3, <2>4, LeafReplaced
  <2>6. OfPort({}, p) /\ OthersStay(A, p, leaf)
    BY <2>3, <2>5 DEF OfPort, OthersStay, LeafIs
  <2>7. \A u : <<"dev", p, leaf, u>> \in A <=> u = v
    BY <2>2, <2>3, <2>5 DEF LeafIs
  <2> HIDE DEF A, M
  <2>8. ASSUME NEW q \in R, ~q.err PROVE DevMatch(q.s, A, p, leaf)
    <3>1. DevIs(q.s, p, leaf, v)
      BY <1>2, <2>8
    <3>2. CASE leaf = "admin"
      <4>1. v \in {"up", "down"} /\ (q.s.dev[p].up <=> v = "up")
        BY <1>2, <2>2, <3>1, <3>2 DEF DevIs
      <4> QED BY <2>7, <3>2, <4>1 DEF DevMatch, AdminMatch
    <3>3. CASE leaf = "bit"
      <4>1. v \in {"true", "false"} /\ (q.s.dev[p].bit <=> v = "true")
        BY <1>2, <3>1, <3>3 DEF DevIs
      <4> QED BY <2>7, <3>3, <4>1 DEF DevMatch, BitMatch
    <3> QED BY <3>2, <3>3
  <2>9. Results(R)
    BY <1>2 DEF Results
  <2> QED BY <1>0, <1>2, <2>1, <2>4, <2>6, <2>8, <2>9, DevLeafDoc DEF A
<1>3. ASSUME NEW v \in V,
             LET set(s) == OfModPortCfg(s, p, leaf, v)
             IN  Write(Then(U, set), D, {<<"dev", p, leaf, v>>}, <<"dev", p, leaf>>, TRUE, {})
      PROVE  WInv'
  <2> DEFINE set(s) == OfModPortCfg(s, p, leaf, v)
             R == Then(U, set)
  <2>1. phase # "idle" /\ Handle(R, D, One("dev", p, leaf, v), <<"dev", p, leaf>>, TRUE, {})
    BY <1>3 DEF Write, One
  <2>2. ASSUME NEW q \in R
        PROVE  Good(q.s) /\ DevStep(now, q.s, p, leaf) /\ (~q.err => DevIs(q.s, p, leaf, v))
    <3>1. PICK a \in U : (a.err /\ q = a) \/ q \in OfModPortCfg(a.s, p, leaf, v)
      BY DEF Then
    <3>2. Good(a.s) /\ DevStep(now, a.s, p, leaf)
      BY <1>0, <1>1
    <3>3. CASE a.err /\ q = a
      BY <3>2, <3>3
    <3>4. CASE q \in OfModPortCfg(a.s, p, leaf, v)
      <4>1. Good(q.s) /\ DevStep(a.s, q.s, p, leaf) /\ (~q.err => DevIs(q.s, p, leaf, v))
        BY <1>1, <3>2, <3>4
      <4>2. DevStep(now, q.s, p, leaf)
        BY <3>2, <4>1 DEF DevStep, PortStep
      <4> QED BY <4>1, <4>2
    <3> QED BY <3>1, <3>3, <3>4
  <2> HIDE DEF R, D, V
  <2> QED BY <1>2, <2>1, <2>2
<1>4. ASSUME NEW v \in V, D = {},
             Write(OfModPortCfg(now, p, leaf, v), {}, {<<"dev", p, leaf, v>>}, <<"dev", p, leaf>>, TRUE, {})
      PROVE  WInv'
  <2> DEFINE R == OfModPortCfg(now, p, leaf, v)
  <2>1. phase # "idle" /\ Handle(R, D, One("dev", p, leaf, v), <<"dev", p, leaf>>, TRUE, {})
    BY <1>4 DEF Write, One
  <2>2. ASSUME NEW q \in R
        PROVE  Good(q.s) /\ DevStep(now, q.s, p, leaf) /\ (~q.err => DevIs(q.s, p, leaf, v))
    BY <1>0, <1>1
  <2> HIDE DEF R, D, V
  <2> QED BY <1>2, <2>1, <2>2
<1>5. ASSUME Delete(U, G, <<"dev", p, leaf>>, TRUE, T) PROVE WInv'
  <2> DEFINE A == After(ask, G, {})
  <2>1. phase # "idle" /\ Handle(U, G, {}, <<"dev", p, leaf>>, TRUE, T)
    BY <1>5 DEF Delete
  <2>2. Typed({}) /\ (\A x \in {} : IsPort(x, p)) /\ (\A x \in G : IsPort(x, p))
    BY NoElements DEF IsPort, Leaf, Asked
  <2>3. LeafIs(A, "dev", p, leaf, Absent)
    BY DEF LeafIs, After, Leaf, Asked
  <2> HIDE DEF G
  <2>4. OfPort(T, p) /\ OthersStay(A, p, leaf)
    BY <2>3 DEF OfPort, OthersStay, LeafIs
  <2>5. \A u : <<"dev", p, leaf, u>> \notin A
    BY <2>3 DEF LeafIs
  <2>6. Absent # "true"
    BY EffectsAssumption
  <2> HIDE DEF A
  <2>7. ASSUME NEW q \in U
        PROVE  /\ Good(q.s) /\ DevStep(now, q.s, p, leaf)
               /\ ~q.err => DevMatch(q.s, A, p, leaf) \/ <<"dev", p, leaf>> \in T
    <3>1. Good(q.s) /\ DevStep(now, q.s, p, leaf) /\ (~q.err => DevIs(q.s, p, leaf, Absent))
      BY <1>0, <1>1
    <3> QED BY <2>5, <2>6, <3>1 DEF DevIs, DevMatch, AdminMatch, BitMatch
  <2> HIDE DEF U, T
  <2>8. Results(U)
    BY <2>7 DEF Results
  <2> QED BY <1>0, <2>1, <2>2, <2>4, <2>7, <2>8, DevLeafDoc DEF A
<1> QED BY <1>3, <1>4, <1>5 DEF EditConfig

-----------------------------------------------------------------------------
(* Begin and end of an edit                                                *)

\* What is read shows what there is: the document is typed, agrees with the
\* state, and names rows and tunnels that exist.
LEMMA ShownMatches ==
    ASSUME NEW s, Good(s)
    PROVE  Typed(Shown(s, Listed)) /\ Match(s, Shown(s, Listed), {}) /\ StillThere(s, Shown(s, Listed), Shown(s, Listed))
<1>0. /\ s \in State /\ s.ssl \in SslRow /\ s.iface \in [Ports -> Iface] /\ s.dev \in Devs
  BY DEF Good, State
<1>a. \A p \in Ports : Listed[p] = "listed"
  BY DEF Listed
<1>1. \A k, w, l, v : <<k, w, l, v>> \in Shown(s, Listed) <=>
        \/ <<k, w, l, v>> \in OwnedConfig(s) \/ <<k, w, l, v>> \in ExternalConfig(s)
        \/ \E p \in Ports : <<k, w, l, v>> \in PortConfig(s, p, "listed")
  BY <1>a DEF Shown
<1>2. ASSUME NEW p \in Ports, NEW k, NEW w, NEW l, NEW v
      PROVE  <<k, w, l, v>> \in PortConfig(s, p, "listed") <=>
               /\ w = p
               /\ \/ k = "iface" /\ l = "requested-number" /\ v = s.iface[p].req /\ v # Absent
                  \/ k = "iface" /\ l = "tunnel" /\ v = s.iface[p].tunnel /\ v # Absent
                  \/ /\ k = "iface" /\ l \in Options /\ v = s.iface[p].opt[l] /\ v # Absent
                     /\ s.iface[p].tunnel # Absent
                     /\ l = "csum" => s.iface[p].tunnel = "ipgre-tunnel"
                  \/ k = "dev" /\ l = "admin" /\ v = IF s.dev[p].up THEN "up" ELSE "down"
                  \/ k = "dev" /\ l = "bit" /\ v = IF s.dev[p].bit THEN "true" ELSE "false"
                  \/ k = "dev" /\ l = "rate" /\ v = "on" /\ p \in System /\ s.dev[p].rate
  BY DEF PortConfig
<1>3. \A k, w, l, v : <<k, w, l, v>> \in OwnedConfig(s) \/ <<k, w, l, v>> \in ExternalConfig(s) => k = "cert"
  BY DEF OwnedConfig, ExternalConfig
<1>4. ASSUME NEW e \in OwnedConfig(s)
      PROVE  \E l \in OwnLeaves, v \in CertValues : e = <<"cert", "own", l, v>>
  BY <1>0, <1>4 DEF OwnedConfig, ParsePem, OwnLeaves, CertValues, SslRow, Keys
<1>5. ASSUME NEW e \in ExternalConfig(s)
      PROVE  \E l \in ExtLeaves, v \in CertValues : e = <<"cert", "ext", l, v>>
  BY <1>0, <1>5 DEF ExternalConfig, ExtLeaves, CertValues, SslRow
<1>6. ASSUME NEW p \in Ports, NEW e \in PortConfig(s, p, "listed")
      PROVE  \/ \E l \in IfLeaves, v \in IfValues : e = <<"iface", p, l, v>>
             \/ \E d \in DevLeaves : e = <<"dev", p, d[1], d[2]>>
  <2>1. s.iface[p] \in Iface
    BY <1>0
  <2>2. /\ s.iface[p].req # Absent => s.iface[p].req \in IfValues
        /\ s.iface[p].tunnel # Absent => s.iface[p].tunnel \in IfValues
        /\ \A o \in Options : s.iface[p].opt[o] # Absent => s.iface[p].opt[o] \in IfValues
    BY <2>1 DEF Iface, IfValues
  <2> QED BY <1>6, <2>2 DEF PortConfig, IfLeaves, Options, DevLeaves
<1>7. Typed(Shown(s, Listed))
  BY <1>a, <1>4, <1>5, <1>6 DEF Typed, Shown
<1>8. OwnMatch(s, Shown(s, Listed)) /\ ExtMatch(s, Shown(s, Listed))
  <2>1. ASSUME NEW l, NEW v PROVE <<"cert", "own", l, v>> \notin ExternalConfig(s)
    BY DEF ExternalConfig
  <2>2. ASSUME NEW l, NEW v PROVE <<"cert", "ext", l, v>> \notin OwnedConfig(s)
    BY DEF OwnedConfig
  <2>3. ASSUME NEW p \in Ports, NEW w, NEW l, NEW v PROVE <<"cert", w, l, v>> \notin PortConfig(s, p, "listed")
    BY <1>2
  <2> QED BY <1>1, <2>1, <2>2, <2>3 DEF OwnMatch, ExtMatch
<1>9. ASSUME NEW p \in Ports
      PROVE  /\ ReqMatch(s, Shown(s, Listed), p) /\ TunnelMatch(s, Shown(s, Listed), p) /\ KeyMatch(s, Shown(s, Listed), p)
             /\ AdminMatch(s, Shown(s, Listed), p) /\ BitMatch(s, Shown(s, Listed), p) /\ RateMatch(s, Shown(s, Listed), p)
  <2>1. \A k, l, v : k # "cert" => (<<k, p, l, v>> \in Shown(s, Listed) <=> <<k, p, l, v>> \in PortConfig(s, p, "listed"))
    BY <1>1, <1>2, <1>3
  <2>2. \A v \in IfValues : v # Absent
    BY EffectsAssumption DEF IfValues, Tunnels
  <2>3. ReqMatch(s, Shown(s, Listed), p) /\ TunnelMatch(s, Shown(s, Listed), p)
    BY <1>2, <2>1, <2>2 DEF ReqMatch, TunnelMatch, Options
  <2>4. KeyMatch(s, Shown(s, Listed), p)
    BY <1>2, <2>1, <2>2 DEF KeyMatch, Options
  <2>5. AdminMatch(s, Shown(s, Listed), p) /\ BitMatch(s, Shown(s, Listed), p) /\ RateMatch(s, Shown(s, Listed), p)
    BY <1>2, <2>1 DEF AdminMatch, BitMatch, RateMatch
  <2> QED BY <2>3, <2>4, <2>5
<1>10. Match(s, Shown(s, Listed), {})
  BY <1>8, <1>9 DEF Match
<1>11. StillThere(s, Shown(s, Listed), Shown(s, Listed))
  <2>1. \A r \in CertValues : <<"cert", "own", "resource-id", r>> \in Shown(s, Listed) => s.row /\ s.ssl.own = r
    <3>1. \A r : <<"cert", "own", "resource-id", r>> \in OwnedConfig(s) => s.row /\ s.ssl.own = r
      BY DEF OwnedConfig
    <3> QED BY <1>8, <3>1 DEF OwnMatch, OwnLeaves
  <2>2. \A r \in CertValues : <<"cert", "ext", "resource-id", r>> \in Shown(s, Listed) => s.row /\ s.ssl.ext = r
    <3>1. \A r : <<"cert", "ext", "resource-id", r>> \in ExternalConfig(s) => s.row /\ s.ssl.ext = r
      BY DEF ExternalConfig
    <3> QED BY <1>8, <3>1 DEF ExtMatch, ExtLeaves
  <2>3. \A p \in Ports, t \in IfValues : <<"iface", p, "tunnel", t>> \in Shown(s, Listed) => s.iface[p].tunnel = t
    BY <1>9 DEF TunnelMatch
  <2> QED BY <2>1, <2>2, <2>3 DEF StillThere
<1> QED BY <1>7, <1>10, <1>11

\* A read without OpenFlow misses settings of ports, and nothing else.
LEMMA ViewMatches ==
    ASSUME NEW s, Good(s), NEW of \in Views
    PROVE  /\ Typed(Shown(s, of)) /\ StillThere(s, Shown(s, of), Shown(s, Listed))
           /\ Alike(Shown(s, Listed), Shown(s, of))
<1>1. of \in [Ports -> {"listed", "up", "down", Absent}] /\ \A p \in Ports : Listed[p] = "listed"
  BY DEF Views, Listed
<1>2. ASSUME NEW p \in Ports, NEW e \in PortConfig(s, p, of[p])
      PROVE  \/ e \in PortConfig(s, p, "listed")
             \/ e \in {<<"dev", p, "admin", "up">>, <<"dev", p, "admin", "down">>}
  BY <1>1 DEF PortConfig
<1>3. ASSUME NEW p \in Ports, NEW e \in PortConfig(s, p, "listed")
      PROVE  e \in PortConfig(s, p, of[p]) \/ (e[1] = "dev" /\ e[3] \in {"admin", "bit"})
  BY DEF PortConfig
<1>4. ASSUME NEW e \in Shown(s, of)
      PROVE  \/ e \in Shown(s, Listed)
             \/ \E p \in Ports : e \in {<<"dev", p, "admin", "up">>, <<"dev", p, "admin", "down">>}
  BY <1>1, <1>2 DEF Shown
<1>5. ASSUME NEW e \in Shown(s, Listed)
      PROVE  e \in Shown(s, of) \/ (e[1] = "dev" /\ e[3] \in {"admin", "bit"})
  BY <1>1, <1>3 DEF Shown
<1>6. Typed(Shown(s, Listed)) /\ StillThere(s, Shown(s, Listed), Shown(s, Listed))
  BY ShownMatches
<1>7. Typed(Shown(s, of))
  <2>1. \A p \in Ports : \A e \in {<<"dev", p, "admin", "up">>, <<"dev", p, "admin", "down">>} :
          \E d \in DevLeaves : e = <<"dev", p, d[1], d[2]>>
    BY DEF DevLeaves
  <2> QED BY <1>4, <1>6, <2>1 DEF Typed
<1>8. Alike(Shown(s, Listed), Shown(s, of))
  <2> SUFFICES ASSUME NEW k, NEW w, NEW l, NEW v, k # "dev" \/ l = "rate"
               PROVE  <<k, w, l, v>> \in Shown(s, Listed) <=> <<k, w, l, v>> \in Shown(s, of)
    BY DEF Alike
  <2> QED BY <1>4, <1>5
<1>9. StillThere(s, Shown(s, of), Shown(s, Listed))
  <2>1. \A k, w, l, v : k # "dev" /\ <<k, w, l, v>> \in Shown(s, of) => <<k, w, l, v>> \in Shown(s, Listed)
    BY <1>8 DEF Alike
  <2> QED BY <1>6, <2>1 DEF StillThere
<1> QED BY <1>7, <1>8, <1>9

\* An agreement holds for fewer promised parts.
LEMMA MatchWeaker ==
    ASSUME NEW s, NEW A, NEW X, NEW Y, X \subseteq Y, Match(s, A, X)
    PROVE  Match(s, A, Y)
BY DEF Match

\* Without a transaction there is nothing to restore.
LEMMA RestoredSame ==
    ASSUME NEW s \in State, s.row = db.row, s.ssl = db.ssl, s.iface = db.iface
    PROVE  Restored(s) = s
BY DEF State, Restored

LEMMA InitDoc == Init => WInv
<1> SUFFICES ASSUME Init PROVE WInv
  OBVIOUS
<1>1. /\ doc = {} /\ ask = {} /\ seen = Shown(now, Listed) /\ hist = NoHist /\ dirty = {} /\ phase = "idle"
      /\ now.iface = [p \in Ports |-> [req |-> Absent, tunnel |-> Absent,
                                       opt |-> [o \in Options |-> Absent]]]
      /\ db.row = now.row /\ db.ssl = now.ssl /\ db.iface = now.iface
  BY DEF Init
<1>2. Good(now) /\ now \in State
  BY InitInv DEF IInv, Good
<1>3. now = Restored(now)
  BY <1>1, <1>2, RestoredSame
<1>4. Typed(seen) /\ Match(Restored(now), seen, {})
  BY <1>1, <1>2, <1>3, ShownMatches
<1>5. Match(Restored(now), seen, dirty \cup hist.touched)
  BY <1>1, <1>4 DEF NoHist
<1>6. KeyHasTunnel(now) /\ KeyHasTunnel(db)
  BY <1>1 DEF KeyHasTunnel, Options
<1>7. Typed(doc) /\ Typed(ask) /\ StillThere(now, doc, ask)
  BY <1>1 DEF Typed, StillThere
<1> QED BY <1>1, <1>3, <1>4, <1>5, <1>6, <1>7 DEF WInv

LEMMA BeginDoc ==
    ASSUME IInv, WInv, Begin
    PROVE  WInv'
<1>0. PICK of \in Views : doc' = Shown(now, of)
  BY DEF Begin
<1>1. /\ phase' = "delete" /\ ask' = Shown(now, Listed) /\ now' = now /\ db' = db
      /\ hist' = hist /\ seen' = seen /\ dirty' = dirty /\ Good(now)
  BY DEF Begin, IInv
<1>2. /\ Typed(Shown(now, Listed)) /\ Match(now, Shown(now, Listed), {})
      /\ Typed(Shown(now, of)) /\ StillThere(now, Shown(now, of), Shown(now, Listed))
      /\ Alike(Shown(now, Listed), Shown(now, of))
  BY <1>0, <1>1, ShownMatches, ViewMatches
<1>3. Typed(doc)' /\ Typed(ask)' /\ Typed(seen)' /\ StillThere(now, doc, ask)' /\ Alike(ask, doc)'
  <2>1. /\ Typed(doc') /\ Typed(ask') /\ Typed(seen') /\ StillThere(now', doc', ask')
        /\ Alike(ask', doc')
    BY <1>0, <1>1, <1>2 DEF WInv
  <2> QED BY <2>1 DEF Typed, StillThere, Alike
<1>4. KeyHasTunnel(now)' /\ KeyHasTunnel(db)'
  BY <1>1 DEF WInv, KeyHasTunnel
<1>5. Match(now', ask', ((dirty \ hist.whole) \cup hist.spoilt)')
  <2>1. Match(now, Shown(now, Listed), (dirty \ hist.whole) \cup hist.spoilt)
    BY <1>2, MatchWeaker
  <2> QED BY <1>1, <2>1
<1>6. Match(Restored(now)', seen', (dirty \cup hist.touched)')
  <2>1. Restored(now)' = Restored(now)
    BY <1>1 DEF Restored
  <2> QED BY <1>1, <2>1 DEF WInv
<1> QED BY <1>1, <1>3, <1>4, <1>5, <1>6 DEF WInv

LEMMA CommitDoc ==
    ASSUME IInv, WInv, Commit
    PROVE  WInv'
<1>1. /\ phase # "idle" /\ phase' = "idle" /\ doc' = {} /\ ask' = {} /\ hist' = NoHist /\ now' = now
      /\ seen' = ask /\ dirty' = (dirty \ hist.whole) \cup hist.spoilt
      /\ db' = [row |-> now.row, ssl |-> now.ssl, iface |-> now.iface] /\ Good(now)
  BY DEF Commit, Idle, IInv
<1>2. db'.row = now.row /\ db'.ssl = now.ssl /\ db'.iface = now.iface
  BY <1>1
<1>3. Restored(now)' = now
  <2>1. Restored(now)' = [now EXCEPT !.row = now.row, !.ssl = now.ssl, !.iface = now.iface]
    BY <1>1, <1>2 DEF Restored
  <2> QED BY <1>1, <2>1 DEF Good, State
<1>4. Typed(doc)' /\ Typed(ask)' /\ Typed(seen)' /\ StillThere(now, doc, ask)'
  BY <1>1 DEF WInv, Typed, StillThere
<1>5. KeyHasTunnel(now)' /\ KeyHasTunnel(db)'
  BY <1>1, <1>2 DEF WInv, KeyHasTunnel
<1>6. Match(Restored(now)', seen', (dirty \cup hist.touched)')
  <2>1. Match(now, ask, (dirty \ hist.whole) \cup hist.spoilt)
    BY <1>1 DEF WInv
  <2>2. (dirty \cup hist.touched)' = (dirty \ hist.whole) \cup hist.spoilt
    BY <1>1 DEF NoHist
  <2> QED BY <1>1, <1>3, <2>1, <2>2
<1> QED BY <1>1, <1>3, <1>4, <1>5, <1>6 DEF WInv

LEMMA CommitFailsDoc ==
    ASSUME IInv, WInv, CommitFails
    PROVE  WInv'
<1>1. TxnAbort(now, hist.touched) /\ Good(now)
  BY DEF CommitFails, IInv
<1>2. Match(Restored(now), seen, dirty \cup hist.touched)
  BY DEF WInv
<1> QED BY <1>1, <1>2, AbortDoc

LEMMA CertsDoc ==
    ASSUME IInv, WInv, EditCerts
    PROVE  WInv'
BY CreateExternalDoc, CreateOwnedDoc, DeleteOwnedDoc, DeleteExternalDoc, DeleteExtLeafDoc,
   DeleteOwnLeafDoc, ReplaceOwnCertDoc, ReplaceExtCertDoc, ReplaceKeyDataDoc, ReplaceKeyTypeDoc
   DEF EditCerts

LEMMA IfaceDoc ==
    ASSUME IInv, WInv, NEW p \in Ports, EditIface(p)
    PROVE  WInv'
BY EditReqnumberDoc, DeleteTunnelDoc, EditTunnelDoc, EditOptionDoc DEF EditIface

LEMMA DeviceDoc ==
    ASSUME IInv, WInv, NEW p \in Ports, EditDevice(p)
    PROVE  WInv'
BY EditRateDoc, EditConfigDoc DEF EditDevice

LEMMA StepDoc == IInv /\ WInv /\ [Next]_vars => WInv'
<1> SUFFICES ASSUME IInv, WInv, [Next]_vars PROVE WInv'
  OBVIOUS
<1>1. CASE Begin
  BY <1>1, BeginDoc
<1>2. CASE Commit
  BY <1>2, CommitDoc
<1>3. CASE CommitFails
  BY <1>3, CommitFailsDoc
<1>4. CASE EditCerts
  BY <1>4, CertsDoc
<1>5. ASSUME NEW p \in Ports, EditIface(p) PROVE WInv'
  BY <1>5, IfaceDoc
<1>6. ASSUME NEW p \in Ports, EditDevice(p) PROVE WInv'
  BY <1>6, DeviceDoc
<1>7. CASE UNCHANGED vars
  <2>1. /\ db' = db /\ now' = now /\ phase' = phase /\ doc' = doc /\ ask' = ask /\ hist' = hist
        /\ seen' = seen /\ dirty' = dirty
    BY <1>7 DEF vars
  <2>2. Restored(now)' = Restored(now)
    BY <2>1 DEF Restored
  <2>3. /\ Typed(doc') /\ Typed(ask') /\ Typed(seen')
        /\ phase' = "delete" => Alike(ask', doc')
        /\ KeyHasTunnel(now') /\ KeyHasTunnel(db')
        /\ StillThere(now', doc', ask')
        /\ phase' = "idle" => now' = Restored(now)' /\ hist' = NoHist
        /\ phase' # "idle" => Match(now', ask', ((dirty \ hist.whole) \cup hist.spoilt)')
        /\ Match(Restored(now)', seen', (dirty \cup hist.touched)')
    BY <2>1, <2>2 DEF WInv
  <2>4. Typed(doc)' /\ Typed(ask)' /\ Typed(seen)' /\ StillThere(now, doc, ask)'
    BY <2>3 DEF Typed, StillThere
  <2>5. KeyHasTunnel(now)' /\ KeyHasTunnel(db)'
    BY <2>3 DEF KeyHasTunnel
  <2>6. (phase = "delete" => Alike(ask, doc))'
    BY <2>3 DEF Alike
  <2> QED BY <2>3, <2>4, <2>5, <2>6 DEF WInv
<1> QED BY <1>1, <1>2, <1>3, <1>4, <1>5, <1>6, <1>7 DEF Next

-----------------------------------------------------------------------------
(* The promise                                                             *)

\* The elements of a document with its defaults.
LEMMA FullIs ==
    ASSUME NEW A, NEW e
    PROVE  e \in Full(A) <=>
             \/ e \in A
             \/ \E p \in Ports : /\ e = <<"dev", p, "admin", "up">>
                                 /\ ~\E x \in A : x[1] = "dev" /\ x[2] = p /\ x[3] = "admin"
             \/ \E p \in Ports : /\ e = <<"dev", p, "bit", "false">>
                                 /\ ~\E x \in A : x[1] = "dev" /\ x[2] = p /\ x[3] = "bit"
<1> DEFINE B(p) == {x \in {<<"admin", "up">>, <<"bit", "false">>} :
                      ~\E y \in A : y[1] = "dev" /\ y[2] = p /\ y[3] = x[1]}
<1>1. e \in Full(A) <=> e \in A \/ \E p \in Ports : \E d \in B(p) : e = <<"dev", p, d[1], d[2]>>
  BY DEF Full
<1> DEFINE Unset(p, l) == ~\E y \in A : y[1] = "dev" /\ y[2] = p /\ y[3] = l
<1>2. ASSUME NEW p \in Ports
      PROVE  (\E d \in B(p) : e = <<"dev", p, d[1], d[2]>>) <=>
               \/ e = <<"dev", p, "admin", "up">> /\ Unset(p, "admin")
               \/ e = <<"dev", p, "bit", "false">> /\ Unset(p, "bit")
  <2>1. \A d : d \in B(p) <=> \/ d = <<"admin", "up">> /\ Unset(p, "admin")
                              \/ d = <<"bit", "false">> /\ Unset(p, "bit")
    OBVIOUS
  <2> HIDE DEF B, Unset
  <2>2. ASSUME NEW d \in B(p), e = <<"dev", p, d[1], d[2]>>
        PROVE  \/ e = <<"dev", p, "admin", "up">> /\ Unset(p, "admin")
               \/ e = <<"dev", p, "bit", "false">> /\ Unset(p, "bit")
    BY <2>1, <2>2
  <2>3. ASSUME e = <<"dev", p, "admin", "up">>, Unset(p, "admin")
        PROVE  \E d \in B(p) : e = <<"dev", p, d[1], d[2]>>
    <3>1. <<"admin", "up">> \in B(p)
      BY <2>1, <2>3
    <3>2. e = <<"dev", p, <<"admin", "up">>[1], <<"admin", "up">>[2]>>
      BY <2>3
    <3> QED BY <3>1, <3>2
  <2>4. ASSUME e = <<"dev", p, "bit", "false">>, Unset(p, "bit")
        PROVE  \E d \in B(p) : e = <<"dev", p, d[1], d[2]>>
    <3>1. <<"bit", "false">> \in B(p)
      BY <2>1, <2>4
    <3>2. e = <<"dev", p, <<"bit", "false">>[1], <<"bit", "false">>[2]>>
      BY <2>4
    <3> QED BY <3>1, <3>2
  <2> QED BY <2>2, <2>3, <2>4
<1> HIDE DEF B
<1> QED BY <1>1, <1>2

\* A setting with a default is shown as it is.
LEMMA Defaults ==
    ASSUME NEW s, NEW A, Typed(A), NEW p \in Ports
    PROVE  /\ AdminMatch(s, A, p) => (<<"dev", p, "admin", "up">> \in Full(A) <=> s.dev[p].up)
           /\ BitMatch(s, A, p) => (<<"dev", p, "bit", "false">> \in Full(A) <=> ~s.dev[p].bit)
<1>1. ASSUME NEW x \in A, x[1] = "dev", x[2] = p, x[3] = "admin"
      PROVE  <<"dev", p, "admin", "up">> \in A \/ <<"dev", p, "admin", "down">> \in A
  BY <1>1 DEF Typed, DevLeaves
<1>2. ASSUME NEW x \in A, x[1] = "dev", x[2] = p, x[3] = "bit"
      PROVE  <<"dev", p, "bit", "true">> \in A \/ <<"dev", p, "bit", "false">> \in A
  BY <1>2 DEF Typed, DevLeaves
<1>3. <<"dev", p, "admin", "up">> \in Full(A) <=>
        \/ <<"dev", p, "admin", "up">> \in A
        \/ ~\E x \in A : x[1] = "dev" /\ x[2] = p /\ x[3] = "admin"
  BY FullIs
<1>4. <<"dev", p, "bit", "false">> \in Full(A) <=>
        \/ <<"dev", p, "bit", "false">> \in A
        \/ ~\E x \in A : x[1] = "dev" /\ x[2] = p /\ x[3] = "bit"
  BY FullIs
<1>5. AdminMatch(s, A, p) => (<<"dev", p, "admin", "up">> \in Full(A) <=> s.dev[p].up)
  BY <1>1, <1>3 DEF AdminMatch
<1>6. BitMatch(s, A, p) => (<<"dev", p, "bit", "false">> \in Full(A) <=> ~s.dev[p].bit)
  BY <1>2, <1>4 DEF BitMatch
<1> QED BY <1>5, <1>6

\* Documents that agree with the same state promise the same.
LEMMA SamePromise ==
    ASSUME NEW s, NEW A, NEW B, Typed(A), Typed(B), Match(s, A, dirty), Match(s, B, dirty)
    PROVE  Promised(A) \subseteq Promised(B)
<1> SUFFICES ASSUME NEW e \in Full(A), Part(e) \notin dirty, e[3] # "csum"
             PROVE  e \in Full(B)
  BY DEF Promised
<1>0. \A x \in B : x \in Full(B)
  BY FullIs
<1>1. CASE \E l \in OwnLeaves, v \in CertValues : e \in A /\ e = <<"cert", "own", l, v>>
  <2>1. PICK l \in OwnLeaves, v \in CertValues : e \in A /\ e = <<"cert", "own", l, v>>
    BY <1>1
  <2>2. Own \notin dirty
    BY <2>1 DEF Part, Own
  <2>3. OwnMatch(s, A) /\ OwnMatch(s, B)
    BY <2>2 DEF Match
  <2> QED BY <1>0, <2>1, <2>3 DEF OwnMatch
<1>2. CASE \E l \in ExtLeaves, v \in CertValues : e \in A /\ e = <<"cert", "ext", l, v>>
  <2>1. PICK l \in ExtLeaves, v \in CertValues : e \in A /\ e = <<"cert", "ext", l, v>>
    BY <1>2
  <2>2. Ext \notin dirty
    BY <2>1 DEF Part, Ext
  <2>3. ExtMatch(s, A) /\ ExtMatch(s, B)
    BY <2>2 DEF Match
  <2> QED BY <1>0, <2>1, <2>3 DEF ExtMatch
<1>3. CASE \E p \in Ports, l \in IfLeaves, v \in IfValues : e \in A /\ e = <<"iface", p, l, v>>
  <2>1. PICK p \in Ports, l \in IfLeaves, v \in IfValues : e \in A /\ e = <<"iface", p, l, v>>
    BY <1>3
  <2>2. <<"iface", p, l>> \notin dirty /\ l # "csum"
    BY <2>1 DEF Part
  <2>3. /\ ReqMatch(s, A, p) /\ ReqMatch(s, B, p) /\ TunnelMatch(s, A, p) /\ TunnelMatch(s, B, p)
        /\ l = "key" => KeyMatch(s, A, p) /\ KeyMatch(s, B, p)
    BY <2>2 DEF Match
  <2>4. CASE l = "requested-number"
    BY <1>0, <2>1, <2>3, <2>4 DEF ReqMatch
  <2>5. CASE l = "tunnel"
    BY <1>0, <2>1, <2>3, <2>5 DEF TunnelMatch
  <2>6. CASE l = "key"
    BY <1>0, <2>1, <2>3, <2>6 DEF KeyMatch
  <2> QED BY <2>2, <2>4, <2>5, <2>6 DEF IfLeaves
<1>4. ASSUME NEW p \in Ports,
             \/ e = <<"dev", p, "admin", "up">>
             \/ e = <<"dev", p, "admin", "down">> /\ e \in A
      PROVE  e \in Full(B)
  <2>1. <<"dev", p, "admin">> \notin dirty
    BY <1>4 DEF Part
  <2>2. AdminMatch(s, A, p) /\ AdminMatch(s, B, p)
    BY <2>1 DEF Match
  <2>3. e = <<"dev", p, "admin", "up">> => e \in Full(B)
    BY <2>2, Defaults
  <2>4. <<"dev", p, "admin", "down">> \in A => <<"dev", p, "admin", "down">> \in B
    BY <2>2 DEF AdminMatch
  <2> QED BY <1>0, <1>4, <2>3, <2>4
<1>5. ASSUME NEW p \in Ports,
             \/ e = <<"dev", p, "bit", "false">>
             \/ e = <<"dev", p, "bit", "true">> /\ e \in A
      PROVE  e \in Full(B)
  <2>1. <<"dev", p, "bit">> \notin dirty
    BY <1>5 DEF Part
  <2>2. BitMatch(s, A, p) /\ BitMatch(s, B, p)
    BY <2>1 DEF Match
  <2>3. e = <<"dev", p, "bit", "false">> => e \in Full(B)
    BY <2>2, Defaults
  <2>4. <<"dev", p, "bit", "true">> \in A => <<"dev", p, "bit", "true">> \in B
    BY <2>2 DEF BitMatch
  <2> QED BY <1>0, <1>5, <2>3, <2>4
<1>6. ASSUME NEW p \in Ports, e = <<"dev", p, "rate", "on">>, e \in A
      PROVE  e \in Full(B)
  <2>1. <<"dev", p, "rate">> \notin dirty
    BY <1>6 DEF Part
  <2>2. RateMatch(s, A, p) /\ RateMatch(s, B, p)
    BY <2>1 DEF Match
  <2> QED BY <1>0, <1>6, <2>2 DEF RateMatch
<1>7. CASE \E p \in Ports, d \in DevLeaves : e \in A /\ e = <<"dev", p, d[1], d[2]>>
  <2>1. PICK p \in Ports, d \in DevLeaves : e \in A /\ e = <<"dev", p, d[1], d[2]>>
    BY <1>7
  <2>2. \/ e = <<"dev", p, "admin", "up">> \/ e = <<"dev", p, "admin", "down">>
        \/ e = <<"dev", p, "bit", "true">> \/ e = <<"dev", p, "bit", "false">>
        \/ e = <<"dev", p, "rate", "on">>
    BY <2>1 DEF DevLeaves
  <2>3. CASE e = <<"dev", p, "admin", "up">> \/ e = <<"dev", p, "admin", "down">>
    BY <1>4, <2>1, <2>3
  <2>4. CASE e = <<"dev", p, "bit", "true">> \/ e = <<"dev", p, "bit", "false">>
    BY <1>5, <2>1, <2>4
  <2>5. CASE e = <<"dev", p, "rate", "on">>
    BY <1>6, <2>1, <2>5
  <2> QED BY <2>2, <2>3, <2>4, <2>5
<1>8. CASE e \in A
  <2>1. \/ \E l \in OwnLeaves, v \in CertValues : e = <<"cert", "own", l, v>>
        \/ \E l \in ExtLeaves, v \in CertValues : e = <<"cert", "ext", l, v>>
        \/ \E p \in Ports, l \in IfLeaves, v \in IfValues : e = <<"iface", p, l, v>>
        \/ \E p \in Ports, d \in DevLeaves : e = <<"dev", p, d[1], d[2]>>
    BY <1>8 DEF Typed
  <2> QED BY <1>1, <1>2, <1>3, <1>7, <1>8, <2>1
<1>9. CASE e \notin A
  <2>1. \E p \in Ports : e = <<"dev", p, "admin", "up">> \/ e = <<"dev", p, "bit", "false">>
    BY <1>9, FullIs
  <2>2. PICK p \in Ports : e = <<"dev", p, "admin", "up">> \/ e = <<"dev", p, "bit", "false">>
    BY <2>1
  <2>3. CASE e = <<"dev", p, "admin", "up">>
    BY <1>4, <2>3
  <2>4. CASE e = <<"dev", p, "bit", "false">>
    BY <1>5, <2>4
  <2> QED BY <2>2, <2>3, <2>4
<1> QED BY <1>8, <1>9

\* After any sequence of successful and failed edits, by any of the steps at
\* which files, devices and OpenFlow ports are changed and not taken back,
\* running, read while OpenFlow lists the ports, shows what the successful
\* edits have asked for, in every part that is promised: for all ports,
\* certificates, values and lengths of edits, also if OpenFlow did not list a
\* port when an edit began.  Not promised are parts that the code is known to
\* mishandle, and rates that a driver refused.
THEOREM SettingsShown == Spec => []ShownAsAsked
<1>1. Init => IInv /\ WInv
  BY InitInv, InitDoc
<1>2. IInv /\ WInv /\ [Next]_vars => (IInv /\ WInv)'
  BY StepInv, StepDoc
<1>3. IInv /\ WInv => ShownAsAsked
  <2> SUFFICES ASSUME IInv, WInv, phase = "idle" PROVE Promised(Shown(now, Listed)) = Promised(seen)
    BY DEF ShownAsAsked
  <2>1. Good(now) /\ Typed(seen) /\ now = Restored(now) /\ hist = NoHist
    BY DEF IInv, WInv
  <2>2. dirty \cup hist.touched = dirty
    BY <2>1 DEF NoHist
  <2>3. Match(now, seen, dirty)
    BY <2>1, <2>2 DEF WInv
  <2>4. Typed(Shown(now, Listed)) /\ Match(now, Shown(now, Listed), dirty)
    BY <2>1, ShownMatches, MatchWeaker
  <2> QED BY <2>1, <2>3, <2>4, SamePromise
<1> QED BY <1>1, <1>2, <1>3, PTL DEF Spec
=============================================================================
