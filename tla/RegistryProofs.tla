--------------------------- MODULE RegistryProofs ---------------------------
(* Machine-checked theorems about Registry, for every number of requests   *)
(* and of reads in flight.                                                 *)
EXTENDS Registry, TLAPS

-----------------------------------------------------------------------------
(* The inductive invariant.                                                *)

RowOf(t) == CASE t = "clients" -> Client [] t = "upstreams" -> Upstream [] t = "settings" -> Settings

\* The types of the variables; the settings always have a row.
TypeOK ==
    /\ clock \in Nat
    /\ table \in {"clients", "upstreams", "settings"}
    /\ row \in RowOf(table) \cup {None}
    /\ table = "settings" => row # None
    /\ read = [r \in Reads |-> read[r]]
    /\ call = [p \in Procs |-> call[p]]
    /\ seen \in [recent : SUBSET (RowOf(table) \cup {None}), minted : Nat, disabled : BOOLEAN,
                 overlapped : BOOLEAN]

ValidClient(client) ==
    /\ usesSecret(client.method) => client.client_secret_hash # None
    /\ validateClientInput(client.method, client.keys)

\* What each request is about to write, as far as validity and the decision to disable
\* depend on it.
CallOk(c) ==
    /\ c.op = "updateClient" => table = "clients" /\ c.new \in Client /\ ValidClient(c.new)
    /\ c.op = "updateClientSecretHash" => table = "clients" /\ c.new \in Nat
    /\ c.op = "setClientDisabled" => table = "clients" /\ c.new \in BOOLEAN
    /\ c.op = "delete" => table \in {"clients", "upstreams"}
    /\ c.op = "updateUpstream" =>
           table = "upstreams" /\ c.new \in Upstream /\ validateUpstreamInput(c.new)
    /\ c.op = "updateUpstreamSecrets" =>
           /\ table = "upstreams" /\ c.old \in Upstream
           /\ c.new \in Upstream
           /\ c.new.client_secret_enc = Reseal(c.old.client_secret_enc)
           /\ c.new.client_jwk_enc = Reseal(c.old.client_jwk_enc)
    /\ c.op = "writeSettings" =>
           /\ table = "settings"
           /\ DOMAIN c.new \subseteq Keys /\ \A k \in DOMAIN c.new : c.new[k] \in Values \cup {None}
           /\ Validated(c.old, c.new)

\* What is cached or being read with the time of this tick was in D1 in this tick.
Recent(at, record) == at \in Nat /\ at <= clock /\ (at = clock => record \in seen.recent)

IInv ==
    /\ \A p \in Procs : CallOk(call[p])
    /\ row \in seen.recent
    /\ cached # None => Recent(cached.at, cached.record)
    /\ \A r \in Reads : read[r] # NoRead => Recent(read[r].now, read[r].record)
    /\ DisabledAsDecided
    /\ StoredIsValid

Inv == TypeOK /\ IInv

-----------------------------------------------------------------------------
(* The shapes of a step.                                                   *)

\* What was recent stays recent while the tick lasts.
LEMMA RecentKept ==
    ASSUME NEW at, NEW record, Recent(at, record), clock' = clock, seen.recent \subseteq seen'.recent
    PROVE  Recent(at, record)'
BY DEF Recent

\* A request begins, or goes on without touching D1.
LEMMA BeginKeeps ==
    ASSUME Inv, NEW p \in Procs, NEW op, NEW new, Begin(p, op, new),
           CallOk([op |-> op, old |-> row, new |-> new]),
           seen' \in [recent : SUBSET (RowOf(table) \cup {None}), minted : Nat,
                      disabled : BOOLEAN, overlapped : BOOLEAN],
           seen'.recent = seen.recent, seen'.disabled = seen.disabled,
           seen'.overlapped = seen.overlapped
    PROVE  Inv'
<1>1. UNCHANGED <<clock, table, row, cached, read>>
  BY DEF Begin
<1>2. PICK c : c = [op |-> op, old |-> row, new |-> new]
  OBVIOUS
<1>3. call' = [call EXCEPT ![p] = c] /\ CallOk(c)
  BY Zenon, <1>2 DEF Begin
<1>4. TypeOK'
  BY <1>1, <1>3 DEF Inv, TypeOK
<1>5. \A q \in Procs : call'[q] = call[q] \/ call'[q] = c
  BY <1>3 DEF Inv, TypeOK
<1>6. \A d : CallOk(d) => CallOk(d)'
  BY <1>1 DEF CallOk
<1>7. \A q \in Procs : CallOk(call[q])'
  BY <1>3, <1>5, <1>6 DEF Inv, IInv
<1>8. DisabledAsDecided' /\ StoredIsValid'
  BY Zenon, <1>1 DEF Inv, IInv, DisabledAsDecided, StoredIsValid
<1>9. /\ row' \in seen'.recent
      /\ cached' # None => Recent(cached.at, cached.record)'
      /\ \A r \in Reads : read'[r] # NoRead => Recent(read[r].now, read[r].record)'
  BY <1>1 DEF Inv, IInv, Recent
<1> QED  BY <1>4, <1>7, <1>8, <1>9 DEF Inv, IInv

\* A statement is run.
LEMMA WriteKeeps ==
    ASSUME Inv, NEW p \in Procs, NEW new, Write(p, new), cached' \in {None, cached},
           new \in RowOf(table) \cup {None}, table = "settings" => new # None,
           seen' \in [recent : SUBSET (RowOf(table) \cup {None}), minted : Nat,
                      disabled : BOOLEAN, overlapped : BOOLEAN],
           seen'.recent = seen.recent \cup {new}, DisabledAsDecided', StoredIsValid'
    PROVE  Inv'
<1>1. UNCHANGED <<clock, table, read>> /\ row' = new /\ call' = [call EXCEPT ![p] = Done]
  BY DEF Write
<1>2. TypeOK'
  BY <1>1 DEF Inv, TypeOK
<1>3. \A q \in Procs : call'[q] = call[q] \/ call'[q] = Done
  BY <1>1 DEF Inv, TypeOK
<1>4. CallOk(Done)
  BY DEF CallOk, Done
<1>5. \A d : CallOk(d) => CallOk(d)'
  BY <1>1 DEF CallOk
<1>6. \A q \in Procs : CallOk(call[q])'
  BY <1>3, <1>4, <1>5 DEF Inv, IInv
<1>7. /\ row' \in seen'.recent
      /\ cached' # None => Recent(cached.at, cached.record)'
      /\ \A r \in Reads : read'[r] # NoRead => Recent(read[r].now, read[r].record)'
  BY <1>1 DEF Inv, IInv, Recent
<1> QED  BY <1>2, <1>6, <1>7 DEF Inv, IInv

\* The rows are what their names say, and null is none of them.
LEMMA Rows ==
    /\ RowOf("clients") = Client /\ RowOf("upstreams") = Upstream /\ RowOf("settings") = Settings
    /\ None \notin Client /\ None \notin Upstream /\ None \notin Settings /\ None \notin Blob
    /\ \A n \in Nat : n # None
BY NoneAssumption DEF RowOf

Seen == [recent : SUBSET (RowOf(table) \cup {None}), minted : Nat, disabled : BOOLEAN,
         overlapped : BOOLEAN]

\* The history after a statement.
LEMMA HeldTyped ==
    ASSUME seen \in Seen, NEW new \in RowOf(table) \cup {None}
    PROVE  /\ Held(seen, new) \in Seen /\ Held(seen, new).recent = seen.recent \cup {new}
           /\ Held(seen, new).disabled = seen.disabled
           /\ Held(seen, new).minted = seen.minted
           /\ Held(seen, new).overlapped = seen.overlapped
BY DEF Held, Seen

\* The history after an overlap is noted.
LEMMA SeenOverlapped ==
    ASSUME NEW s \in Seen, NEW b \in BOOLEAN, NEW t, t = [s EXCEPT !.overlapped = b]
    PROVE  t \in Seen /\ t.recent = s.recent /\ t.overlapped = b
BY Zenon DEF Seen

-----------------------------------------------------------------------------
(* Clients.                                                                *)

\* A statement on a client leaves it valid and as disabled as was decided.
LEMMA ClientWriteKeeps ==
    ASSUME Inv, table = "clients", NEW p \in Procs, NEW new \in Client \cup {None},
           Write(p, new), UNCHANGED cached, seen' \in Seen, seen'.recent = seen.recent \cup {new},
           new # None => ValidClient(new) /\ new.disabled = seen'.disabled
    PROVE  Inv'
<1>1. table' = "clients" /\ row' = new
  BY DEF Write
<1>2. DisabledAsDecided' /\ StoredIsValid'
  BY <1>1 DEF DisabledAsDecided, StoredIsValid, ValidClient
<1> QED  BY <1>2, Rows, WriteKeeps DEF Seen

\* What is known of a client's row.
LEMMA ClientRow ==
    ASSUME Inv, table = "clients"
    PROVE  /\ row \in Client \cup {None} /\ seen \in Seen
           /\ row # None => row \in Client /\ ValidClient(row) /\ row.disabled = seen.disabled
BY Rows DEF Inv, TypeOK, IInv, DisabledAsDecided, StoredIsValid, ValidClient, Seen

\* createClient.
LEMMA CreateClientKeeps ==
    ASSUME Inv, NEW p \in Procs, NEW m \in Methods, createClientHandler(p, m)
    PROVE  Inv'
<1> DEFINE n == IF usesSecret(m) THEN 1 ELSE 0
           client == [method |-> m, client_secret_hash |-> IF n = 1 THEN Mint ELSE None,
                      keys |-> ~usesSecret(m), disabled |-> FALSE]
           new == IF row = None THEN client ELSE row
<1>0. table = "clients" /\ Write(p, new) /\ UNCHANGED cached
  BY DEF createClientHandler
<1>1. /\ row \in Client \cup {None} /\ seen \in Seen /\ seen.minted \in Nat
      /\ row # None => row \in Client /\ ValidClient(row) /\ row.disabled = seen.disabled
  BY <1>0, ClientRow DEF Seen
<1>2. usesSecret(m) \in BOOLEAN /\ n \in Nat /\ Mint \in Nat /\ Mint # None
  BY <1>1, Rows DEF usesSecret, Mint
<1>3. client \in Client /\ ValidClient(client) /\ client.disabled = FALSE
  BY Zenon, <1>2 DEF Client, ValidClient, validateClientInput
<1>4. seen' = [Held(seen, new) EXCEPT !.minted = @ + n, !.disabled = @ /\ row # None]
  BY DEF createClientHandler
<1> HIDE DEF client, n
<1>5. new \in Client \cup {None} /\ new \in RowOf(table) \cup {None}
  BY <1>0, <1>1, <1>3, Rows
<1>6. new # None => ValidClient(new) /\ new.disabled = (seen.disabled /\ row # None)
  BY Zenon, <1>1, <1>3 DEF Seen
<1> HIDE DEF new
<1>7. /\ seen' \in Seen /\ seen'.recent = seen.recent \cup {new}
      /\ seen'.disabled = (seen.disabled /\ row # None)
  <2>1. PICK s : s = Held(seen, new)
    OBVIOUS
  <2>2. s \in Seen /\ s.recent = seen.recent \cup {new} /\ s.disabled = seen.disabled
    BY <1>1, <1>5, <2>1, HeldTyped
  <2>3. seen' = [s EXCEPT !.minted = @ + n, !.disabled = @ /\ row # None]
    BY <1>4, <2>1
  <2>4. PICK b \in BOOLEAN : b = (seen.disabled /\ row # None)
    BY Zenon
  <2>5. PICK k \in Nat : k = s.minted + n
    BY <1>2, <2>2 DEF Seen
  <2>6. seen' = [s EXCEPT !.minted = k, !.disabled = b]
    BY <2>2, <2>3, <2>4, <2>5
  <2>7. seen' \in Seen /\ seen'.recent = s.recent /\ seen'.disabled = b
    <3> DEFINE t == [s EXCEPT !.minted = k, !.disabled = b]
    <3>1. s \in Seen
      BY <2>2
    <3>2. t \in Seen /\ t.recent = s.recent /\ t.disabled = b
      BY Zenon, <2>4, <2>5, <3>1 DEF Seen
    <3> QED  BY Zenon, <2>6, <3>2
  <2> QED  BY <2>2, <2>4, <2>7
<1> QED  BY <1>0, <1>5, <1>6, <1>7, ClientWriteKeeps

\* The patch that is going to be written is valid as a whole.
LEMMA PatchClientKeeps ==
    ASSUME Inv, NEW p \in Procs, NEW m \in Methods, NEW keys \in BOOLEAN,
           patchClientHandler(p, m, keys)
    PROVE  Inv'
<1> DEFINE new == [row EXCEPT !.method = m, !.keys = keys,
                              !.client_secret_hash = secretHash(row, m)]
           n == IF usesSecret(m) /\ row.client_secret_hash = None THEN 1 ELSE 0
<1>0. /\ table = "clients" /\ row # None /\ validateClientInput(m, keys)
      /\ Begin(p, "updateClient", new) /\ Minted(n)
  BY DEF patchClientHandler
<1>1. row \in Client /\ seen \in Seen /\ seen.minted \in Nat
  BY <1>0, ClientRow DEF Seen
<1>2. /\ secretHash(row, m) \in Nat \cup {None}
      /\ usesSecret(m) => secretHash(row, m) # None
  BY <1>1, Rows DEF secretHash, Client, Mint
<1>3. new \in Client /\ new.method = m /\ new.keys = keys /\ new.client_secret_hash = secretHash(row, m)
  BY Zenon, <1>1, <1>2 DEF Client
<1>4. ValidClient(new)
  BY <1>0, <1>2, <1>3 DEF ValidClient
<1>5. n \in Nat
  OBVIOUS
<1> HIDE DEF new, n
<1>6. CallOk([op |-> "updateClient", old |-> row, new |-> new])
  BY <1>0, <1>3, <1>4 DEF CallOk
<1>7. /\ seen' \in Seen /\ seen'.recent = seen.recent /\ seen'.disabled = seen.disabled
      /\ seen'.overlapped = seen.overlapped
  BY <1>0, <1>1, <1>5 DEF Minted, Seen
<1> QED  BY <1>0, <1>6, <1>7, BeginKeeps DEF Seen

\* The patch is written, but for disabled_at.
LEMMA UpdateClientKeeps == ASSUME Inv, NEW p \in Procs, updateClient(p) PROVE Inv'
<1> DEFINE new == IF row = None THEN None ELSE updateClientRow(row, call[p].new)
<1>0. /\ call[p].op = "updateClient" /\ Write(p, new) /\ UNCHANGED cached
      /\ seen' = Held(seen, new)
  BY DEF updateClient, Finish, Remember
<1>1. PICK c : c = call[p].new
  OBVIOUS
<1>2. table = "clients" /\ c \in Client /\ ValidClient(c)
  BY <1>0, <1>1 DEF Inv, IInv, CallOk
<1>3. /\ row \in Client \cup {None} /\ seen \in Seen
      /\ row # None => row \in Client /\ ValidClient(row) /\ row.disabled = seen.disabled
  BY <1>2, ClientRow
<1>4. /\ new \in Client \cup {None}
      /\ new # None => ValidClient(new) /\ new.disabled = seen.disabled
  <2>1. CASE row # None
    <3>1. new = [c EXCEPT !.disabled = row.disabled]
      BY <1>1, <2>1 DEF updateClientRow
    <3>2. row.disabled \in BOOLEAN /\ row.disabled = seen.disabled
      BY <1>3, <2>1 DEF Client
    <3> HIDE DEF new
    <3>3. /\ new \in Client /\ new.disabled = seen.disabled /\ new.method = c.method
          /\ new.keys = c.keys /\ new.client_secret_hash = c.client_secret_hash
      BY <1>2, <3>1, <3>2 DEF Client
    <3> QED  BY <1>2, <3>3 DEF ValidClient
  <2> QED  BY <2>1
<1> HIDE DEF new
<1>5. new \in RowOf(table) \cup {None}
  BY <1>2, <1>4, Rows
<1>6. /\ seen' \in Seen /\ seen'.recent = seen.recent \cup {new} /\ seen'.disabled = seen.disabled
  BY <1>0, <1>3, <1>5, HeldTyped
<1> QED  BY <1>0, <1>2, <1>4, <1>6, ClientWriteKeeps

\* A secret is rotated.
LEMMA RotateSecretKeeps == ASSUME Inv, NEW p \in Procs, rotateSecretHandler(p) PROVE Inv'
<1>0. table = "clients" /\ Begin(p, "updateClientSecretHash", Mint) /\ Minted(1)
  BY DEF rotateSecretHandler
<1>1. seen \in Seen /\ seen.minted \in Nat /\ Mint \in Nat
  BY <1>0, ClientRow DEF Seen, Mint
<1>2. CallOk([op |-> "updateClientSecretHash", old |-> row, new |-> Mint])
  BY <1>0, <1>1 DEF CallOk
<1>3. /\ seen' \in Seen /\ seen'.recent = seen.recent /\ seen'.disabled = seen.disabled
      /\ seen'.overlapped = seen.overlapped
  BY <1>0, <1>1 DEF Minted, Seen
<1> QED  BY <1>0, <1>2, <1>3, BeginKeeps DEF Seen

\* Its hash is written, whatever the method is by then.
LEMMA UpdateSecretKeeps == ASSUME Inv, NEW p \in Procs, updateClientSecretHash(p) PROVE Inv'
<1> DEFINE new == IF row = None THEN None ELSE [row EXCEPT !.client_secret_hash = call[p].new]
<1>0. /\ call[p].op = "updateClientSecretHash" /\ Write(p, new) /\ UNCHANGED cached
      /\ seen' = Held(seen, new)
  BY DEF updateClientSecretHash, Finish, Remember
<1>1. PICK c : c = call[p].new
  OBVIOUS
<1>2. table = "clients" /\ c \in Nat /\ c # None
  BY <1>0, <1>1, Rows DEF Inv, IInv, CallOk
<1>3. /\ row \in Client \cup {None} /\ seen \in Seen
      /\ row # None => row \in Client /\ ValidClient(row) /\ row.disabled = seen.disabled
  BY <1>2, ClientRow
<1>4. /\ new \in Client \cup {None}
      /\ new # None => ValidClient(new) /\ new.disabled = seen.disabled
  <2>1. CASE row # None
    <3>1. new = [row EXCEPT !.client_secret_hash = c]
      BY <1>1, <2>1
    <3> HIDE DEF new
    <3>2. /\ new \in Client /\ new.disabled = seen.disabled /\ new.method = row.method
          /\ new.keys = row.keys /\ new.client_secret_hash = c
      BY <1>2, <1>3, <2>1, <3>1 DEF Client
    <3> QED  BY <1>2, <1>3, <2>1, <3>2 DEF ValidClient
  <2> QED  BY <2>1
<1> HIDE DEF new
<1>5. new \in RowOf(table) \cup {None}
  BY <1>2, <1>4, Rows
<1>6. /\ seen' \in Seen /\ seen'.recent = seen.recent \cup {new} /\ seen'.disabled = seen.disabled
  BY <1>0, <1>3, <1>5, HeldTyped
<1> QED  BY <1>0, <1>2, <1>4, <1>6, ClientWriteKeeps

\* A client is to be disabled or enabled, or a row deleted.
LEMMA DecisionKeeps ==
    ASSUME Inv, NEW p \in Procs,
           (\E d \in BOOLEAN : setClientDisabledHandler(p, d)) \/ deleteHandler(p)
    PROVE  Inv'
<1>0. seen' = seen /\ seen \in Seen
  BY DEF setClientDisabledHandler, deleteHandler, Inv, TypeOK, Seen
<1>1. ASSUME NEW d \in BOOLEAN, setClientDisabledHandler(p, d) PROVE Inv'
  <2>1. table = "clients" /\ Begin(p, "setClientDisabled", d)
    BY <1>1 DEF setClientDisabledHandler
  <2>2. CallOk([op |-> "setClientDisabled", old |-> row, new |-> d])
    BY <1>1, <2>1 DEF CallOk
  <2> QED  BY <1>0, <2>1, <2>2, BeginKeeps DEF Seen
<1>2. ASSUME deleteHandler(p) PROVE Inv'
  <2>1. table \in {"clients", "upstreams"} /\ Begin(p, "delete", None)
    BY <1>2 DEF deleteHandler
  <2>2. CallOk([op |-> "delete", old |-> row, new |-> None])
    BY <2>1 DEF CallOk
  <2> QED  BY <1>0, <2>1, <2>2, BeginKeeps DEF Seen
<1> QED  BY <1>1, <1>2

\* The decision is written.
LEMMA SetDisabledKeeps == ASSUME Inv, NEW p \in Procs, setClientDisabled(p) PROVE Inv'
<1> DEFINE new == IF row = None THEN None ELSE [row EXCEPT !.disabled = call[p].new]
<1>0. /\ call[p].op = "setClientDisabled" /\ Write(p, new) /\ UNCHANGED cached
      /\ seen' = [Held(seen, new) EXCEPT !.disabled = IF row = None THEN @ ELSE call[p].new]
  BY DEF setClientDisabled, Finish
<1>1. PICK c : c = call[p].new
  OBVIOUS
<1>2. table = "clients" /\ c \in BOOLEAN
  BY <1>0, <1>1 DEF Inv, IInv, CallOk
<1>3. /\ row \in Client \cup {None} /\ seen \in Seen
      /\ row # None => row \in Client /\ ValidClient(row) /\ row.disabled = seen.disabled
  BY <1>2, ClientRow
<1>4. /\ new \in Client \cup {None}
      /\ new # None => row # None /\ ValidClient(new) /\ new.disabled = c
  <2>1. CASE row # None
    <3>1. new = [row EXCEPT !.disabled = c]
      BY <1>1, <2>1
    <3> HIDE DEF new
    <3>2. /\ new \in Client /\ new.disabled = c /\ new.method = row.method
          /\ new.keys = row.keys /\ new.client_secret_hash = row.client_secret_hash
      BY <1>2, <1>3, <2>1, <3>1 DEF Client
    <3> QED  BY <1>3, <2>1, <3>2 DEF ValidClient
  <2> QED  BY <2>1
<1> HIDE DEF new
<1>5. new \in RowOf(table) \cup {None}
  BY <1>2, <1>4, Rows
<1>6. /\ seen' \in Seen /\ seen'.recent = seen.recent \cup {new}
      /\ row # None => seen'.disabled = c
  <2>1. PICK s : s = Held(seen, new)
    OBVIOUS
  <2>2. s \in Seen /\ s.recent = seen.recent \cup {new}
    BY <1>3, <1>5, <2>1, HeldTyped
  <2>3. seen' = [s EXCEPT !.disabled = IF row = None THEN @ ELSE c]
    BY <1>0, <1>1, <2>1
  <2> QED  BY <1>2, <2>2, <2>3 DEF Seen
<1> QED  BY <1>0, <1>2, <1>4, <1>6, ClientWriteKeeps

\* A row is deleted.
LEMMA DeleteKeeps == ASSUME Inv, NEW p \in Procs, deleteRow(p) PROVE Inv'
<1>0. /\ call[p].op = "delete" /\ Write(p, None) /\ UNCHANGED cached /\ seen' = Held(seen, None)
      /\ row' = None
  BY DEF deleteRow, Finish, Remember, Write
<1>1. table \in {"clients", "upstreams"} /\ seen \in Seen
  BY <1>0 DEF Inv, IInv, CallOk, TypeOK, Seen
<1>2. seen' \in Seen /\ seen'.recent = seen.recent \cup {None}
  BY <1>0, <1>1, HeldTyped
<1>3. DisabledAsDecided' /\ StoredIsValid'
  BY <1>0 DEF DisabledAsDecided, StoredIsValid
<1> QED  BY <1>0, <1>1, <1>2, <1>3, WriteKeeps DEF Seen

-----------------------------------------------------------------------------
(* Upstreams.                                                              *)

\* A statement on an upstream leaves the credential of its method, or the
\* exception is on record.
LEMMA UpstreamWriteKeeps ==
    ASSUME Inv, table = "upstreams", NEW p \in Procs, NEW new \in Upstream \cup {None},
           Write(p, new), UNCHANGED cached, seen' \in Seen, seen'.recent = seen.recent \cup {new},
           new # None => seen'.overlapped \/ validateUpstreamInput(new)
    PROVE  Inv'
<1>1. table' = "upstreams" /\ row' = new
  BY DEF Write
<1>2. DisabledAsDecided' /\ StoredIsValid'
  BY <1>1 DEF DisabledAsDecided, StoredIsValid
<1> QED  BY <1>2, Rows, WriteKeeps DEF Seen

\* What is known of an upstream's row.
LEMMA UpstreamRow ==
    ASSUME Inv, table = "upstreams"
    PROVE  /\ row \in Upstream \cup {None} /\ seen \in Seen
           /\ row # None => row \in Upstream /\ (seen.overlapped \/ validateUpstreamInput(row))
BY Rows DEF Inv, TypeOK, IInv, StoredIsValid, Seen

\* What an admin entered is an upstream.
LEMMA PrepareTyped ==
    ASSUME NEW current \in Upstream \cup {None}, NEW m \in Methods, NEW e, seen.minted \in Nat
    PROVE  prepare(current, m, e) \in Upstream
<1> DEFINE kept(f) == IF current # None /\ (usesSecret(m) <=> f = "client_secret_enc")
                      THEN current[f] ELSE None
           blob(f) == IF f \in e THEN [secret |-> Mint, version |-> "active"] ELSE kept(f)
<1>1. [secret |-> Mint, version |-> "active"] \in Blob
  BY DEF Mint, Blob
<1>2. /\ kept("client_secret_enc") \in Blob \cup {None}
      /\ kept("client_jwk_enc") \in Blob \cup {None}
  BY DEF Upstream
<1>3. PICK secret, jwk : secret = blob("client_secret_enc") /\ jwk = blob("client_jwk_enc")
  BY Zenon
<1>4. secret \in Blob \cup {None} /\ jwk \in Blob \cup {None}
  BY Zenon, <1>1, <1>2, <1>3
<1>5. prepare(current, m, e) = [method |-> m, client_secret_enc |-> secret, client_jwk_enc |-> jwk]
  BY Zenon, <1>3 DEF prepare
<1> QED  BY <1>4, <1>5 DEF Upstream

\* createUpstream.
LEMMA CreateUpstreamKeeps ==
    ASSUME Inv, NEW p \in Procs, NEW m \in Methods, NEW e \in Entries,
           createUpstreamHandler(p, m, e)
    PROVE  Inv'
<1>1. PICK u : u = prepare(None, m, e)
  OBVIOUS
<1> DEFINE new == IF row = None THEN u ELSE row
<1>0. /\ table = "upstreams" /\ validateUpstreamInput(u) /\ Write(p, new) /\ UNCHANGED cached
      /\ seen' = [Held(seen, new) EXCEPT !.minted = @ + Drawn(e)]
  BY Zenon, <1>1 DEF createUpstreamHandler
<1>2. /\ row \in Upstream \cup {None} /\ seen \in Seen /\ seen.minted \in Nat
      /\ row # None => row \in Upstream /\ (seen.overlapped \/ validateUpstreamInput(row))
  BY <1>0, UpstreamRow DEF Seen
<1>3. u \in Upstream /\ Drawn(e) \in Nat
  BY <1>1, <1>2, PrepareTyped DEF Drawn
<1>4. /\ new \in Upstream \cup {None} /\ new \in RowOf(table) \cup {None}
      /\ new # None => seen.overlapped \/ validateUpstreamInput(new)
  BY <1>0, <1>2, <1>3, Rows
<1> HIDE DEF new
<1>5. /\ seen' \in Seen /\ seen'.recent = seen.recent \cup {new}
      /\ seen'.overlapped = seen.overlapped
  <2>1. PICK s : s = Held(seen, new)
    OBVIOUS
  <2>2. s \in Seen /\ s.recent = seen.recent \cup {new} /\ s.overlapped = seen.overlapped
    BY <1>2, <1>4, <2>1, HeldTyped
  <2>3. seen' = [s EXCEPT !.minted = @ + Drawn(e)]
    BY <1>0, <2>1
  <2> QED  BY <1>3, <2>2, <2>3 DEF Seen
<1> QED  BY <1>0, <1>4, <1>5, UpstreamWriteKeeps

\* The upstream that is going to be written is valid as a whole.
LEMMA PatchUpstreamKeeps ==
    ASSUME Inv, NEW p \in Procs, NEW m \in Methods, NEW e \in Entries,
           patchUpstreamHandler(p, m, e)
    PROVE  Inv'
<1>1. PICK u : u = prepare(row, m, e)
  OBVIOUS
<1>2. /\ table = "upstreams" /\ validateUpstreamInput(u) /\ Begin(p, "updateUpstream", u)
      /\ seen' = [seen EXCEPT !.minted = @ + Drawn(e)]
  BY Zenon, <1>1 DEF patchUpstreamHandler, Minted
<1>3. row \in Upstream \cup {None} /\ seen \in Seen /\ seen.minted \in Nat
  BY <1>2, UpstreamRow DEF Seen
<1>4. u \in Upstream /\ Drawn(e) \in Nat
  BY <1>1, <1>3, PrepareTyped DEF Drawn
<1>5. CallOk([op |-> "updateUpstream", old |-> row, new |-> u])
  BY <1>2, <1>4 DEF CallOk
<1>6. /\ seen' \in Seen /\ seen'.recent = seen.recent /\ seen'.disabled = seen.disabled
      /\ seen'.overlapped = seen.overlapped
  BY <1>2, <1>3, <1>4 DEF Seen
<1> QED  BY <1>2, <1>5, <1>6, BeginKeeps DEF Seen

\* It is written.
LEMMA UpdateUpstreamKeeps == ASSUME Inv, NEW p \in Procs, updateUpstream(p) PROVE Inv'
<1>1. PICK c : c = call[p].new
  OBVIOUS
<1> DEFINE new == IF row = None THEN None ELSE c
<1>0. /\ call[p].op = "updateUpstream" /\ Write(p, new) /\ UNCHANGED cached
      /\ seen' = Held(seen, new)
  BY <1>1 DEF updateUpstream, Finish, Remember
<1>2. table = "upstreams" /\ c \in Upstream /\ validateUpstreamInput(c)
  BY Zenon, <1>0, <1>1 DEF Inv, IInv, CallOk
<1>3. seen \in Seen
  BY <1>2, UpstreamRow
<1>4. /\ new \in Upstream \cup {None} /\ new \in RowOf(table) \cup {None}
      /\ new # None => validateUpstreamInput(new)
  BY <1>2, Rows
<1> HIDE DEF new
<1>5. /\ seen' \in Seen /\ seen'.recent = seen.recent \cup {new}
  BY <1>0, <1>3, <1>4, HeldTyped
<1> QED  BY <1>0, <1>2, <1>4, <1>5, UpstreamWriteKeeps

\* A sealed blob that is sealed again is a blob, and the absence of one stays.
LEMMA ResealTyped ==
    ASSUME NEW b \in Blob \cup {None}
    PROVE  Reseal(b) \in Blob \cup {None} /\ (Reseal(b) = None <=> b = None)
<1>1. CASE b = None
  BY <1>1 DEF Reseal
<1>2. CASE b # None
  <2>1. Reseal(b) = [b EXCEPT !.version = "active"] /\ b \in Blob
    BY <1>2 DEF Reseal
  <2>2. Reseal(b) \in Blob
    BY <2>1 DEF Blob
  <2> QED  BY <1>2, <2>2, Rows
<1> QED  BY <1>1, <1>2

\* rekeyUpstreams lists an upstream.
LEMMA ListSealedKeeps == ASSUME Inv, NEW p \in Procs, listSealedUpstreams(p) PROVE Inv'
<1> DEFINE new == [row EXCEPT !.client_secret_enc = Reseal(@), !.client_jwk_enc = Reseal(@)]
<1>1. /\ table = "upstreams" /\ row # None /\ Begin(p, "updateUpstreamSecrets", new) /\ seen' = seen
  BY DEF listSealedUpstreams
<1>2. row \in Upstream /\ seen \in Seen
  BY <1>1, UpstreamRow
<1>3. /\ Reseal(row.client_secret_enc) \in Blob \cup {None}
      /\ Reseal(row.client_jwk_enc) \in Blob \cup {None}
  BY <1>2, ResealTyped DEF Upstream
<1>4. /\ new \in Upstream /\ new.client_secret_enc = Reseal(row.client_secret_enc)
      /\ new.client_jwk_enc = Reseal(row.client_jwk_enc)
  BY Zenon, <1>2, <1>3 DEF Upstream
<1> HIDE DEF new
<1>5. CallOk([op |-> "updateUpstreamSecrets", old |-> row, new |-> new])
  BY <1>1, <1>2, <1>4 DEF CallOk
<1> QED  BY <1>1, <1>2, <1>5, BeginKeeps DEF Seen

\* The blobs of the row that was listed are written back: the row is the one
\* listed, and stays valid, or the overlap is on record.
LEMMA UpdateSecretsKeeps == ASSUME Inv, NEW p \in Procs, updateUpstreamSecrets(p) PROVE Inv'
<1>1. PICK c, old : c = call[p].new /\ old = call[p].old
  OBVIOUS
<1> DEFINE new == IF row = None THEN None
                  ELSE [row EXCEPT !.client_secret_enc = c.client_secret_enc,
                                   !.client_jwk_enc = c.client_jwk_enc]
<1>0. /\ call[p].op = "updateUpstreamSecrets" /\ Write(p, new) /\ UNCHANGED cached
      /\ seen' = [Held(seen, new) EXCEPT !.overlapped = @ \/ row # old]
  BY Zenon, <1>1 DEF updateUpstreamSecrets, Finish
<1>2. /\ table = "upstreams" /\ old \in Upstream /\ c \in Upstream
      /\ c.client_secret_enc = Reseal(old.client_secret_enc)
      /\ c.client_jwk_enc = Reseal(old.client_jwk_enc)
  BY Zenon, <1>0, <1>1 DEF Inv, IInv, CallOk
<1>3. /\ row \in Upstream \cup {None} /\ seen \in Seen
      /\ row # None => row \in Upstream /\ (seen.overlapped \/ validateUpstreamInput(row))
  BY <1>2, UpstreamRow
<1>4. /\ new \in Upstream \cup {None}
      /\ new # None => row \in Upstream /\ new.method = row.method
                       /\ new.client_secret_enc = c.client_secret_enc
                       /\ new.client_jwk_enc = c.client_jwk_enc
  BY Zenon, <1>2, <1>3 DEF Upstream
<1>5. new # None => row # None
  OBVIOUS
<1> HIDE DEF new
<1>6. ASSUME new # None, row = old, validateUpstreamInput(row) PROVE validateUpstreamInput(new)
  <2>1. /\ Reseal(old.client_secret_enc) = None <=> old.client_secret_enc = None
        /\ Reseal(old.client_jwk_enc) = None <=> old.client_jwk_enc = None
    BY <1>2, ResealTyped DEF Upstream
  <2> QED  BY <1>2, <1>4, <1>6, <2>1 DEF validateUpstreamInput
<1>7. new \in RowOf(table) \cup {None}
  BY <1>2, <1>4, Rows
<1>8. PICK b \in BOOLEAN : b = (seen.overlapped \/ row # old)
  BY Zenon
<1>9. /\ seen' \in Seen /\ seen'.recent = seen.recent \cup {new} /\ seen'.overlapped = b
  <2>1. PICK s : s = Held(seen, new)
    OBVIOUS
  <2>2. s \in Seen /\ s.recent = seen.recent \cup {new} /\ s.overlapped = seen.overlapped
    BY <1>3, <1>7, <2>1, HeldTyped
  <2>3. seen' = [s EXCEPT !.overlapped = b]
    BY <1>0, <1>8, <2>1, <2>2
  <2> QED  BY Zenon, <1>8, <2>2, <2>3, SeenOverlapped
<1>10. new # None => seen'.overlapped \/ validateUpstreamInput(new)
  BY Zenon, <1>3, <1>5, <1>6, <1>8, <1>9
<1> QED  BY <1>0, <1>2, <1>4, <1>9, <1>10, UpstreamWriteKeeps

-----------------------------------------------------------------------------
(* Settings.                                                               *)

\* What is known of the settings' rows.
LEMMA SettingsRow ==
    ASSUME Inv, table = "settings"
    PROVE  /\ row \in Settings /\ row # None /\ seen \in Seen
           /\ seen.overlapped \/ resolveSettings(row)
BY Rows DEF Inv, TypeOK, IInv, StoredIsValid, Seen

\* A patch is accepted when the whole validates.
LEMMA PatchSettingsKeeps ==
    ASSUME Inv, NEW p \in Procs, NEW named \in SUBSET Keys,
           NEW patch \in [named -> Values \cup {None}], patchSettingsHandler(p, patch)
    PROVE  Inv'
<1>1. /\ table = "settings" /\ Validated(row, patch) /\ Begin(p, "writeSettings", patch)
      /\ seen' = seen
  BY DEF patchSettingsHandler
<1>2. seen \in Seen
  BY <1>1, SettingsRow
<1>3. DOMAIN patch \subseteq Keys /\ \A k \in DOMAIN patch : patch[k] \in Values \cup {None}
  OBVIOUS
<1>4. CallOk([op |-> "writeSettings", old |-> row, new |-> patch])
  BY Zenon, <1>1, <1>3 DEF CallOk
<1> QED  BY <1>1, <1>2, <1>4, BeginKeeps DEF Seen

\* The keys of the patch are written.
LEMMA WriteSettingsKeeps == ASSUME Inv, NEW p \in Procs, writeSettings(p) PROVE Inv'
<1>1. PICK c, old : c = call[p].new /\ old = call[p].old
  OBVIOUS
<1>2. PICK new : new = Merged(row, c)
  OBVIOUS
<1>3. /\ call[p].op = "writeSettings" /\ Write(p, new) /\ cached' \in {None, cached}
      /\ seen' = [Held(seen, new) EXCEPT !.overlapped = @ \/ row # old]
  BY Zenon, <1>1, <1>2 DEF writeSettings
<1>4. /\ table = "settings" /\ Validated(old, c)
      /\ DOMAIN c \subseteq Keys /\ \A k \in DOMAIN c : c[k] \in Values \cup {None}
  BY <1>1, <1>3 DEF Inv, IInv, CallOk
<1>5. row \in Settings /\ seen \in Seen
  BY <1>4, SettingsRow
<1>6. new \in Settings /\ new # None /\ new \in RowOf(table) \cup {None}
  BY <1>2, <1>4, <1>5, Rows DEF Merged, Settings
<1>7. row = old => resolveSettings(new)
  BY <1>2, <1>4 DEF Validated
<1>8. PICK b \in BOOLEAN : b = (seen.overlapped \/ row # old)
  BY Zenon
<1>9. /\ seen' \in Seen /\ seen'.recent = seen.recent \cup {new} /\ seen'.overlapped = b
  <2>1. PICK s : s = Held(seen, new)
    OBVIOUS
  <2>2. s \in Seen /\ s.recent = seen.recent \cup {new} /\ s.overlapped = seen.overlapped
    BY <1>5, <1>6, <2>1, HeldTyped
  <2>3. seen' = [s EXCEPT !.overlapped = b]
    BY <1>3, <1>8, <2>1, <2>2
  <2> QED  BY Zenon, <1>8, <2>2, <2>3, SeenOverlapped
<1>10. table' = "settings" /\ row' = new
  BY <1>3, <1>4 DEF Write
<1>11. DisabledAsDecided' /\ StoredIsValid'
  BY Zenon, <1>7, <1>8, <1>9, <1>10 DEF DisabledAsDecided, StoredIsValid
<1> QED  BY <1>3, <1>6, <1>9, <1>11, WriteKeeps DEF Seen

-----------------------------------------------------------------------------
(* The cache.                                                              *)

\* What is stored is not touched by a step of the cache.
LEMMA CacheKeeps ==
    ASSUME Inv, UNCHANGED <<clock, table, row, call, seen>>, read' = [r \in Reads |-> read'[r]],
           cached' # None => Recent(cached'.at, cached'.record),
           \A r \in Reads : read'[r] # NoRead => Recent(read'[r].now, read'[r].record)
    PROVE  Inv'
<1>1. TypeOK'
  BY DEF Inv, TypeOK
<1>2. \A p \in Procs : CallOk(call[p])'
  BY Zenon DEF Inv, IInv, CallOk
<1>3. DisabledAsDecided' /\ StoredIsValid' /\ row' \in seen'.recent
  BY Zenon DEF Inv, IInv, DisabledAsDecided, StoredIsValid
<1>4. \A at, record : Recent(at, record) => Recent(at, record)'
  BY DEF Recent
<1>5. /\ cached' # None => Recent(cached.at, cached.record)'
      /\ \A r \in Reads : read'[r] # NoRead => Recent(read[r].now, read[r].record)'
  BY <1>4 DEF Recent
<1> QED  BY <1>1, <1>2, <1>3, <1>5 DEF Inv, IInv

\* A read begins, dated now.
LEMMA GetKeeps == ASSUME Inv, NEW r \in Reads, get(r) PROVE Inv'
<1>1. PICK e : e = [kind |-> IF Fresh(cached) THEN "refresher" ELSE "loading", now |-> clock,
                    record |-> row]
  BY Zenon
<1>2. read' = [read EXCEPT ![r] = e] /\ UNCHANGED <<clock, table, row, cached, call, seen>>
  BY Zenon, <1>1 DEF get
<1>3. Recent(e.now, e.record)
  BY <1>1 DEF Inv, TypeOK, IInv, Recent
<1>4. /\ read' = [q \in Reads |-> read'[q]]
      /\ \A q \in Reads : read'[q] = read[q] \/ read'[q] = e
  BY <1>2 DEF Inv, TypeOK
<1>5. \A q \in Reads : read'[q] # NoRead => Recent(read'[q].now, read'[q].record)
  BY <1>3, <1>4 DEF Inv, IInv
<1>6. cached' # None => Recent(cached'.at, cached'.record)
  BY <1>2 DEF Inv, IInv
<1> QED  BY <1>2, <1>4, <1>5, <1>6, CacheKeeps

\* A read is answered, in whatever order, or fails.
LEMMA AnswerKeeps == ASSUME Inv, NEW r \in Reads, refresh(r) \/ readFails(r) PROVE Inv'
<1>1. /\ read' = [read EXCEPT ![r] = NoRead] /\ UNCHANGED <<clock, table, row, call, seen>>
      /\ read[r] # NoRead /\ cached' \in {cached, entryOf(r)}
  BY DEF refresh, readFails
<1>2. /\ read' = [q \in Reads |-> read'[q]]
      /\ \A q \in Reads : read'[q] = read[q] \/ read'[q] = NoRead
  BY <1>1 DEF Inv, TypeOK
<1>3. \A q \in Reads : read'[q] # NoRead => Recent(read'[q].now, read'[q].record)
  BY <1>2 DEF Inv, IInv
<1>4. entryOf(r).at = read[r].now /\ entryOf(r).record = read[r].record
  BY DEF entryOf
<1>5. Recent(entryOf(r).at, entryOf(r).record)
  BY Zenon, <1>1, <1>4 DEF Inv, IInv
<1>6. cached' # None => Recent(cached'.at, cached'.record)
  BY <1>1, <1>5 DEF Inv, IInv
<1> QED  BY <1>1, <1>2, <1>3, <1>6, CacheKeeps

\* An entry is evicted.
LEMMA TouchKeeps == ASSUME Inv, touch PROVE Inv'
BY Zenon, CacheKeeps DEF touch, Inv, TypeOK, IInv

\* A tick: nothing that was read before it is dated with the new time.
LEMMA TickKeeps == ASSUME Inv, Tick PROVE Inv'
<1>1. /\ UNCHANGED <<table, row, cached, read, call>> /\ clock \in Nat /\ clock' = clock + 1
      /\ seen' = [seen EXCEPT !.recent = {row}] /\ seen \in Seen /\ row \in RowOf(table) \cup {None}
  BY DEF Tick, Inv, TypeOK, Seen
<1>2. /\ seen' \in Seen /\ seen'.recent = {row} /\ seen'.disabled = seen.disabled
      /\ seen'.overlapped = seen.overlapped
  BY <1>1 DEF Seen
<1>3. TypeOK'
  BY <1>1, <1>2 DEF Inv, TypeOK, Seen
<1>4. \A p \in Procs : CallOk(call[p])'
  BY Zenon, <1>1 DEF Inv, IInv, CallOk
<1>5. DisabledAsDecided' /\ StoredIsValid' /\ row' \in seen'.recent
  BY Zenon, <1>1, <1>2 DEF Inv, IInv, DisabledAsDecided, StoredIsValid
<1>6. \A at, record : Recent(at, record) => Recent(at, record)'
  BY <1>1 DEF Recent
<1>7. /\ cached' # None => Recent(cached.at, cached.record)'
      /\ \A r \in Reads : read'[r] # NoRead => Recent(read[r].now, read[r].record)'
  BY <1>1, <1>6 DEF Inv, IInv, Recent
<1> QED  BY <1>3, <1>4, <1>5, <1>7 DEF Inv, IInv

-----------------------------------------------------------------------------
(* The theorems.                                                           *)

\* The invariant holds initially.
LEMMA InitInv == ASSUME Init PROVE Inv
<1>1. row \in FirstRow(table) /\ table \in {"clients", "upstreams", "settings"}
  BY DEF Init
<1>2. row \in RowOf(table) \cup {None} /\ (table = "settings" => row # None)
  <2>1. CASE table = "clients"
    BY Zenon, <1>1, <2>1, Rows DEF FirstRow, Client, Methods
  <2>2. CASE table = "upstreams"
    BY Zenon, <1>1, <2>2, Rows DEF FirstRow, Upstream, Blob, Methods
  <2>3. CASE table = "settings"
    BY <1>1, <2>3, Rows DEF FirstRow, Settings
  <2> QED  BY <1>1, <2>1, <2>2, <2>3
<1>3. StoredIsValid /\ DisabledAsDecided
  <2>1. CASE table = "clients"
    <3>1. row = None \/ /\ row.method = "client_secret_basic" /\ row.client_secret_hash = 1
                        /\ row.keys = FALSE /\ row.disabled = FALSE
      BY <1>1, <2>1 DEF FirstRow
    <3>2. seen.disabled = FALSE /\ 1 # None
      BY Rows DEF Init
    <3> QED  BY Zenon, <2>1, <3>1, <3>2 DEF StoredIsValid, DisabledAsDecided, usesSecret,
                validateClientInput
  <2>2. CASE table = "upstreams"
    BY <1>1, <2>2, Rows DEF FirstRow, StoredIsValid, DisabledAsDecided, usesSecret,
       validateUpstreamInput, Blob
  <2>3. CASE table = "settings"
    <3>1. row = [k \in Keys |-> None]
      BY <1>1, <2>3 DEF FirstRow
    <3>2. resolveSettings(row)
      BY <3>1 DEF resolveSettings, Effective, Default, Keys
    <3> QED  BY <2>3, <3>2 DEF StoredIsValid, DisabledAsDecided
  <2> QED  BY <1>1, <2>1, <2>2, <2>3
<1>4. \A p \in Procs : CallOk(call[p])
  BY DEF Init, CallOk, Idle
<1>5. TypeOK
  BY <1>1, <1>2 DEF Init, TypeOK
<1> QED  BY <1>3, <1>4, <1>5 DEF Init, Inv, IInv

\* Every step keeps it.
LEMMA NextKeeps == ASSUME Inv, [Next]_vars PROVE Inv'
<1>1. ASSUME NEW p \in Procs, ClientNext(p) PROVE Inv'
  BY <1>1, CreateClientKeeps, PatchClientKeeps, UpdateClientKeeps, RotateSecretKeeps,
     UpdateSecretKeeps, DecisionKeeps, SetDisabledKeeps, DeleteKeeps DEF ClientNext
<1>2. ASSUME NEW p \in Procs, UpstreamNext(p) PROVE Inv'
  BY <1>2, CreateUpstreamKeeps, PatchUpstreamKeeps, UpdateUpstreamKeeps, ListSealedKeeps,
     UpdateSecretsKeeps DEF UpstreamNext
<1>3. ASSUME NEW p \in Procs, SettingsNext(p) PROVE Inv'
  BY <1>3, PatchSettingsKeeps, WriteSettingsKeeps DEF SettingsNext
<1>4. ASSUME CacheNext PROVE Inv'
  BY <1>4, GetKeeps, AnswerKeeps, TouchKeeps DEF CacheNext
<1>5. ASSUME UNCHANGED vars PROVE Inv'
  BY Zenon, <1>5, CacheKeeps DEF vars, Inv, TypeOK, IInv
<1> QED  BY <1>1, <1>2, <1>3, <1>4, <1>5, TickKeeps DEF Next

\* The inductive invariant holds of every state, whatever requests overlap.
THEOREM InvariantHolds == Spec => []Inv
<1>1. Init => Inv
  BY InitInv
<1>2. Inv /\ [Next]_vars => Inv'
  BY NextKeeps
<1> QED  BY <1>1, <1>2, PTL DEF Spec

\* A request served from an isolate's cache acts on what D1 held within the
\* last TTL, for any number of reads answered in any order.
THEOREM CacheIsRecent == Spec => []ServedIsRecent
<1>1. Inv => ServedIsRecent
  <2> SUFFICES ASSUME Inv, Fresh(cached) PROVE cached.record \in seen.recent
    BY DEF ServedIsRecent
  <2>1. cached # None /\ clock - cached.at < 1
    BY RegistryAssumption DEF Fresh
  <2> QED  BY <2>1 DEF Inv, TypeOK, IInv, Recent
<1> QED  BY <1>1, InvariantHolds, PTL

\* A client is disabled exactly when the last disable or enable said so, for
\* any number of overlapping admin requests.
THEOREM DisableIsKept == Spec => []DisabledAsDecided
<1>1. Inv => DisabledAsDecided
  BY DEF Inv, IInv
<1> QED  BY <1>1, InvariantHolds, PTL

\* What is stored is valid, for any number of overlapping admin requests, but
\* for the two writes the property excepts.
THEOREM StoredValid == Spec => []StoredIsValid
<1>1. Inv => StoredIsValid
  BY DEF Inv, IInv
<1> QED  BY <1>1, InvariantHolds, PTL
=============================================================================
