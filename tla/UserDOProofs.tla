---------------------------- MODULE UserDOProofs ----------------------------
(* Machine-checked theorems about UserDO, for every value of its constants. *)
EXTENDS UserDO, FiniteSetTheorems, WellFoundedInduction, TLAPS

-----------------------------------------------------------------------------
(* Operations on tables.                                                   *)

\* Deleting rows keeps a table well formed.
LEMMA RestrictTable ==
    ASSUME NEW t, NEW Keys, NEW Row, IsTable(t, Keys, Row), NEW S, S \subseteq DOMAIN t
    PROVE  /\ IsTable(Restrict(t, S), Keys, Row)
           /\ DOMAIN Restrict(t, S) = S
           /\ \A k \in S : Restrict(t, S)[k] = t[k]
  BY DEF IsTable, Restrict

\* Inserting or replacing a row keeps a table well formed.
LEMMA PutTable ==
    ASSUME NEW t, NEW Keys, NEW Row, IsTable(t, Keys, Row),
           NEW k \in Keys, NEW row \in Row
    PROVE  /\ IsTable(Put(t, k, row), Keys, Row)
           /\ DOMAIN Put(t, k, row) = DOMAIN t \cup {k}
           /\ Put(t, k, row)[k] = row
           /\ \A j \in DOMAIN t : j # k => Put(t, k, row)[j] = t[j]
  BY DEF IsTable, Put

\* Revoking session rows keeps them session rows.
LEMMA RevokedSessions ==
    ASSUME NEW t, IsTable(t, Sids, Session), NEW ks, NEW now \in Nat
    PROVE  /\ IsTable(Revoked(t, ks, now), Sids, Session)
           /\ DOMAIN Revoked(t, ks, now) = DOMAIN t
  BY DEF IsTable, Revoked, Session, Unrevoked

\* The same for family rows.
LEMMA RevokedFamilies ==
    ASSUME NEW t, IsTable(t, Families, Family), NEW ks, NEW now \in Nat
    PROVE  /\ IsTable(Revoked(t, ks, now), Families, Family)
           /\ DOMAIN Revoked(t, ks, now) = DOMAIN t
  <1>1. ASSUME NEW k \in DOMAIN t PROVE Revoked(t, ks, now)[k] \in Family
    BY <1>1 DEF IsTable, Revoked, Family, Unrevoked
  <1> QED BY <1>1 DEF IsTable, Revoked

-----------------------------------------------------------------------------
(* Type correctness.                                                       *)

\* The times handlers carry are times.
LEMMA NowsAreTimes ==
    ASSUME TypeOK, NEW now \in Nows
    PROVE  now \in Nat /\ now <= clock
  BY DEF TypeOK, Nows

\* What the purge leaves is well formed, and is a part of what was there.
LEMMA PurgeTyped ==
    ASSUME TypeOK, NEW now \in Nat, NEW window \in Nat
    PROVE  /\ PurgedAt(now) \in Int
           /\ IsTable(PurgedCodes(now), Codes, Code)
           /\ IsTable(PurgedSessions(now), Sids, Session)
           /\ IsTable(PurgedFamilies(now, window), Families, Family)
           /\ DOMAIN PurgedCodes(now) \subseteq DOMAIN codes
           /\ DOMAIN PurgedSessions(now) \subseteq DOMAIN sessions
           /\ DOMAIN PurgedFamilies(now, window) \subseteq DOMAIN families
           /\ \A c \in DOMAIN PurgedCodes(now) : PurgedCodes(now)[c] = codes[c]
           /\ \A s \in DOMAIN PurgedSessions(now) : PurgedSessions(now)[s] = sessions[s]
           /\ \A f \in DOMAIN PurgedFamilies(now, window) : PurgedFamilies(now, window)[f] =
                [families[f] EXCEPT !.tokens = PurgedTokens(@, now, window)]
  <1>1. PurgedAt(now) \in Int
    BY DEF PurgedAt, TypeOK
  <1>2. /\ IsTable(PurgedCodes(now), Codes, Code)
        /\ DOMAIN PurgedCodes(now) \subseteq DOMAIN codes
        /\ \A c \in DOMAIN PurgedCodes(now) : PurgedCodes(now)[c] = codes[c]
    <2> DEFINE S == {c \in DOMAIN codes : PurgeDue(now) => codes[c].expires_at >= now}
    <2>1. IsTable(codes, Codes, Code) /\ S \subseteq DOMAIN codes
      BY DEF TypeOK
    <2> HIDE DEF S
    <2>2. QED BY <2>1, RestrictTable DEF PurgedCodes, S
  <1>3. /\ IsTable(PurgedSessions(now), Sids, Session)
        /\ DOMAIN PurgedSessions(now) \subseteq DOMAIN sessions
        /\ \A s \in DOMAIN PurgedSessions(now) : PurgedSessions(now)[s] = sessions[s]
    <2> DEFINE S == {s \in DOMAIN sessions : PurgeDue(now) => ~Outdated(sessions[s], now)}
    <2>1. IsTable(sessions, Sids, Session) /\ S \subseteq DOMAIN sessions
      BY DEF TypeOK
    <2> HIDE DEF S
    <2>2. QED BY <2>1, RestrictTable DEF PurgedSessions, S
  <1>4. /\ DOMAIN PurgedFamilies(now, window) \subseteq DOMAIN families
        /\ \A f \in DOMAIN PurgedFamilies(now, window) : PurgedFamilies(now, window)[f] =
                [families[f] EXCEPT !.tokens = PurgedTokens(@, now, window)]
    BY DEF PurgedFamilies
  <1>5. IsTable(PurgedFamilies(now, window), Families, Family)
    <2>1. ASSUME NEW f \in DOMAIN families
          PROVE  [families[f] EXCEPT !.tokens = PurgedTokens(@, now, window)] \in Family
      BY DEF TypeOK, IsTable, Family, PurgedTokens
    <2>2. QED BY <1>4, <2>1 DEF PurgedFamilies, TypeOK, IsTable
  <1>6. QED BY <1>1, <1>2, <1>3, <1>4, <1>5

\* Session rows, as they are created, touched and rotated, are session rows.
LEMMA SessionRowsTyped ==
    ASSUME NEW now \in Nat, NEW row \in Session, NEW client \in ClientIds
    PROVE  /\ NewSession(now) \in Session
           /\ RotatedSession(row, now) \in Session
           /\ Touched(row, now) \in Session
           /\ [row EXCEPT !.clients = @ \cup {client}] \in Session
  <1>1. /\ SessionIdleTtl \in Nat
        /\ SessionAbsoluteTtl \in Nat
        /\ SESSION_TOUCH_INTERVAL_SECONDS \in Nat
    BY TimeAssumption
  <1>2. NewSession(now) \in Session
    BY <1>1 DEF NewSession, Session, Minimum
  <1> DEFINE idle == Minimum(now + SessionIdleTtl, row.absolute_expires_at)
  <1>3. idle \in Nat
    BY <1>1 DEF Session, Minimum
  <1> HIDE DEF idle
  <1>4. [row EXCEPT !.last_seen_at = now, !.idle_expires_at = idle] \in Session
    BY <1>3, Zenon DEF Session
  <1>5. [row EXCEPT !.clients = @ \cup {client}] \in Session
    BY DEF Session
  <1>6. RotatedSession(row, now) \in Session /\ Touched(row, now) \in Session
    BY <1>4 DEF RotatedSession, Touched, idle
  <1>7. QED BY <1>2, <1>5, <1>6

\* Issuing a code keeps the types.
LEMMA IssueCodeTyped ==
    ASSUME TypeOK, NEW now \in Nat, NEW ref \in ClientRefs, NEW scope \in ScopeSets,
           NEW sid \in Sids, NEW code \in Codes, NEW row \in Session,
           IssueCode(code, ref, scope, sid, row, now)
    PROVE  /\ lastPurgeAt' \in Int
           /\ IsTable(sessions', Sids, Session)
           /\ IsTable(codes', Codes, Code)
           /\ IsTable(families', Families, Family)
           /\ minted' \in Minted
  <1>1. ref.client_id \in ClientIds
    BY DEF ClientIds
  <1>2. [client_id |-> ref.client_id, sid |-> sid, scope |-> scope,
         expires_at |-> now + CODE_TTL_SECONDS, consumed |-> FALSE] \in Code
    BY <1>1, TimeAssumption DEF Code, Scopes
  <1>3. Touched([row EXCEPT !.clients = @ \cup {ref.client_id}], now) \in Session
    BY <1>1, SessionRowsTyped
  <1>4. PURGE_GRACE_SECONDS \in Nat
    BY TimeAssumption
  <1>5. minted' \in Minted
    BY Zenon DEF IssueCode, TypeOK, Minted
  <1>6. IsTable(codes', Codes, Code)
    BY <1>2, <1>4, PurgeTyped, PutTable, ZenonT(60) DEF IssueCode
  <1>7. IsTable(sessions', Sids, Session)
    BY <1>3, <1>4, PurgeTyped, PutTable, ZenonT(60) DEF IssueCode
  <1>8. QED BY <1>4, <1>5, <1>6, <1>7, PurgeTyped DEF IssueCode

\* A family as exchangeCode creates it is a family row.
LEMMA NewFamilyTyped ==
    ASSUME NEW code \in Codes, NEW ref \in ClientRefs, NEW row \in Code,
           NEW session \in Session, NEW now \in Nat
    PROVE  NewFamily(code, ref, row, session, now) \in Family
  <1>1. ref.client_id \in ClientIds /\ ref.created_at \in Nat
    BY ClientAssumption DEF ClientIds
  <1>2. RefreshIdleTtl \in Nat /\ RefreshAbsoluteTtl \in Nat
    BY TimeAssumption
  <1>3. /\ session.absolute_expires_at \in Nat
        /\ row.sid \in Sids
        /\ row.scope \in SUBSET Scopes
    BY DEF Session, Code
  <1>4. QED BY <1>1, <1>2, <1>3 DEF NewFamily, Family, Token, Minimum

\* Rotation updates four columns of a family row with values of their type.
LEMMA RotatedFamilyTyped ==
    ASSUME NEW row \in Family, NEW tokens \in SUBSET Token, NEW serial \in Nat,
           NEW consumed \in SUBSET [serial : Nat, at : Nat], NEW idle \in Nat
    PROVE  [row EXCEPT !.tokens = tokens, !.current_serial = serial,
                       !.consumed = consumed, !.idle_expires_at = idle] \in Family
  <1> DEFINE r1 == [row EXCEPT !.tokens = tokens]
             r2 == [r1 EXCEPT !.current_serial = serial]
             r3 == [r2 EXCEPT !.consumed = consumed]
             r4 == [r3 EXCEPT !.idle_expires_at = idle]
  <1>1. [row EXCEPT !.tokens = tokens, !.current_serial = serial,
                    !.consumed = consumed, !.idle_expires_at = idle] = r4
    OBVIOUS
  <1>2. r1 \in Family BY DEF Family
  <1> HIDE DEF r1
  <1>3. r2 \in Family BY <1>2 DEF Family
  <1> HIDE DEF r2
  <1>4. r3 \in Family BY <1>3 DEF Family
  <1> HIDE DEF r3
  <1>5. r4 \in Family BY <1>4 DEF Family
  <1>6. QED BY <1>1, <1>5 DEF r1, r2, r3

\* The windows a purge works with are times.
LEMMA WindowsAreTimes == PURGE_GRACE_SECONDS \in Nat /\ ReuseWindow \in Nat
  BY TimeAssumption

\* The user row, the clock and the purge keep the types.
LEMMA LifecycleTyped ==
    ASSUME TypeOK, LifecycleNext
    PROVE  TypeOK'
  <1> USE DEF tables, history
  <1>1. CASE Tick
    BY <1>1 DEF Tick, TypeOK
  <1>2. CASE Restart
    <2>1. NegInfinity \in Int
      BY TimeAssumption DEF NegInfinity
    <2>2. QED BY <1>2, <2>1, Zenon DEF Restart, TypeOK
  <1>3. ASSUME NEW groups \in SUBSET Groups, InitUser(groups) PROVE TypeOK'
    BY <1>3 DEF InitUser, TypeOK, User
  <1>4. ASSUME NEW groups \in SUBSET Groups, SetGroups(groups) PROVE TypeOK'
    BY <1>4 DEF SetGroups, TypeOK, User
  <1>5. CASE Destroy
    BY <1>5 DEF Destroy, TypeOK, User, NoUser, NoRows, IsTable
  <1>6. CASE Enable
    BY <1>6, Zenon DEF Enable, TypeOK, User
  <1>7. ASSUME NEW now \in Nows, EndEverything(now)
        PROVE  /\ IsTable(sessions', Sids, Session)
               /\ IsTable(families', Families, Family)
               /\ ended' \subseteq Sids
               /\ minted' \in Minted
               /\ consented' \subseteq Consent
    <2>1. now \in Nat BY NowsAreTimes
    <2>2. QED BY <1>7, <2>1, RevokedSessions, RevokedFamilies
              DEF EndEverything, TypeOK, IsTable
  <1>8. ASSUME NEW now \in Nows, Disable(now) PROVE TypeOK'
    BY <1>7, <1>8, Zenon DEF Disable, TypeOK, User
  <1>9. ASSUME NEW now \in Nows, RevokeAll(now) PROVE TypeOK'
    BY <1>7, <1>9 DEF RevokeAll, TypeOK
  <1>10. ASSUME NEW now \in Nows, NEW window \in {PURGE_GRACE_SECONDS, ReuseWindow},
                PurgeOnly(now, window)
         PROVE  TypeOK'
    <2>1. now \in Nat /\ window \in Nat BY WindowsAreTimes, NowsAreTimes
    <2>2. QED BY <1>10, <2>1, PurgeTyped DEF PurgeOnly, Purge, TypeOK
  <1>11. QED BY <1>1, <1>2, <1>3, <1>4, <1>5, <1>6, <1>8, <1>9, <1>10
             DEF LifecycleNext

\* The methods on sessions keep the types.
LEMMA SessionTyped ==
    ASSUME TypeOK, SessionNext
    PROVE  TypeOK'
  <1> USE DEF tables, history
  <1>a. PICK now \in Nows : SessionStep(now)
    BY DEF SessionNext
  <1>0. now \in Nat BY NowsAreTimes, SMTT(60)
  <1>1. ASSUME NEW sid \in Sids, NEW ref \in ClientRefs, NEW scope \in ScopeSets,
               NEW code \in Codes, AuthorizeWithSession(sid, ref, scope, code, now)
        PROVE  TypeOK'
    <2>1. sessions[sid] \in Session
      BY <1>1, SMTT(60) DEF AuthorizeWithSession, MayAuthorize, TypeOK, IsTable
    <2>2. IsTable(CurrentGrants(ref), ClientIds, Grant)
      BY RestrictTable, SMTT(60) DEF CurrentGrants, TypeOK
    <2>3. QED BY <1>0, <1>1, <2>1, <2>2, IssueCodeTyped, Zenon DEF AuthorizeWithSession, TypeOK
  <1>2. ASSUME NEW sid \in Sids, NEW ref \in ClientRefs, NEW scope \in ScopeSets,
               NEW code \in Codes, CreateSession(sid, ref, scope, code, now)
        PROVE  TypeOK'
    <2>1. NewSession(now) \in Session
      <3>1. SessionIdleTtl \in Nat /\ SessionAbsoluteTtl \in Nat
        BY TimeAssumption, SMTT(60)
      <3>2. QED BY <1>0, <3>1, SMTT(60) DEF NewSession, Session, Minimum
    <2>2. QED BY <1>0, <1>2, <2>1, IssueCodeTyped, SMTT(60) DEF CreateSession, TypeOK
  <1>3. ASSUME NEW sid \in Sids, NEW ref \in ClientRefs, NEW scope \in ScopeSets,
               NEW code \in Codes, RotateSession(sid, ref, scope, code, now)
        PROVE  TypeOK'
    <2>1. PurgedSessions(now)[sid] \in Session
      BY WindowsAreTimes, <1>0, <1>3, PurgeTyped DEF RotateSession, IsTable
    <2>2. ref.client_id \in ClientIds
      BY Zenon DEF ClientIds
    <2>3. RotatedSession(PurgedSessions(now)[sid], now) \in Session
      BY <1>0, <2>1, <2>2, SessionRowsTyped, ZenonT(60)
    <2>4. QED BY <1>0, <1>3, <2>3, IssueCodeTyped, Zenon DEF RotateSession, TypeOK
  <1>4. ASSUME NEW sid \in Sids, NEW ref \in ClientRefs, NEW scope \in ScopeSets,
               ConsentRequired(sid, ref, scope, now)
        PROVE  TypeOK'
    <2>1. IsTable(CurrentGrants(ref), ClientIds, Grant)
      BY RestrictTable, Zenon DEF CurrentGrants, TypeOK
    <2>2. QED BY <1>4, <2>1, SMTT(60) DEF ConsentRequired, TypeOK
  <1>5. ASSUME NEW sids \in SUBSET Sids,
               EndSessions(PurgedSessions(now), PurgedFamilies(now, PURGE_GRACE_SECONDS),
                           sids, now)
        PROVE  /\ IsTable(sessions', Sids, Session)
               /\ IsTable(families', Families, Family)
               /\ ended' \subseteq Sids
               /\ minted' \in Minted
               /\ consented' \subseteq Consent
    BY WindowsAreTimes, <1>0, <1>5, PurgeTyped, RevokedSessions, RevokedFamilies DEF EndSessions, TypeOK
  <1>6. ASSUME NEW sid \in Sids, RevokeSession(sid, now) PROVE TypeOK'
    BY WindowsAreTimes, <1>0, <1>5, <1>6, PurgeTyped DEF RevokeSession, TypeOK
  <1>7. ASSUME NEW except, RevokeSessions(except, now) PROVE TypeOK'
    <2> DEFINE sids == {s \in DOMAIN PurgedSessions(now) :
                            Live(PurgedSessions(now)[s], now)} \ except
    <2>1. sids \in SUBSET Sids
      BY WindowsAreTimes, <1>0, PurgeTyped DEF IsTable
    <2> HIDE DEF sids
    <2>2. EndSessions(PurgedSessions(now), PurgedFamilies(now, PURGE_GRACE_SECONDS),
                      sids, now)
      BY <1>7 DEF RevokeSessions, sids
    <2>3. QED BY WindowsAreTimes, <1>0, <1>5, <1>7, <2>1, <2>2, PurgeTyped DEF RevokeSessions, TypeOK
  <1>8. QED BY <1>a, <1>1, <1>2, <1>3, <1>4, <1>6, <1>7 DEF SessionStep

\* The methods on grants keep the types.
LEMMA GrantTyped ==
    ASSUME TypeOK, GrantNext
    PROVE  TypeOK'
  <1> USE DEF tables, history
  <1>1. ASSUME NEW ref \in ClientRefs, NEW scope \in ScopeSets, GrantConsent(ref, scope)
        PROVE  TypeOK'
    <2>1. /\ IsTable(CurrentGrants(ref), ClientIds, Grant)
          /\ DOMAIN CurrentGrants(ref) \subseteq DOMAIN grants
      BY RestrictTable DEF CurrentGrants, TypeOK
    <2>2. ref.client_id \in ClientIds /\ ref.created_at \in Nat
      BY ClientAssumption DEF ClientIds
    <2>3. GrantedScopes(ref) \subseteq Scopes
      BY <2>1 DEF GrantedScopes, TypeOK, IsTable, Grant
    <2>4. [client_created_at |-> ref.created_at,
           scopes |-> GrantedScopes(ref) \cup scope] \in Grant
      BY <2>2, <2>3 DEF Grant, Scopes
    <2>5. IsTable(grants', ClientIds, Grant)
      BY <1>1, <2>1, <2>2, <2>4, PutTable, ZenonT(60) DEF GrantConsent
    <2>6. consented' \subseteq Consent
      BY <1>1, <2>2 DEF GrantConsent, TypeOK, Consent, Scopes
    <2>7. QED BY <1>1, <2>5, <2>6, Zenon DEF GrantConsent, TypeOK
  <1>2. ASSUME NEW refs \in SUBSET ClientRefs, ListGrants(refs) PROVE TypeOK'
    BY <1>2, RestrictTable, Zenon DEF ListGrants, TypeOK
  <1>3. ASSUME NEW client \in ClientIds, NEW now \in Nows, RevokeGrant(client, now)
        PROVE  TypeOK'
    BY <1>3, NowsAreTimes, RestrictTable, RevokedFamilies, Zenon DEF RevokeGrant, TypeOK
  <1>4. QED BY <1>1, <1>2, <1>3, SMTT(60) DEF GrantNext

\* The methods on codes and families keep the types.
LEMMA FamilyTyped ==
    ASSUME TypeOK, FamilyNext
    PROVE  TypeOK'
  <1> USE DEF tables, history
  <1>1. ASSUME NEW code \in Codes, NEW ref \in ClientRefs, NEW now \in Nows,
               BeginExchange(code, ref, now)
        PROVE  TypeOK'
    BY <1>1, NowsAreTimes DEF BeginExchange, TypeOK, Exchange
  <1>2. ASSUME NEW x \in exchanges, ExchangeReplay(x) PROVE TypeOK'
    <2>1. x.now \in Nat BY DEF TypeOK, Exchange
    <2>2. IsTable(families', Families, Family)
      BY WindowsAreTimes, <1>2, <2>1, PurgeTyped, RevokedFamilies DEF ExchangeReplay
    <2>3. QED BY WindowsAreTimes, <1>2, <2>1, <2>2, PurgeTyped DEF ExchangeReplay, FinishExchange, TypeOK
  <1>3. ASSUME NEW x \in exchanges, ExchangeRefused(x) PROVE TypeOK'
    <2>1. x.now \in Nat BY DEF TypeOK, Exchange
    <2>2. QED BY WindowsAreTimes, <1>3, <2>1, PurgeTyped, SMTT(60)
              DEF ExchangeRefused, FinishExchange, Purge, TypeOK
  <1>4. ASSUME NEW x \in exchanges, NEW id \in Families, ExchangeCode(x, id) PROVE TypeOK'
    <2> DEFINE C == PurgedCodes(x.now)
               S == PurgedSessions(x.now)
               P == PurgedFamilies(x.now, PURGE_GRACE_SECONDS)
               new == NewFamily(x.code, x.ref, C[x.code], S[C[x.code].sid], x.now)
               F == Put(P, id, new)
    <2>1. x.now \in Nat /\ x.code \in Codes /\ x.ref \in ClientRefs
      BY DEF TypeOK, Exchange
    <2>2. /\ IsTable(C, Codes, Code) /\ IsTable(S, Sids, Session)
          /\ IsTable(P, Families, Family) /\ PurgedAt(x.now) \in Int
      BY WindowsAreTimes, <2>1, PurgeTyped
    <2>3. x.code \in DOMAIN C /\ C[x.code].sid \in DOMAIN S
      BY <1>4 DEF ExchangeCode, Exchangeable
    <2>4. C[x.code] \in Code /\ S[C[x.code].sid] \in Session
      BY <2>2, <2>3, Zenon DEF IsTable
    <2>5. new \in Family
      BY <2>1, <2>4, NewFamilyTyped, Zenon
    <2>6. IsTable(F, Families, Family)
      BY <2>2, <2>5, PutTable, Zenon
    <2>7. IsTable(codes', Codes, Code)
      <3> HIDE DEF C
      <3>1. codes' = [C EXCEPT ![x.code].consumed = TRUE]
        BY <1>4 DEF ExchangeCode, C
      <3>2. QED BY <2>2, <2>3, <2>4, <3>1, Zenon DEF IsTable, Code
    <2>8. IsTable(families', Families, Family)
      <3>1. CASE x.ref.refresh
        <4>1. families' = Revoked(F, BeyondLimit(F, x.ref.client_id, x.now), x.now)
          BY <1>4, <3>1, Zenon DEF ExchangeCode
        <4> HIDE DEF F
        <4>2. QED BY <2>1, <2>6, <4>1, RevokedFamilies, SMTT(60)
      <3>2. CASE ~x.ref.refresh
        BY <1>4, <2>2, <3>2 DEF ExchangeCode
      <3>3. QED BY <3>1, <3>2
    <2>9. minted' \in Minted
      BY <1>4 DEF ExchangeCode, TypeOK, Minted
    <2>10. QED BY <1>4, <2>2, <2>7, <2>8, <2>9, Zenon DEF ExchangeCode, FinishExchange, TypeOK
  <1>5. ASSUME NEW now \in Nows, NEW f \in Families, NEW ref \in ClientRefs,
               RefreshOfRecreatedClient(f, ref, now)
        PROVE  TypeOK'
    <2>1. now \in Nat BY NowsAreTimes
    <2>2. IsTable(families', Families, Family)
      BY WindowsAreTimes, <1>5, <2>1, PurgeTyped, RestrictTable, SMTT(60) DEF RefreshOfRecreatedClient
    <2>3. QED BY WindowsAreTimes, <1>5, <2>1, <2>2, PurgeTyped DEF RefreshOfRecreatedClient, TypeOK
  <1>6. ASSUME NEW now \in Nows, NEW f \in Families, NEW ref \in ClientRefs,
               NEW n \in 1..MaxSerial, RefreshReuse(f, n, ref, now)
        PROVE  TypeOK'
    <2> DEFINE F == PurgedFamilies(now, ReuseWindow)
               sids == IF F[f].kind = "session" THEN {F[f].sid} ELSE {}
    <2>1. now \in Nat BY NowsAreTimes
    <2>2. IsTable(F, Families, Family) /\ IsTable(PurgedSessions(now), Sids, Session)
      BY WindowsAreTimes, <2>1, PurgeTyped
    <2>3. F[f] \in Family
      BY <1>6, <2>2, Zenon DEF RefreshReuse, Presented, IsTable
    <2>4. sids \subseteq Sids
      BY <2>3, Zenon DEF Family
    <2>5. /\ families' = Revoked(F, {f} \cup FamiliesOf(F, sids), now)
          /\ sessions' = Revoked(PurgedSessions(now), sids, now)
          /\ ended' = ended \cup sids
      BY <1>6, Zenon DEF RefreshReuse
    <2> HIDE DEF F, sids
    <2>6. /\ IsTable(families', Families, Family)
          /\ IsTable(sessions', Sids, Session)
          /\ ended' \subseteq Sids
      BY <2>1, <2>2, <2>4, <2>5, RevokedSessions, RevokedFamilies, Zenon DEF TypeOK
    <2>7. QED BY WindowsAreTimes, <1>6, <2>1, <2>6, PurgeTyped, Zenon DEF RefreshReuse, TypeOK
  <1>7. ASSUME NEW now \in Nows, NEW f \in Families, NEW ref \in ClientRefs,
               NEW scope \in ScopeSets, RotateRefreshToken(f, ref, scope, now)
        PROVE  TypeOK'
    <2> DEFINE F == PurgedFamilies(now, ReuseWindow)
               S == PurgedSessions(now)
               n == F[f].current_serial
               idle == Minimum(now + RefreshIdleTtl, F[f].absolute_expires_at)
               next == [F[f] EXCEPT
                          !.tokens = @ \cup {[serial |-> n + 1, created_at |-> now]},
                          !.current_serial = n + 1,
                          !.consumed = @ \cup {[serial |-> n, at |-> now]},
                          !.idle_expires_at = idle]
    <2>1. now \in Nat BY NowsAreTimes
    <2>2. IsTable(F, Families, Family) /\ IsTable(S, Sids, Session)
      BY WindowsAreTimes, <2>1, PurgeTyped
    <2>3. f \in DOMAIN F /\ F[f] \in Family
      BY <1>7, <2>2 DEF RotateRefreshToken, Presented, IsTable
    <2>4. n \in Nat /\ idle \in Nat
      BY <2>1, <2>3, TimeAssumption DEF Family, Minimum
    <2>5. families' = [F EXCEPT ![f] = next]
      BY <1>7, ZenonT(60) DEF RotateRefreshToken
    <2>6. sessions' = S \/ (F[f].sid \in DOMAIN S /\
                            sessions' = [S EXCEPT ![F[f].sid] = Touched(@, now)])
      BY <1>7, Zenon DEF RotateRefreshToken
    <2> HIDE DEF F, S, n, idle
    <2>7. next \in Family
      <3>1. F[f].tokens \cup {[serial |-> n + 1, created_at |-> now]} \in SUBSET Token
        BY <2>1, <2>3, <2>4 DEF Family, Token
      <3>2. F[f].consumed \cup {[serial |-> n, at |-> now]}
                \in SUBSET [serial : Nat, at : Nat]
        BY <2>1, <2>3, <2>4 DEF Family
      <3>3. n + 1 \in Nat BY <2>4
      <3>4. QED BY <2>3, <2>4, <3>1, <3>2, <3>3, RotatedFamilyTyped, Zenon
    <2> HIDE DEF next
    <2>8. IsTable(families', Families, Family)
      BY <2>2, <2>3, <2>5, <2>7, Zenon DEF IsTable
    <2>9. IsTable(sessions', Sids, Session)
      <3>1. ASSUME NEW s \in DOMAIN S PROVE Touched(S[s], now) \in Session
        <4>1. S[s] \in Session /\ ref.client_id \in ClientIds
          BY <2>2 DEF IsTable, ClientIds
        <4>2. QED BY <2>1, <4>1, SessionRowsTyped, Zenon
      <3>2. QED BY <2>2, <2>6, <3>1 DEF IsTable
    <2>10. QED BY WindowsAreTimes, <1>7, <2>1, <2>8, <2>9, PurgeTyped, Zenon DEF RotateRefreshToken, TypeOK
  <1>8. ASSUME NEW now \in Nows, NEW fs, RevokeFamilies(fs, now) PROVE TypeOK'
    BY <1>8, NowsAreTimes, RevokedFamilies, Zenon DEF RevokeFamilies, TypeOK
  <1>9. QED
    BY <1>1, <1>2, <1>3, <1>4, <1>5, <1>6, <1>7, <1>8, ZenonT(60)
       DEF FamilyNext, RevokeFamilyById, RevokeFamiliesOfClient, RevokeSessionFamiliesOfClient

\* Type invariant: every method leaves every table with rows of its schema.
THEOREM TypeCorrect == Spec => []TypeOK
  <1>1. Init => TypeOK
    <2>1. NegInfinity \in Int
      BY TimeAssumption DEF NegInfinity
    <2>2. \A Keys, Row : IsTable(NoRows, Keys, Row)
      BY DEF NoRows, IsTable
    <2>3. NoUser \in User /\ [sids |-> {}, codes |-> {}, families |-> {}] \in Minted
      BY Zenon DEF NoUser, User, Minted
    <2> SUFFICES ASSUME Init PROVE TypeOK
      OBVIOUS
    <2>4. /\ IsTable(sessions, Sids, Session) /\ IsTable(codes, Codes, Code)
          /\ IsTable(families, Families, Family) /\ IsTable(grants, ClientIds, Grant)
      BY <2>2 DEF Init
    <2>5. /\ exchanges \subseteq Exchange /\ ended \subseteq Sids /\ consented \subseteq Consent
          /\ clock \in Nat /\ lastPurgeAt \in Int
      BY <2>1 DEF Init
    <2>6. QED BY <2>3, <2>4, <2>5, Zenon DEF Init, TypeOK
  <1>2. TypeOK /\ [Next]_vars => TypeOK'
    <2>1. ASSUME TypeOK, UNCHANGED vars PROVE TypeOK'
      BY <2>1, Zenon DEF vars, tables, history, TypeOK
    <2>2. QED BY <2>1, LifecycleTyped, SessionTyped, GrantTyped, FamilyTyped DEF Next
  <1>3. QED BY <1>1, <1>2, PTL DEF Spec

-----------------------------------------------------------------------------
(* What any step may do to a row that stays, and which rows it may add.     *)

KeptSession(a, b) ==
    /\ b.absolute_expires_at = a.absolute_expires_at
    /\ ~Unrevoked(a) => b.revoked_at = a.revoked_at
    /\ a.idle_expires_at <= a.absolute_expires_at => b.idle_expires_at <= b.absolute_expires_at

KeptFamily(a, b) ==
    /\ b.kind = a.kind
    /\ b.sid = a.sid
    /\ b.code = a.code
    /\ b.absolute_expires_at = a.absolute_expires_at
    /\ ~Unrevoked(a) => b.revoked_at = a.revoked_at
    /\ a.idle_expires_at <= a.absolute_expires_at => b.idle_expires_at <= b.absolute_expires_at
    /\ OneCurrentToken(a) => OneCurrentToken(b)

KeptCode(a, b) ==
    /\ b.sid = a.sid
    /\ a.consumed => b.consumed

SessionsKept(S, T) == \A s \in DOMAIN T : s \in DOMAIN S /\ KeptSession(S[s], T[s])
FamiliesKept(F, G) == \A f \in DOMAIN G : f \in DOMAIN F /\ KeptFamily(F[f], G[f])
CodesKept(C, D) == \A c \in DOMAIN D : c \in DOMAIN C /\ KeptCode(C[c], D[c])

SessionAdded(s) ==
    /\ s \notin minted.sids
    /\ Unrevoked(sessions'[s])
    /\ sessions'[s].idle_expires_at <= sessions'[s].absolute_expires_at
    /\ ~user'.disabled

CodeAdded(c) ==
    /\ c \notin minted.codes
    /\ codes'[c].sid \in DOMAIN sessions'

\* A new family spends its code, and the session of that code is unrevoked.
FamilyAdded(f) ==
    LET row == families'[f]
    IN  /\ f \notin minted.families
        /\ f \in minted'.families
        /\ row.code \in DOMAIN codes
        /\ ~codes[row.code].consumed
        /\ row.code \in DOMAIN codes' /\ codes'[row.code].consumed
        /\ row.sid = codes[row.code].sid
        /\ row.sid \in DOMAIN sessions
        /\ Unrevoked(sessions[row.sid])
        /\ row.kind = "session" =>
             row.absolute_expires_at = sessions[row.sid].absolute_expires_at
        /\ row.idle_expires_at <= row.absolute_expires_at
        /\ OneCurrentToken(row)
        /\ \A g \in DOMAIN families' : g # f => g \in DOMAIN families

\* A session that ends leaves neither itself nor a family bound to it unrevoked.
SessionEnded(s) ==
    /\ s \in minted.sids \/ \E f \in DOMAIN families : families[f].sid = s
    /\ s \in DOMAIN sessions' => ~Unrevoked(sessions'[s])
    /\ \A f \in DOMAIN families' :
        families'[f].kind = "session" /\ families'[f].sid = s => ~Unrevoked(families'[f])

Minting ==
    /\ minted.sids \subseteq minted'.sids
    /\ minted.codes \subseteq minted'.codes
    /\ minted.families \subseteq minted'.families
    /\ DOMAIN sessions' \subseteq DOMAIN sessions \cup minted'.sids
    /\ DOMAIN codes' \subseteq DOMAIN codes \cup minted'.codes

StepShape ==
    /\ \A s \in DOMAIN sessions' :
        SessionAdded(s) \/ (s \in DOMAIN sessions /\ KeptSession(sessions[s], sessions'[s]))
    /\ \A c \in DOMAIN codes' :
        CodeAdded(c) \/ (c \in DOMAIN codes /\ KeptCode(codes[c], codes'[c]))
    /\ \A f \in DOMAIN families' :
        FamilyAdded(f) \/ (f \in DOMAIN families /\ KeptFamily(families[f], families'[f]))
    /\ ended \subseteq ended'
    /\ \A s \in ended' \ ended : SessionEnded(s)
    /\ Minting
    /\ user'.disabled =>
        \/ user.disabled
        \/ /\ \A s \in DOMAIN sessions' : ~Unrevoked(sessions'[s])
           /\ \A f \in DOMAIN families' : ~Unrevoked(families'[f])

\* The shape of a step that adds no row, ends no session and disables no user.
LEMMA QuietStep ==
    ASSUME SessionsKept(sessions, sessions'), CodesKept(codes, codes'),
           FamiliesKept(families, families'), ended' = ended, minted' = minted,
           user'.disabled => user.disabled
    PROVE  StepShape
  BY Zenon DEF SessionsKept, CodesKept, FamiliesKept, StepShape, Minting

\* Revocation changes the revocation time of unrevoked rows and nothing else.
LEMMA RevokedKeeps ==
    /\ \A t, ks, now : IsTable(t, Sids, Session) => SessionsKept(t, Revoked(t, ks, now))
    /\ \A t, ks, now : IsTable(t, Families, Family) => FamiliesKept(t, Revoked(t, ks, now))
  <1>1. ASSUME NEW t, IsTable(t, Sids, Session), NEW ks, NEW now
        PROVE  SessionsKept(t, Revoked(t, ks, now))
    BY <1>1 DEF SessionsKept, KeptSession, Revoked, IsTable, Session, Unrevoked
  <1>2. ASSUME NEW t, IsTable(t, Families, Family), NEW ks, NEW now
        PROVE  FamiliesKept(t, Revoked(t, ks, now))
    <2>1. ASSUME NEW f \in DOMAIN t PROVE KeptFamily(t[f], Revoked(t, ks, now)[f])
      <3>1. t[f] \in Family
        BY <1>2 DEF IsTable
      <3>2. \/ Revoked(t, ks, now)[f] = t[f]
            \/ Unrevoked(t[f]) /\ Revoked(t, ks, now)[f] = [t[f] EXCEPT !.revoked_at = now]
        BY DEF Revoked, Unrevoked
      <3>3. QED BY <3>1, <3>2 DEF KeptFamily, Family, OneCurrentToken
    <2>2. QED BY <2>1 DEF FamiliesKept, Revoked
  <1>3. QED BY <1>1, <1>2

\* Purging deletes rows, and tokens that have a successor, and nothing else.
LEMMA PurgeKeeps ==
    ASSUME TypeOK, NEW now \in Nat, NEW window \in Nat
    PROVE  /\ SessionsKept(sessions, PurgedSessions(now))
           /\ CodesKept(codes, PurgedCodes(now))
           /\ FamiliesKept(families, PurgedFamilies(now, window))
  <1>1. SessionsKept(sessions, PurgedSessions(now)) /\ CodesKept(codes, PurgedCodes(now))
    BY PurgeTyped DEF SessionsKept, KeptSession, CodesKept, KeptCode
  <1>2. ASSUME NEW f \in DOMAIN PurgedFamilies(now, window)
        PROVE  f \in DOMAIN families /\ KeptFamily(families[f], PurgedFamilies(now, window)[f])
    <2> DEFINE row == families[f]
               left == PurgedTokens(row.tokens, now, window)
    <2>1. /\ f \in DOMAIN families
          /\ PurgedFamilies(now, window)[f] = [row EXCEPT !.tokens = left]
      BY PurgeTyped
    <2>2. row \in Family
      BY <2>1 DEF TypeOK, IsTable
    <2>3. ASSUME OneCurrentToken(row) PROVE OneCurrentToken([row EXCEPT !.tokens = left])
      <3>1. left \subseteq row.tokens
        BY DEF PurgedTokens
      <3>2. PICK t \in row.tokens : t.serial = row.current_serial
        BY <2>3, Zenon DEF OneCurrentToken
      <3>3. row.current_serial \in Nat /\ \A u \in row.tokens : u.serial \in Nat
        BY <2>2 DEF Family, Token
      <3>4. \A u \in row.tokens : u.serial # t.serial + 1
        BY <2>3, <3>2, <3>3 DEF OneCurrentToken
      <3>5. t \in left
        BY <3>2, <3>4, SMTT(60) DEF PurgedTokens
      <3> HIDE DEF left
      <3>6. QED BY <2>2, <2>3, <3>1, <3>2, <3>5 DEF OneCurrentToken, Family
    <2> HIDE DEF left
    <2>4. QED BY <2>1, <2>2, <2>3 DEF KeptFamily, Family, Unrevoked
  <1>3. QED BY <1>1, <1>2 DEF FamiliesKept

\* Keeping composes.
LEMMA KeptTransitive ==
    /\ \A S, T, U : SessionsKept(S, T) /\ SessionsKept(T, U) => SessionsKept(S, U)
    /\ \A F, G, H : FamiliesKept(F, G) /\ FamiliesKept(G, H) => FamiliesKept(F, H)
  <1>1. \A a, b, c : KeptSession(a, b) /\ KeptSession(b, c) => KeptSession(a, c)
    BY DEF KeptSession, Unrevoked
  <1>2. \A a, b, c : KeptFamily(a, b) /\ KeptFamily(b, c) => KeptFamily(a, c)
    BY DEF KeptFamily, Unrevoked
  <1>3. QED BY <1>1, <1>2, Zenon DEF SessionsKept, FamiliesKept

\* Deleting a family from a table that keeps another still keeps it.
LEMMA DeletingKeeps ==
    ASSUME NEW F, NEW G, IsTable(G, Families, Family), FamiliesKept(F, G), NEW f
    PROVE  FamiliesKept(F, Restrict(G, DOMAIN G \ {f}))
  BY RestrictTable DEF FamiliesKept

\* A rotated family has the one token that its current serial names.
LEMMA RotatedHasToken ==
    ASSUME NEW row \in Family, NEW n \in Nat, row.current_serial = n, OneCurrentToken(row),
           NEW token, token.serial = n + 1,
           NEW next, next.current_serial = n + 1, next.tokens = row.tokens \cup {token}
    PROVE  OneCurrentToken(next)
  <1>1. \A t \in row.tokens : t.serial \in Nat
    BY DEF Family, Token
  <1>2. \A t \in row.tokens : t.serial <= n /\ t.serial # n + 1
    BY <1>1 DEF OneCurrentToken
  <1>3. QED BY <1>1, <1>2 DEF OneCurrentToken

\* A table is kept by a step that leaves it alone or empties it.
LEMMA KeptTrivially ==
    /\ \A S : SessionsKept(S, S) /\ SessionsKept(S, NoRows)
    /\ \A C : CodesKept(C, C) /\ CodesKept(C, NoRows)
    /\ \A F : FamiliesKept(F, F) /\ FamiliesKept(F, NoRows)
  BY Zenon DEF SessionsKept, FamiliesKept, CodesKept, KeptSession, KeptFamily, KeptCode, NoRows

\* The sessions and families of a purge followed by revocations.
LEMMA PurgeRevokeKeeps ==
    ASSUME TypeOK, NEW now \in Nat, NEW window \in Nat, NEW ks, NEW fs
    PROVE  /\ SessionsKept(sessions, Revoked(PurgedSessions(now), ks, now))
           /\ FamiliesKept(families, Revoked(PurgedFamilies(now, window), fs, now))
  BY PurgeTyped, PurgeKeeps, RevokedKeeps, KeptTransitive

-----------------------------------------------------------------------------
(* Every step has that shape.                                              *)

\* Touching and rotating a session row, and adding a client to it, keep the row.
LEMMA SessionRowsKept ==
    ASSUME NEW now \in Nat, NEW row \in Session, NEW client \in ClientIds
    PROVE  /\ KeptSession(row, RotatedSession(row, now))
           /\ KeptSession(row, Touched(row, now))
           /\ KeptSession(row, [row EXCEPT !.clients = @ \cup {client}])
  <1>1. SessionIdleTtl \in Nat /\ row.absolute_expires_at \in Nat
    BY TimeAssumption DEF Session
  <1> DEFINE idle == Minimum(now + SessionIdleTtl, row.absolute_expires_at)
  <1>2. idle \in Nat /\ idle <= row.absolute_expires_at
    BY <1>1 DEF Minimum
  <1> HIDE DEF idle
  <1>3. KeptSession(row, [row EXCEPT !.last_seen_at = now, !.idle_expires_at = idle])
    BY <1>2 DEF KeptSession, Session, Unrevoked
  <1>4. KeptSession(row, row) /\ KeptSession(row, [row EXCEPT !.clients = @ \cup {client}])
    BY SMTT(60) DEF KeptSession, Session, Unrevoked
  <1>5. QED BY <1>3, <1>4 DEF RotatedSession, Touched, idle

\* Issuing a code on a session that is new, or on a kept version of a stored one.
LEMMA IssueCodeShape ==
    ASSUME TypeOK, NEW now \in Nat, NEW ref \in ClientRefs, NEW scope \in ScopeSets,
           NEW sid \in Sids, NEW code \in Codes, NEW row \in Session,
           IssueCode(code, ref, scope, sid, row, now),
           \/ sid \in DOMAIN sessions /\ KeptSession(sessions[sid], row)
           \/ /\ sid \notin minted.sids /\ Unrevoked(row)
              /\ row.idle_expires_at <= row.absolute_expires_at
              /\ ~user.disabled,
           user' = user, ended' = ended
    PROVE  StepShape
  <1> DEFINE seen == [row EXCEPT !.clients = @ \cup {ref.client_id}]
             last == Touched(seen, now)
  <1>0. PURGE_GRACE_SECONDS \in Nat
    BY TimeAssumption, Zenon
  <1>1. ref.client_id \in ClientIds
    BY Zenon DEF ClientIds
  <1>2. seen \in Session /\ KeptSession(row, seen)
    BY <1>1, SessionRowsTyped, SessionRowsKept
  <1> HIDE DEF seen
  <1>3. last \in Session /\ KeptSession(seen, last)
    BY <1>1, <1>2, SessionRowsTyped, SessionRowsKept, Zenon
  <1> HIDE DEF last
  <1>4. KeptSession(row, last) /\ (Unrevoked(row) => Unrevoked(last))
    <2>1. KeptSession(row, last)
      BY <1>2, <1>3, Zenon DEF KeptSession, Unrevoked
    <2>2. last.revoked_at = row.revoked_at
      BY <1>1 DEF last, seen, Touched, Session
    <2>3. QED BY <2>1, <2>2, Zenon DEF Unrevoked
  <1>5. /\ sessions' = Put(PurgedSessions(now), sid, last)
        /\ families' = PurgedFamilies(now, PURGE_GRACE_SECONDS)
    BY DEF IssueCode, last, seen
  <1>6. DOMAIN sessions' = DOMAIN PurgedSessions(now) \cup {sid}
    BY <1>5, Zenon DEF Put
  <1>7. ASSUME NEW s \in DOMAIN sessions'
        PROVE  SessionAdded(s) \/ (s \in DOMAIN sessions /\ KeptSession(sessions[s], sessions'[s]))
    <2>1. CASE s # sid
      <3>1. s \in DOMAIN PurgedSessions(now) /\ sessions'[s] = PurgedSessions(now)[s]
        BY <1>5, <1>6, <2>1, Zenon DEF Put
      <3>2. QED BY <1>0, <3>1, PurgeKeeps, Zenon DEF SessionsKept
    <2>2. CASE s = sid
      <3>1. sessions'[s] = last
        BY <1>5, <2>2, Zenon DEF Put
      <3>2. CASE s \in DOMAIN sessions /\ KeptSession(sessions[s], row)
        BY <1>4, <3>1, <3>2, Zenon DEF KeptSession, Unrevoked
      <3>3. CASE /\ s \notin minted.sids /\ Unrevoked(row) /\ ~user.disabled
                 /\ row.idle_expires_at <= row.absolute_expires_at
        BY <1>4, <3>1, <3>3, Zenon DEF SessionAdded, KeptSession
      <3>4. QED BY <2>2, <3>2, <3>3, Zenon
    <2>3. QED BY <2>1, <2>2, Zenon
  <1>8. ASSUME NEW c \in DOMAIN codes'
        PROVE  CodeAdded(c) \/ (c \in DOMAIN codes /\ KeptCode(codes[c], codes'[c]))
    <2>1. CASE c # code
      <3>1. c \in DOMAIN PurgedCodes(now) /\ codes'[c] = PurgedCodes(now)[c]
        BY <1>8, <2>1, SMTT(60) DEF IssueCode, Put
      <3>2. QED BY <1>0, <3>1, PurgeKeeps, Zenon DEF CodesKept
    <2>2. CASE c = code
      <3>1. codes'[c].sid = sid /\ c \notin minted.codes
        BY <2>2 DEF IssueCode, Put
      <3>2. QED BY <1>6, <3>1, Zenon DEF CodeAdded
    <2>3. QED BY <2>1, <2>2, Zenon
  <1>9. Minting
    <2>1. /\ minted'.sids = minted.sids \cup {sid}
          /\ minted'.codes = minted.codes \cup {code}
          /\ minted'.families = minted.families
      BY DEF IssueCode, TypeOK, Minted
    <2>2. DOMAIN codes' = DOMAIN PurgedCodes(now) \cup {code}
      BY SMTT(60) DEF IssueCode, Put
    <2>3. QED BY <1>0, <1>6, <2>1, <2>2, PurgeTyped DEF Minting
  <1>10. FamiliesKept(families, families')
    BY <1>0, <1>5, PurgeKeeps, Zenon
  <1>11. QED BY <1>7, <1>8, <1>9, <1>10, Zenon DEF StepShape, FamiliesKept

\* No time is the null of a column.
LEMMA TimeIsNotNull == \A t \in Nat : t # Null
  BY DEF Null

\* Ending sessions, from the tables as a purge or nothing left them.
LEMMA EndShape ==
    ASSUME NEW S, NEW F, NEW sids, NEW fs, NEW now \in Nat,
           IsTable(S, Sids, Session), IsTable(F, Families, Family),
           SessionsKept(sessions, S), FamiliesKept(families, F), CodesKept(codes, codes'),
           sessions' = Revoked(S, sids, now),
           families' = Revoked(F, fs, now), FamiliesOf(F, sids) \subseteq fs,
           ended' = ended \cup sids, minted' = minted,
           \A s \in sids : s \in minted.sids \/ \E f \in DOMAIN families : families[f].sid = s,
           user'.disabled => \/ user.disabled
                             \/ /\ \A s \in DOMAIN sessions' : ~Unrevoked(sessions'[s])
                                /\ \A f \in DOMAIN families' : ~Unrevoked(families'[f])
    PROVE  StepShape
  <1>1. SessionsKept(sessions, sessions') /\ FamiliesKept(families, families')
    BY RevokedKeeps, KeptTransitive, ZenonT(60)
  <1>2. now # Null
    BY TimeIsNotNull, Zenon
  <1>3. \A s \in DOMAIN sessions' : s \in sids => ~Unrevoked(sessions'[s])
    BY <1>2 DEF Revoked, Unrevoked, IsTable, Session
  <1>4. ASSUME NEW f \in DOMAIN families', families'[f].kind = "session", families'[f].sid \in sids
        PROVE  ~Unrevoked(families'[f])
    <2>1. f \in DOMAIN F /\ F[f] \in Family
      BY DEF Revoked, IsTable
    <2>2. families'[f] = F[f] \/ families'[f] = [F[f] EXCEPT !.revoked_at = now]
      BY <2>1 DEF Revoked
    <2>3. F[f].kind = "session" /\ F[f].sid \in sids
      BY <1>4, <2>1, <2>2, SMTT(60) DEF Family
    <2>4. f \in fs
      BY <2>1, <2>3, Zenon DEF FamiliesOf
    <2>5. QED BY <1>2, <2>1, <2>4 DEF Revoked, Unrevoked, Family
  <1>5. \A s \in ended' \ ended : SessionEnded(s)
    BY <1>3, <1>4, Zenon DEF SessionEnded
  <1>6. QED BY <1>1, <1>5, Zenon DEF StepShape, SessionsKept, CodesKept, FamiliesKept, Minting

\* A new family is bound as its code and session say, and has its first token.
LEMMA NewFamilyShape ==
    ASSUME NEW code \in Codes, NEW ref \in ClientRefs, NEW row \in Code,
           NEW session \in Session, NEW now \in Nat
    PROVE  LET new == NewFamily(code, ref, row, session, now)
           IN  /\ new.code = code /\ new.sid = row.sid
               /\ new.kind = "session" => new.absolute_expires_at = session.absolute_expires_at
               /\ new.idle_expires_at <= new.absolute_expires_at
               /\ OneCurrentToken(new)
  <1> DEFINE new == NewFamily(code, ref, row, session, now)
             offline == ref.offline_access /\ "offline_access" \in row.scope
             absolute == IF offline THEN now + RefreshAbsoluteTtl ELSE session.absolute_expires_at
  <1>1. RefreshIdleTtl \in Nat /\ RefreshAbsoluteTtl \in Nat
    BY TimeAssumption
  <1>2. session.absolute_expires_at \in Nat
    BY DEF Session
  <1>3. absolute \in Nat
    BY <1>1, <1>2, SMTT(60)
  <1>4. Minimum(now + RefreshIdleTtl, absolute) <= absolute
    BY <1>1, <1>3 DEF Minimum
  <1>5. /\ new.code = code /\ new.sid = row.sid
        /\ new.kind = "session" => new.absolute_expires_at = session.absolute_expires_at
    BY Zenon DEF NewFamily
  <1>6. new.idle_expires_at <= new.absolute_expires_at
    BY <1>4, ZenonT(60) DEF NewFamily
  <1>7. new.current_serial = 1 /\ new.tokens = {[serial |-> 1, created_at |-> now]}
    BY Zenon DEF NewFamily
  <1> HIDE DEF new
  <1>8. OneCurrentToken(new)
    BY <1>7 DEF OneCurrentToken
  <1>9. QED BY <1>5, <1>6, <1>8, Zenon DEF new

\* A new session is a live session row whose idle limit is within its absolute one.
LEMMA NewSessionShape ==
    ASSUME NEW now \in Nat
    PROVE  /\ NewSession(now) \in Session
           /\ Unrevoked(NewSession(now))
           /\ NewSession(now).idle_expires_at <= NewSession(now).absolute_expires_at
  <1>1. SessionIdleTtl \in Nat /\ SessionAbsoluteTtl \in Nat
    BY TimeAssumption
  <1>2. NewSession(now) \in Session
    BY <1>1 DEF NewSession, Session, Minimum
  <1>3. Unrevoked(NewSession(now))
    BY Zenon DEF NewSession, Unrevoked
  <1>4. NewSession(now).idle_expires_at <= NewSession(now).absolute_expires_at
    BY <1>1 DEF NewSession, Minimum
  <1>5. QED BY <1>2, <1>3, <1>4

\* The two tables that a revocation works on.
LEMMA TablesTyped ==
    ASSUME TypeOK
    PROVE  IsTable(sessions, Sids, Session) /\ IsTable(families, Families, Family)
  BY Zenon DEF TypeOK

\* The user row, the clock and the purge.
LEMMA LifecycleShape ==
    ASSUME TypeOK, DOMAIN sessions \subseteq minted.sids, LifecycleNext
    PROVE  StepShape
  <1> USE DEF tables, history
  <1>1. CASE Tick \/ Restart
    BY <1>1, QuietStep, KeptTrivially, Zenon DEF Tick, Restart
  <1>2. ASSUME NEW groups \in SUBSET Groups, InitUser(groups) \/ SetGroups(groups)
        PROVE  StepShape
    BY <1>2, QuietStep, KeptTrivially, SMTT(60) DEF InitUser, SetGroups, TypeOK, User
  <1>3. CASE Destroy
    BY <1>3, QuietStep, KeptTrivially, Zenon DEF Destroy, NoUser
  <1>4. CASE Enable
    BY <1>4, QuietStep, KeptTrivially, SMTT(60) DEF Enable, TypeOK, User
  <1>5. ASSUME NEW now \in Nows, Disable(now) \/ RevokeAll(now) PROVE StepShape
    <2> DEFINE sids == {s \in DOMAIN sessions : Unrevoked(sessions[s])}
    <2>1. now \in Nat BY NowsAreTimes
    <2>2. /\ sessions' = Revoked(sessions, sids, now)
          /\ families' = Revoked(families, DOMAIN families, now)
          /\ ended' = ended \cup sids
          /\ minted' = minted /\ codes' = codes
      BY <1>5 DEF Disable, RevokeAll, EndEverything
    <2>3. \A s \in DOMAIN sessions' : ~Unrevoked(sessions'[s])
      BY <2>1, <2>2, TablesTyped DEF Revoked, Unrevoked, IsTable, Session, Null
    <2>4. \A f \in DOMAIN families' : ~Unrevoked(families'[f])
      BY <2>1, <2>2, TablesTyped DEF Revoked, Unrevoked, IsTable, Family, Null
    <2>5. \A s \in sids : s \in minted.sids
      OBVIOUS
    <2>6. FamiliesOf(families, sids) \subseteq DOMAIN families
      BY DEF FamiliesOf
    <2> HIDE DEF sids
    <2>7. QED BY TablesTyped, <2>1, <2>2, <2>3, <2>4, <2>5, <2>6, KeptTrivially, EndShape, ZenonT(60)
  <1>6. ASSUME NEW now \in Nows, NEW window \in {PURGE_GRACE_SECONDS, ReuseWindow},
               PurgeOnly(now, window)
        PROVE  StepShape
    <2>1. now \in Nat /\ window \in Nat BY WindowsAreTimes, NowsAreTimes, SMTT(60)
    <2>2. QED BY <1>6, <2>1, QuietStep, PurgeKeeps, Zenon DEF PurgeOnly, Purge
  <1>7. QED BY <1>1, <1>2, <1>3, <1>4, <1>5, <1>6, ZenonT(60) DEF LifecycleNext

\* The methods on sessions, given that stored sessions were minted.
LEMMA SessionShape ==
    ASSUME TypeOK, DOMAIN sessions \subseteq minted.sids, SessionNext
    PROVE  StepShape
  <1> USE DEF tables, history
  <1>a. PICK now \in Nows : SessionStep(now)
    BY DEF SessionNext
  <1>0. now \in Nat BY NowsAreTimes
  <1>1. ASSUME NEW sid \in Sids, NEW ref \in ClientRefs, NEW scope \in ScopeSets,
               NEW code \in Codes, AuthorizeWithSession(sid, ref, scope, code, now)
        PROVE  StepShape
    <2>1. sid \in DOMAIN sessions /\ sessions[sid] \in Session
      BY <1>1, Zenon DEF AuthorizeWithSession, MayAuthorize, TypeOK, IsTable
    <2>2. KeptSession(sessions[sid], sessions[sid])
      BY Zenon DEF KeptSession
    <2>3. QED BY <1>0, <1>1, <2>1, <2>2, IssueCodeShape, ZenonT(60) DEF AuthorizeWithSession
  <1>2. ASSUME NEW sid \in Sids, NEW ref \in ClientRefs, NEW scope \in ScopeSets,
               NEW code \in Codes, CreateSession(sid, ref, scope, code, now)
        PROVE  StepShape
    <2>1. ~user.disabled /\ sid \notin minted.sids
      BY <1>2, Zenon DEF CreateSession, MayFinalize
    <2>2. QED BY <1>0, <1>2, <2>1, NewSessionShape, IssueCodeShape, ZenonT(60) DEF CreateSession
  <1>3. ASSUME NEW sid \in Sids, NEW ref \in ClientRefs, NEW scope \in ScopeSets,
               NEW code \in Codes, RotateSession(sid, ref, scope, code, now)
        PROVE  StepShape
    <2> DEFINE row == PurgedSessions(now)[sid]
    <2>1. sid \in DOMAIN sessions /\ row = sessions[sid] /\ row \in Session
      BY WindowsAreTimes, <1>0, <1>3, PurgeTyped DEF RotateSession, IsTable
    <2>2. ref.client_id \in ClientIds
      BY Zenon DEF ClientIds
    <2>3. IssueCode(code, ref, scope, sid, RotatedSession(row, now), now)
      BY <1>3, Zenon DEF RotateSession
    <2> HIDE DEF row
    <2>4. RotatedSession(row, now) \in Session /\ KeptSession(row, RotatedSession(row, now))
      BY <1>0, <2>1, <2>2, SessionRowsTyped, SessionRowsKept, ZenonT(60)
    <2>5. QED BY <1>0, <1>3, <2>1, <2>3, <2>4, IssueCodeShape, Zenon DEF RotateSession
  <1>4. ASSUME NEW sid \in Sids, NEW ref \in ClientRefs, NEW scope \in ScopeSets,
               ConsentRequired(sid, ref, scope, now)
        PROVE  StepShape
    BY <1>4, QuietStep, KeptTrivially, Zenon DEF ConsentRequired
  <1>5. ASSUME NEW sids, sids \subseteq DOMAIN PurgedSessions(now),
               EndSessions(PurgedSessions(now), PurgedFamilies(now, PURGE_GRACE_SECONDS),
                           sids, now),
               codes' = PurgedCodes(now), user' = user
        PROVE  StepShape
    <2> DEFINE F == PurgedFamilies(now, PURGE_GRACE_SECONDS)
    <2>1. sids \subseteq minted.sids
      BY WindowsAreTimes, <1>0, <1>5, PurgeTyped
    <2>2. QED BY WindowsAreTimes, <1>0, <1>5, <2>1, PurgeTyped, PurgeKeeps, EndShape DEF EndSessions
  <1>6. ASSUME NEW sid \in Sids, RevokeSession(sid, now) PROVE StepShape
    BY <1>5, <1>6, ZenonT(60) DEF RevokeSession
  <1>7. ASSUME NEW except, RevokeSessions(except, now) PROVE StepShape
    <2> DEFINE sids == {s \in DOMAIN PurgedSessions(now) :
                            Live(PurgedSessions(now)[s], now)} \ except
    <2>1. sids \subseteq DOMAIN PurgedSessions(now)
      BY Zenon
    <2>2. /\ EndSessions(PurgedSessions(now), PurgedFamilies(now, PURGE_GRACE_SECONDS),
                         sids, now)
          /\ codes' = PurgedCodes(now) /\ user' = user
      BY <1>7, Zenon DEF RevokeSessions
    <2> HIDE DEF sids
    <2>3. QED BY <1>5, <2>1, <2>2, Zenon
  <1>8. QED BY <1>a, <1>1, <1>2, <1>3, <1>4, <1>6, <1>7, ZenonT(60) DEF SessionStep

\* The methods on grants.
LEMMA GrantShape ==
    ASSUME TypeOK, GrantNext
    PROVE  StepShape
  <1> USE DEF tables, history
  <1>1. ASSUME NEW ref \in ClientRefs, NEW scope \in ScopeSets, GrantConsent(ref, scope)
        PROVE  StepShape
    BY <1>1, QuietStep, KeptTrivially, ZenonT(60) DEF GrantConsent
  <1>2. ASSUME NEW refs \in SUBSET ClientRefs, ListGrants(refs) PROVE StepShape
    BY <1>2, QuietStep, KeptTrivially, Zenon DEF ListGrants
  <1>3. ASSUME NEW client \in ClientIds, NEW now \in Nows, RevokeGrant(client, now)
        PROVE  StepShape
    BY TablesTyped, <1>3, QuietStep, KeptTrivially, RevokedKeeps, Zenon DEF RevokeGrant
  <1>4. QED BY <1>1, <1>2, <1>3, Zenon DEF GrantNext

\* The methods on codes and families.
LEMMA FamilyShape ==
    ASSUME TypeOK, DOMAIN sessions \subseteq minted.sids, FamilyNext
    PROVE  StepShape
  <1> USE DEF tables, history
  <1>1. ASSUME NEW code \in Codes, NEW ref \in ClientRefs, NEW now \in Nows,
               BeginExchange(code, ref, now)
        PROVE  StepShape
    BY <1>1, QuietStep, KeptTrivially, Zenon DEF BeginExchange
  <1>2. ASSUME NEW x \in exchanges, ExchangeReplay(x) \/ ExchangeRefused(x) PROVE StepShape
    <2>1. x.now \in Nat BY Zenon DEF TypeOK, Exchange
    <2>2. QED BY WindowsAreTimes, <1>2, <2>1, QuietStep, KeptTrivially, PurgeKeeps, PurgeRevokeKeeps, ZenonT(60)
              DEF ExchangeReplay, ExchangeRefused, FinishExchange, Purge
  <1>3. ASSUME NEW x \in exchanges, NEW id \in Families, ExchangeCode(x, id)
        PROVE  StepShape
    <2> DEFINE C == PurgedCodes(x.now)
               S == PurgedSessions(x.now)
               P == PurgedFamilies(x.now, PURGE_GRACE_SECONDS)
               row == C[x.code]
               new == NewFamily(x.code, x.ref, row, S[row.sid], x.now)
               F == Put(P, id, new)
               over == BeyondLimit(F, x.ref.client_id, x.now)
    <2>1. x.now \in Nat /\ x.code \in Codes /\ x.ref \in ClientRefs
      BY Zenon DEF TypeOK, Exchange
    <2>2. /\ IsTable(C, Codes, Code) /\ IsTable(S, Sids, Session) /\ IsTable(P, Families, Family)
          /\ SessionsKept(sessions, S) /\ CodesKept(codes, C) /\ FamiliesKept(families, P)
      BY WindowsAreTimes, <2>1, PurgeTyped, PurgeKeeps
    <2>3. /\ x.code \in DOMAIN C /\ ~row.consumed
          /\ row.sid \in DOMAIN S /\ Unrevoked(S[row.sid])
      BY <1>3, Zenon DEF ExchangeCode, Exchangeable
    <2>4. /\ codes' = [C EXCEPT ![x.code].consumed = TRUE]
          /\ sessions' = S /\ user' = user /\ ended' = ended
          /\ \/ families' = P /\ minted' = minted
             \/ /\ id \notin minted.families
                /\ families' = Revoked(F, over, x.now)
                /\ minted' = [minted EXCEPT !.families = @ \cup {id}]
      BY <1>3, Zenon DEF ExchangeCode, FinishExchange
    <2>5. /\ x.code \in DOMAIN codes /\ row = codes[x.code]
          /\ row.sid \in DOMAIN sessions /\ S[row.sid] = sessions[row.sid]
      BY WindowsAreTimes, <2>1, <2>3, PurgeTyped, SMTT(60)
    <2>6. row \in Code /\ S[row.sid] \in Session
      BY <2>2, <2>3, Zenon DEF IsTable
    <2>7. new \in Family
      BY <2>1, <2>6, NewFamilyTyped, Zenon
    <2>8. /\ new.code = x.code /\ new.sid = row.sid
          /\ new.kind = "session" => new.absolute_expires_at = S[row.sid].absolute_expires_at
          /\ new.idle_expires_at <= new.absolute_expires_at
          /\ OneCurrentToken(new)
      BY <2>1, <2>6, NewFamilyShape, Zenon
    <2> HIDE DEF C, S, P, row, new
    <2>9. CodesKept(codes, codes') /\ DOMAIN codes' = DOMAIN C /\ codes'[x.code].consumed
      BY <2>2, <2>3, <2>4 DEF CodesKept, KeptCode, IsTable, Code
    <2>10. CASE families' = P /\ minted' = minted
      BY <2>2, <2>4, <2>9, <2>10, QuietStep
    <2>11. CASE /\ id \notin minted.families
                /\ families' = Revoked(F, over, x.now)
                /\ minted' = [minted EXCEPT !.families = @ \cup {id}]
      <3>1. /\ IsTable(F, Families, Family)
            /\ F[id] = new
            /\ DOMAIN F = DOMAIN P \cup {id}
            /\ \A f \in DOMAIN P : f # id => F[f] = P[f]
        BY <2>2, <2>7, Zenon DEF Put, IsTable
      <3> HIDE DEF F, over
      <3>2. DOMAIN families' = DOMAIN F /\ FamiliesKept(F, families')
        BY <2>11, <3>1, RevokedKeeps, ZenonT(60) DEF Revoked
      <3>3. KeptFamily(new, families'[id])
        BY <3>1, <3>2, Zenon DEF FamiliesKept
      <3>4. ASSUME NEW f \in DOMAIN families', f # id
            PROVE  f \in DOMAIN families /\ KeptFamily(families[f], families'[f])
        <4>1. f \in DOMAIN P /\ KeptFamily(P[f], families'[f])
          BY <3>1, <3>2, <3>4, Zenon DEF FamiliesKept
        <4>2. f \in DOMAIN families /\ KeptFamily(families[f], P[f])
          BY <2>2, <4>1, Zenon DEF FamiliesKept
        <4>3. QED BY <4>1, <4>2, Zenon DEF KeptFamily, Unrevoked
      <3>5. /\ minted'.families = minted.families \cup {id}
            /\ minted'.sids = minted.sids /\ minted'.codes = minted.codes
        BY <2>11 DEF TypeOK, Minted
      <3>6. FamilyAdded(id)
        <4>1. id \notin minted.families /\ id \in minted'.families
          BY <2>11, <3>5, Zenon
        <4>2. \A g \in DOMAIN families' : g # id => g \in DOMAIN families
          BY <3>4, Zenon
        <4> HIDE DEF FamilyAdded
        <4>3. families'[id].code = x.code /\ families'[id].sid = row.sid
          BY <2>8, <3>3, Zenon DEF KeptFamily
        <4>4. /\ families'[id].kind = "session" =>
                  families'[id].absolute_expires_at = sessions[row.sid].absolute_expires_at
              /\ families'[id].idle_expires_at <= families'[id].absolute_expires_at
              /\ OneCurrentToken(families'[id])
          BY <2>5, <2>8, <3>3, Zenon DEF KeptFamily
        <4>5. /\ x.code \in DOMAIN codes /\ ~codes[x.code].consumed
              /\ x.code \in DOMAIN codes' /\ codes'[x.code].consumed
              /\ row.sid = codes[x.code].sid
              /\ row.sid \in DOMAIN sessions /\ Unrevoked(sessions[row.sid])
          BY <2>3, <2>5, <2>9, Zenon
        <4>6. QED BY <4>1, <4>2, <4>3, <4>4, <4>5, Zenon DEF FamilyAdded
      <3>7. Minting
        BY <2>4, <2>9, <3>5, <2>2, SMTT(60) DEF Minting, SessionsKept, CodesKept
      <3>8. QED BY <2>2, <2>4, <2>9, <3>4, <3>6, <3>7, ZenonT(60)
                DEF StepShape, SessionsKept, CodesKept
    <2>12. QED BY <2>4, <2>10, <2>11, SMTT(60)
  <1>4. ASSUME NEW now \in Nows, NEW f \in Families, NEW ref \in ClientRefs,
               RefreshOfRecreatedClient(f, ref, now)
        PROVE  StepShape
    <2> DEFINE F == PurgedFamilies(now, ReuseWindow)
    <2>1. now \in Nat BY NowsAreTimes, Zenon
    <2>2. IsTable(F, Families, Family) /\ FamiliesKept(families, F)
      BY WindowsAreTimes, <2>1, PurgeTyped, PurgeKeeps
    <2>3. families' = Restrict(F, DOMAIN F \ {f})
      BY <1>4, ZenonT(60) DEF RefreshOfRecreatedClient
    <2> HIDE DEF F
    <2>4. FamiliesKept(families, families')
      BY <2>2, <2>3, DeletingKeeps, Zenon
    <2>5. QED BY WindowsAreTimes, <1>4, <2>1, <2>4, PurgeKeeps, QuietStep, Zenon DEF RefreshOfRecreatedClient
  <1>5. ASSUME NEW now \in Nows, NEW f \in Families, NEW ref \in ClientRefs,
               NEW n \in 1..MaxSerial, RefreshReuse(f, n, ref, now)
        PROVE  StepShape
    <2> DEFINE F == PurgedFamilies(now, ReuseWindow)
               sids == IF F[f].kind = "session" THEN {F[f].sid} ELSE {}
    <2>1. now \in Nat BY NowsAreTimes, Zenon
    <2>2. /\ IsTable(F, Families, Family) /\ FamiliesKept(families, F)
          /\ IsTable(PurgedSessions(now), Sids, Session)
          /\ SessionsKept(sessions, PurgedSessions(now))
          /\ CodesKept(codes, PurgedCodes(now))
      BY WindowsAreTimes, <2>1, PurgeTyped, PurgeKeeps
    <2>3. f \in DOMAIN F
      BY <1>5, Zenon DEF RefreshReuse, Presented
    <2>4. f \in DOMAIN families /\ families[f].sid = F[f].sid
      BY <2>2, <2>3, Zenon DEF FamiliesKept, KeptFamily
    <2>5. /\ sessions' = Revoked(PurgedSessions(now), sids, now)
          /\ families' = Revoked(F, {f} \cup FamiliesOf(F, sids), now)
          /\ ended' = ended \cup sids /\ minted' = minted
          /\ codes' = PurgedCodes(now) /\ user' = user
      BY <1>5, Zenon DEF RefreshReuse
    <2>6. \A s \in sids : \E g \in DOMAIN families : families[g].sid = s
      BY <2>4, ZenonT(60)
    <2> HIDE DEF F, sids
    <2>7. QED BY <2>1, <2>2, <2>5, <2>6, EndShape, Zenon
  <1>6. ASSUME NEW now \in Nows, NEW f \in Families, NEW ref \in ClientRefs,
               NEW scope \in ScopeSets, RotateRefreshToken(f, ref, scope, now)
        PROVE  StepShape
    <2> DEFINE F == PurgedFamilies(now, ReuseWindow)
               S == PurgedSessions(now)
               row == F[f]
               n == row.current_serial
               idle == Minimum(now + RefreshIdleTtl, row.absolute_expires_at)
               token == [serial |-> n + 1, created_at |-> now]
               next == [row EXCEPT
                          !.tokens = @ \cup {token},
                          !.current_serial = n + 1,
                          !.consumed = @ \cup {[serial |-> n, at |-> now]},
                          !.idle_expires_at = idle]
    <2>1. now \in Nat BY NowsAreTimes
    <2>2. /\ IsTable(F, Families, Family) /\ IsTable(S, Sids, Session)
          /\ FamiliesKept(families, F) /\ SessionsKept(sessions, S)
          /\ CodesKept(codes, PurgedCodes(now))
      BY WindowsAreTimes, <2>1, PurgeTyped, PurgeKeeps
    <2>3. f \in DOMAIN F /\ row \in Family
      BY <1>6, <2>2, Zenon DEF RotateRefreshToken, Presented, IsTable
    <2>4. families' = [F EXCEPT ![f] = next]
      BY <1>6, ZenonT(60) DEF RotateRefreshToken
    <2>5. sessions' = S \/ (row.sid \in DOMAIN S /\
                            sessions' = [S EXCEPT ![row.sid] = Touched(@, now)])
      BY <1>6, Zenon DEF RotateRefreshToken
    <2>6. /\ codes' = PurgedCodes(now) /\ user' = user
          /\ ended' = ended /\ minted' = minted
      BY <1>6, Zenon DEF RotateRefreshToken
    <2> HIDE DEF F, S, row
    <2>7. n \in Nat /\ idle \in Nat /\ idle <= row.absolute_expires_at
      BY <2>1, <2>3, TimeAssumption, SMTT(60) DEF Family, Minimum
    <2> HIDE DEF idle
    <2>8. KeptFamily(row, next)
      <3>1. /\ next.kind = row.kind /\ next.sid = row.sid /\ next.code = row.code
            /\ next.absolute_expires_at = row.absolute_expires_at
            /\ next.revoked_at = row.revoked_at
            /\ next.idle_expires_at = idle
            /\ next.current_serial = n + 1
            /\ next.tokens = row.tokens \cup {token}
        BY <2>3 DEF Family
      <3>2. token.serial = n + 1
        BY Zenon
      <3> HIDE DEF next, token
      <3>3. ASSUME OneCurrentToken(row) PROVE OneCurrentToken(next)
        BY <2>3, <2>7, <3>1, <3>2, <3>3, RotatedHasToken, Zenon
      <3>4. QED BY <2>7, <3>1, <3>3, Zenon DEF KeptFamily
    <2> HIDE DEF next
    <2>9. FamiliesKept(F, families')
      <3>1. KeptFamily(row, row) /\ \A g : KeptFamily(F[g], F[g])
        BY Zenon DEF KeptFamily
      <3>2. QED BY <2>2, <2>3, <2>4, <2>8, <3>1, Zenon DEF FamiliesKept, IsTable, row
    <2>10. SessionsKept(S, sessions')
      <3>1. ASSUME NEW s \in DOMAIN S
            PROVE  KeptSession(S[s], S[s]) /\ KeptSession(S[s], Touched(S[s], now))
        <4>1. S[s] \in Session /\ ref.client_id \in ClientIds
          BY <2>2, Zenon DEF IsTable, ClientIds
        <4>2. KeptSession(S[s], S[s])
          BY Zenon DEF KeptSession
        <4>3. QED BY <2>1, <4>1, <4>2, SessionRowsKept, ZenonT(60)
      <3>2. CASE sessions' = S
        BY <3>1, <3>2, Zenon DEF SessionsKept
      <3>3. CASE sessions' = [S EXCEPT ![row.sid] = Touched(@, now)]
        BY <2>2, <3>1, <3>3, Zenon DEF SessionsKept, IsTable
      <3>4. QED BY <2>5, <3>2, <3>3
    <2>11. QED BY <2>2, <2>6, <2>9, <2>10, KeptTransitive, QuietStep, ZenonT(60)
  <1>7. ASSUME NEW now \in Nows, NEW fs, RevokeFamilies(fs, now) PROVE StepShape
    BY TablesTyped, <1>7, QuietStep, KeptTrivially, RevokedKeeps, ZenonT(60) DEF RevokeFamilies
  <1>8. QED
    BY <1>1, <1>2, <1>3, <1>4, <1>5, <1>6, <1>7, ZenonT(60)
       DEF FamilyNext, RevokeFamilyById, RevokeFamiliesOfClient, RevokeSessionFamiliesOfClient

\* Every step of the object has the shape, given that stored sessions were minted.
LEMMA StepsHaveShape ==
    ASSUME TypeOK, DOMAIN sessions \subseteq minted.sids, [Next]_vars
    PROVE  StepShape
  <1>1. CASE UNCHANGED vars
    BY <1>1, QuietStep, KeptTrivially, ZenonT(60) DEF vars, tables, history
  <1>2. QED BY <1>1, LifecycleShape, SessionShape, GrantShape, FamilyShape, Zenon DEF Next

-----------------------------------------------------------------------------
(* The safety invariants, and the strengthening that makes them inductive.  *)

\* Every id and secret in the tables was minted.
OnlyMinted ==
    /\ DOMAIN sessions \subseteq minted.sids
    /\ DOMAIN codes \subseteq minted.codes
    /\ DOMAIN families \subseteq minted.families
    /\ ended \subseteq minted.sids
    /\ \A c \in DOMAIN codes : codes[c].sid \in minted.sids
    /\ \A f \in DOMAIN families :
        families[f].code \in minted.codes /\ families[f].sid \in minted.sids

\* The row of a session that ended stays revoked until it is purged.
EndedIsRevoked == \A s \in ended \cap DOMAIN sessions : ~Unrevoked(sessions[s])

\* A code that is not spent has produced no family.
UnspentHasNoFamily ==
    \A f \in DOMAIN families :
        families[f].code \in DOMAIN codes => codes[families[f].code].consumed

SafetyInv ==
    /\ OnlyMinted
    /\ EndedIsRevoked
    /\ UnspentHasNoFamily
    /\ EndedSessionHasNoFamily
    /\ DisabledHasNothingLive
    /\ OneFamilyPerCode
    /\ CurrentTokenStored
    /\ ExpiriesNest

\* A step of the right shape preserves the strengthened invariant.
LEMMA ShapePreserves ==
    ASSUME TypeOK, TypeOK', SafetyInv, StepShape
    PROVE  SafetyInv'
  <1> USE DEF SafetyInv
  <1>1. OnlyMinted'
    <2>1. /\ DOMAIN sessions' \subseteq minted'.sids
          /\ DOMAIN codes' \subseteq minted'.codes
          /\ DOMAIN families' \subseteq minted'.families
      BY Zenon DEF OnlyMinted, StepShape, Minting, FamilyAdded
    <2>2. ASSUME NEW s \in ended' PROVE s \in minted'.sids
      <3>1. s \in minted.sids
        <4>1. CASE s \in ended
          BY <4>1, Zenon DEF OnlyMinted
        <4>2. CASE s \notin ended
          <5>1. SessionEnded(s)
            BY <2>2, <4>2, ZenonT(60) DEF StepShape
          <5>2. QED BY <5>1, Zenon DEF SessionEnded, OnlyMinted
        <4>3. QED BY <4>1, <4>2, Zenon
      <3>2. QED BY <3>1, Zenon DEF StepShape, Minting
    <2>3. \A c \in DOMAIN codes' : codes'[c].sid \in minted'.sids
      BY <2>1, Zenon DEF OnlyMinted, StepShape, Minting, CodeAdded, KeptCode
    <2>4. ASSUME NEW f \in DOMAIN families'
          PROVE  families'[f].code \in minted'.codes /\ families'[f].sid \in minted'.sids
      <3>1. CASE FamilyAdded(f)
        BY <3>1, Zenon DEF OnlyMinted, StepShape, Minting, FamilyAdded
      <3>2. CASE f \in DOMAIN families /\ KeptFamily(families[f], families'[f])
        BY <3>2, Zenon DEF OnlyMinted, StepShape, Minting, KeptFamily
      <3>3. QED BY <3>1, <3>2, Zenon DEF StepShape
    <2>5. QED BY <2>1, <2>2, <2>3, <2>4, Zenon DEF OnlyMinted
  <1>2. ASSUME NEW s \in DOMAIN sessions', s \in minted.sids
        PROVE  s \in DOMAIN sessions /\ KeptSession(sessions[s], sessions'[s])
    BY <1>2, Zenon DEF StepShape, SessionAdded
  <1>3. EndedIsRevoked'
    <2>1. ASSUME NEW s \in ended' \cap DOMAIN sessions' PROVE ~Unrevoked(sessions'[s])
      <3>1. CASE s \in ended
        BY <1>2, <2>1, <3>1, Zenon DEF OnlyMinted, EndedIsRevoked, KeptSession, Unrevoked
      <3>2. CASE s \notin ended
        BY <2>1, <3>2, ZenonT(60) DEF StepShape, SessionEnded
      <3>3. QED BY <3>1, <3>2, SMTT(60)
    <2>2. QED BY <2>1, Zenon DEF EndedIsRevoked
  <1>4. UnspentHasNoFamily'
    <2>1. ASSUME NEW f \in DOMAIN families', families'[f].code \in DOMAIN codes'
          PROVE  codes'[families'[f].code].consumed
      <3>1. CASE FamilyAdded(f)
        BY <3>1, Zenon DEF FamilyAdded
      <3>2. CASE f \in DOMAIN families /\ KeptFamily(families[f], families'[f])
        <4>1. families'[f].code = families[f].code /\ families[f].code \in minted.codes
          BY <3>2, Zenon DEF KeptFamily, OnlyMinted
        <4>2. /\ families[f].code \in DOMAIN codes
              /\ KeptCode(codes[families[f].code], codes'[families[f].code])
          BY <2>1, <4>1, Zenon DEF StepShape, CodeAdded
        <4>3. QED BY <3>2, <4>1, <4>2, Zenon DEF UnspentHasNoFamily, KeptCode
      <3>3. QED BY <3>1, <3>2, Zenon DEF StepShape
    <2>2. QED BY <2>1, Zenon DEF UnspentHasNoFamily
  <1>5. EndedSessionHasNoFamily'
    <2>1. ASSUME NEW f \in DOMAIN families', families'[f].kind = "session",
                 families'[f].sid \in ended'
          PROVE  ~Unrevoked(families'[f])
      <3>1. CASE families'[f].sid \notin ended
        BY <2>1, <3>1, ZenonT(60) DEF StepShape, SessionEnded
      <3>2. CASE families'[f].sid \in ended /\ FamilyAdded(f)
        BY <3>2, ZenonT(60) DEF FamilyAdded, EndedIsRevoked
      <3>3. CASE /\ families'[f].sid \in ended /\ f \in DOMAIN families
                 /\ KeptFamily(families[f], families'[f])
        BY <2>1, <3>3, Zenon DEF KeptFamily, EndedSessionHasNoFamily, Unrevoked
      <3>4. QED BY <3>1, <3>2, <3>3, ZenonT(60) DEF StepShape
    <2>2. QED BY <2>1, Zenon DEF EndedSessionHasNoFamily
  <1>6. DisabledHasNothingLive'
    <2>1. CASE user.disabled /\ user'.disabled
      <3>1. \A s \in DOMAIN sessions' : ~Unrevoked(sessions'[s])
        BY <2>1, Zenon DEF StepShape, SessionAdded, KeptSession, DisabledHasNothingLive, Unrevoked
      <3>2. \A f \in DOMAIN families' : ~Unrevoked(families'[f])
        BY <2>1, ZenonT(60) DEF StepShape, FamilyAdded, KeptFamily, DisabledHasNothingLive, Unrevoked
      <3>3. QED BY <3>1, <3>2, Zenon DEF DisabledHasNothingLive
    <2>2. CASE ~user.disabled /\ user'.disabled
      BY <2>2, ZenonT(60) DEF StepShape, DisabledHasNothingLive
    <2>3. CASE ~user'.disabled
      BY <2>3, Zenon DEF DisabledHasNothingLive
    <2>4. QED BY <2>1, <2>2, <2>3, SMTT(60)
  <1>7. OneFamilyPerCode'
    <2>1. ASSUME NEW f \in DOMAIN families', NEW g \in DOMAIN families',
                 families'[f].code = families'[g].code, f # g
          PROVE  FALSE
      <3>1. ASSUME NEW a \in DOMAIN families', NEW b \in DOMAIN families', a # b,
                   families'[a].code = families'[b].code, FamilyAdded(a)
            PROVE  FALSE
        <4>1. b \in DOMAIN families /\ ~FamilyAdded(b)
          BY <3>1, Zenon DEF FamilyAdded, OnlyMinted
        <4>2. families[b].code = families'[a].code
          BY <3>1, <4>1, Zenon DEF StepShape, KeptFamily
        <4>3. QED BY <3>1, <4>1, <4>2, Zenon DEF FamilyAdded, UnspentHasNoFamily
      <3>2. ~FamilyAdded(f) /\ ~FamilyAdded(g)
        BY <2>1, <3>1, Zenon
      <3>3. /\ f \in DOMAIN families /\ families[f].code = families'[f].code
            /\ g \in DOMAIN families /\ families[g].code = families'[g].code
        BY <2>1, <3>2, Zenon DEF StepShape, KeptFamily
      <3>4. QED BY <2>1, <3>3, Zenon DEF OneFamilyPerCode
    <2>2. QED BY <2>1, Zenon DEF OneFamilyPerCode
  <1>8. CurrentTokenStored'
    BY ZenonT(60) DEF StepShape, FamilyAdded, KeptFamily, CurrentTokenStored
  <1>9. ExpiriesNest'
    <2>1. \A s \in DOMAIN sessions' :
            sessions'[s].idle_expires_at <= sessions'[s].absolute_expires_at
      BY Zenon DEF StepShape, SessionAdded, KeptSession, ExpiriesNest
    <2>2. \A f \in DOMAIN families' :
            families'[f].idle_expires_at <= families'[f].absolute_expires_at
      BY Zenon DEF StepShape, FamilyAdded, KeptFamily, ExpiriesNest
    <2>3. ASSUME NEW f \in DOMAIN families', families'[f].kind = "session",
                 families'[f].sid \in DOMAIN sessions'
          PROVE  families'[f].absolute_expires_at
                    = sessions'[families'[f].sid].absolute_expires_at
      <3> DEFINE s == families'[f].sid
      <3>1. CASE FamilyAdded(f)
        <4>1. /\ s \in DOMAIN sessions
              /\ families'[f].absolute_expires_at = sessions[s].absolute_expires_at
          BY <2>3, <3>1, ZenonT(60) DEF FamilyAdded
        <4>2. sessions'[s].absolute_expires_at = sessions[s].absolute_expires_at
          BY <1>2, <2>3, <4>1, Zenon DEF OnlyMinted, KeptSession
        <4>3. QED BY <4>1, <4>2, Zenon
      <3>2. CASE f \in DOMAIN families /\ KeptFamily(families[f], families'[f])
        <4>1. /\ families[f].kind = "session" /\ families[f].sid = s
              /\ families'[f].absolute_expires_at = families[f].absolute_expires_at
          BY <2>3, <3>2, Zenon DEF KeptFamily
        <4>2. /\ s \in DOMAIN sessions
              /\ sessions'[s].absolute_expires_at = sessions[s].absolute_expires_at
          BY <1>2, <2>3, <3>2, <4>1, Zenon DEF OnlyMinted, KeptSession
        <4>3. QED BY <3>2, <4>1, <4>2, Zenon DEF ExpiriesNest
      <3>3. QED BY <3>1, <3>2, ZenonT(60) DEF StepShape
    <2>4. QED BY <2>1, <2>2, <2>3, Zenon DEF ExpiriesNest
  <1>10. QED BY <1>1, <1>3, <1>4, <1>5, <1>6, <1>7, <1>8, <1>9, Zenon

\* The strengthened invariant holds of every behaviour.
THEOREM Safety == Spec => []SafetyInv
  <1>1. Init => SafetyInv
    BY Zenon DEF Init, NoRows, NoUser, SafetyInv, OnlyMinted, EndedIsRevoked, UnspentHasNoFamily,
           EndedSessionHasNoFamily, DisabledHasNothingLive, OneFamilyPerCode,
           CurrentTokenStored, ExpiriesNest
  <1>2. TypeOK /\ TypeOK' /\ SafetyInv /\ [Next]_vars => SafetyInv'
    BY StepsHaveShape, ShapePreserves, Zenon DEF SafetyInv, OnlyMinted
  <1>3. QED BY <1>1, <1>2, TypeCorrect, PTL DEF Spec

\* No family bound to a session survives the end of that session.
THEOREM LogoutReachesFamilies == Spec => []EndedSessionHasNoFamily
  <1>1. SafetyInv => EndedSessionHasNoFamily
    BY DEF SafetyInv
  <1>2. QED BY <1>1, Safety, PTL

\* A disabled user has neither a usable session nor a usable family.
THEOREM DisablingReachesEverything == Spec => []DisabledHasNothingLive
  <1>1. SafetyInv => DisabledHasNothingLive
    BY DEF SafetyInv
  <1>2. QED BY <1>1, Safety, PTL

\* A code produces at most one family.
THEOREM CodesAreSingleUse == Spec => []OneFamilyPerCode
  <1>1. SafetyInv => OneFamilyPerCode
    BY DEF SafetyInv
  <1>2. QED BY <1>1, Safety, PTL

\* Every stored family has exactly one current token, whatever is purged.
THEOREM CurrentTokenIsKept == Spec => []CurrentTokenStored
  <1>1. SafetyInv => CurrentTokenStored
    BY DEF SafetyInv
  <1>2. QED BY <1>1, Safety, PTL

\* Idle expiries stay within absolute ones, and families within their session.
THEOREM ExpiriesAreNested == Spec => []ExpiriesNest
  <1>1. SafetyInv => ExpiriesNest
    BY DEF SafetyInv
  <1>2. QED BY <1>1, Safety, PTL

\* A revoked row is never changed back, and a deleted key never returns.
THEOREM RevocationStands == Spec => RevocationIsFinal
  <1> DEFINE A == /\ \A s \in DOMAIN sessions' : s \in minted.sids =>
                        /\ s \in DOMAIN sessions
                        /\ ~Unrevoked(sessions[s]) =>
                             sessions'[s].revoked_at = sessions[s].revoked_at
                  /\ \A f \in DOMAIN families' : f \in minted.families =>
                        /\ f \in DOMAIN families
                        /\ ~Unrevoked(families[f]) =>
                             families'[f].revoked_at = families[f].revoked_at
  <1>1. TypeOK /\ SafetyInv /\ [Next]_vars => [A]_vars
    <2>1. StepShape => A
      BY Zenon DEF StepShape, SessionAdded, FamilyAdded, KeptSession, KeptFamily
    <2>2. QED BY <2>1, StepsHaveShape, Zenon DEF SafetyInv, OnlyMinted
  <1>2. RevocationIsFinal <=> [][A]_vars
    BY DEF RevocationIsFinal
  <1>3. QED BY <1>1, <1>2, TypeCorrect, Safety, PTL DEF Spec

-----------------------------------------------------------------------------
(* Consent.                                                                *)

ConsentHeld(g, given) ==
    \A c \in DOMAIN g : \A s \in g[c].scopes :
        [client_id |-> c, created_at |-> g[c].client_created_at, scope |-> s] \in given

\* Deleting grants leaves only scopes that were consented to.
LEMMA FewerGrants ==
    ASSUME NEW g, IsTable(g, ClientIds, Grant), NEW given, ConsentHeld(g, given),
           NEW S, S \subseteq DOMAIN g
    PROVE  ConsentHeld(Restrict(g, S), given)
  <1>1. DOMAIN Restrict(g, S) = S /\ \A k \in S : Restrict(g, S)[k] = g[k]
    BY RestrictTable
  <1>2. ASSUME NEW c \in DOMAIN Restrict(g, S), NEW s \in Restrict(g, S)[c].scopes
        PROVE  [client_id |-> c, created_at |-> Restrict(g, S)[c].client_created_at, scope |-> s]
                    \in given
    <2>1. c \in DOMAIN g /\ Restrict(g, S)[c] = g[c]
      BY <1>1, <1>2, Zenon
    <2>2. QED BY <1>2, <2>1, Zenon DEF ConsentHeld
  <1>3. QED BY <1>2, Zenon DEF ConsentHeld

\* grantFor deletes, at most, the grant of an earlier incarnation of the client.
LEMMA CurrentGrantsHeld ==
    ASSUME TypeOK, ConsentHeld(grants, consented), NEW ref
    PROVE  /\ ConsentHeld(CurrentGrants(ref), consented)
           /\ IsTable(CurrentGrants(ref), ClientIds, Grant)
           /\ \A c \in DOMAIN CurrentGrants(ref) :
                /\ c \in DOMAIN grants
                /\ CurrentGrants(ref)[c] = grants[c]
                /\ c = ref.client_id => grants[c].client_created_at = ref.created_at
  <1> DEFINE S == {c \in DOMAIN grants :
                    c = ref.client_id => grants[c].client_created_at = ref.created_at}
  <1>1. S \subseteq DOMAIN grants /\ IsTable(grants, ClientIds, Grant)
    BY Zenon DEF TypeOK
  <1>2. /\ ConsentHeld(Restrict(grants, S), consented)
        /\ IsTable(Restrict(grants, S), ClientIds, Grant)
        /\ DOMAIN Restrict(grants, S) = S
        /\ \A c \in S : Restrict(grants, S)[c] = grants[c]
    BY <1>1, FewerGrants, RestrictTable, Zenon
  <1>3. QED BY <1>2, Zenon DEF CurrentGrants

\* recordConsent adds the scopes just consented to, to those held by the same
\* incarnation of the client.
LEMMA ConsentRecorded ==
    ASSUME TypeOK, ConsentHeld(grants, consented),
           NEW ref \in ClientRefs, NEW scope \in ScopeSets, GrantConsent(ref, scope)
    PROVE  ConsentHeld(grants', consented')
  <1> DEFINE new == {[client_id |-> ref.client_id, created_at |-> ref.created_at, scope |-> s] :
                        s \in scope}
             row == [client_created_at |-> ref.created_at,
                     scopes |-> GrantedScopes(ref) \cup scope]
  <1>1. grants' = Put(CurrentGrants(ref), ref.client_id, row) /\ consented' = consented \cup new
    BY Zenon DEF GrantConsent
  <1>2. DOMAIN grants' = DOMAIN CurrentGrants(ref) \cup {ref.client_id}
    BY <1>1, Zenon DEF Put
  <1>3. ASSUME NEW c \in DOMAIN grants', NEW s \in grants'[c].scopes
        PROVE  [client_id |-> c, created_at |-> grants'[c].client_created_at, scope |-> s]
                    \in consented'
    <2>1. CASE c # ref.client_id
      <3>1. c \in DOMAIN CurrentGrants(ref) /\ grants'[c] = CurrentGrants(ref)[c]
        BY <1>1, <1>2, <2>1, Zenon DEF Put
      <3>2. [client_id |-> c, created_at |-> grants'[c].client_created_at, scope |-> s]
                \in consented
        BY <1>3, <3>1, CurrentGrantsHeld, Zenon DEF ConsentHeld
      <3>3. QED BY <1>1, <3>2, Zenon
    <2>2. CASE c = ref.client_id
      <3>1. grants'[c] = row
        BY <1>1, <2>2, Zenon DEF Put
      <3>2. row.client_created_at = ref.created_at /\ row.scopes = GrantedScopes(ref) \cup scope
        BY Zenon
      <3>3. CASE s \in scope
        BY <1>1, <2>2, <3>1, <3>2, <3>3, Zenon
      <3>4. CASE s \in GrantedScopes(ref)
        <4>1. c \in DOMAIN CurrentGrants(ref) /\ s \in grants[c].scopes
          BY <2>2, <3>4, Zenon DEF GrantedScopes
        <4>2. c \in DOMAIN grants /\ grants[c].client_created_at = ref.created_at
          BY <2>2, <4>1, CurrentGrantsHeld, Zenon
        <4>3. [client_id |-> c, created_at |-> grants[c].client_created_at, scope |-> s]
                \in consented
          BY <4>1, <4>2, Zenon DEF ConsentHeld
        <4>4. grants'[c].client_created_at = grants[c].client_created_at
          BY <3>1, <3>2, <4>2, Zenon
        <4>5. QED BY <1>1, <4>3, <4>4, Zenon
      <3>5. QED BY <1>3, <3>1, <3>2, <3>3, <3>4, Zenon
    <2>3. QED BY <2>1, <2>2, Zenon
  <1>4. QED BY <1>3, Zenon DEF ConsentHeld

\* Every step leaves the grants to consents that were given.
LEMMA ConsentKept ==
    ASSUME TypeOK, ConsentHeld(grants, consented), Next
    PROVE  ConsentHeld(grants', consented')
  <1> USE DEF tables, history
  <1>0. IsTable(grants, ClientIds, Grant)
    BY Zenon DEF TypeOK
  <1>1. CASE LifecycleNext
    <2>1. CASE Destroy
      BY <2>1, Zenon DEF Destroy, NoRows, ConsentHeld
    <2>2. CASE ~Destroy
      <3>1. grants' = grants /\ consented' = consented
        BY <1>1, <2>2, Zenon DEF LifecycleNext, Tick, Restart, InitUser, SetGroups, Enable,
                Disable, RevokeAll, EndEverything, PurgeOnly
      <3>2. QED BY <3>1, Zenon
    <2>3. QED BY <2>1, <2>2, Zenon
  <1>2. CASE SessionNext
    <2>1. consented' = consented /\ \/ grants' = grants
                                    \/ \E ref \in ClientRefs : grants' = CurrentGrants(ref)
      <3> DEFINE G == consented' = consented /\ \/ grants' = grants
                                                \/ \E ref \in ClientRefs : grants' = CurrentGrants(ref)
      <3>a. PICK now \in Nows : SessionStep(now)
        BY <1>2, Zenon DEF SessionNext
      <3>1. ASSUME NEW sid \in Sids, NEW ref \in ClientRefs, NEW scope \in ScopeSets,
                   NEW code \in Codes,
                   \/ AuthorizeWithSession(sid, ref, scope, code, now)
                   \/ CreateSession(sid, ref, scope, code, now)
                   \/ RotateSession(sid, ref, scope, code, now)
            PROVE  G
        BY <3>1, Zenon DEF AuthorizeWithSession, CreateSession, RotateSession
      <3>2. ASSUME NEW sid \in Sids, NEW ref \in ClientRefs, NEW scope \in ScopeSets,
                   ConsentRequired(sid, ref, scope, now)
            PROVE  G
        BY <3>2, Zenon DEF ConsentRequired
      <3>3. ASSUME NEW sid, RevokeSession(sid, now) PROVE G
        BY <3>3, Zenon DEF RevokeSession, EndSessions
      <3>4. ASSUME NEW except, RevokeSessions(except, now) PROVE G
        BY <3>4, Zenon DEF RevokeSessions, EndSessions
      <3> HIDE DEF G
      <3>5. G
        BY <3>a, <3>1, <3>2, <3>3, <3>4, Zenon DEF SessionStep
      <3>6. QED BY <3>5, Zenon DEF G
    <2>2. QED BY <2>1, CurrentGrantsHeld, Zenon
  <1>3. CASE GrantNext
    <2>1. ASSUME NEW S, S \subseteq DOMAIN grants, grants' = Restrict(grants, S),
                 consented' = consented
          PROVE  ConsentHeld(grants', consented')
      BY <1>0, <2>1, FewerGrants, Zenon
    <2>2. ASSUME NEW refs \in SUBSET ClientRefs, ListGrants(refs)
          PROVE  ConsentHeld(grants', consented')
      <3> DEFINE S == {c \in DOMAIN grants : \E r \in refs :
                        r.client_id = c /\ r.created_at = grants[c].client_created_at}
      <3>1. S \subseteq DOMAIN grants /\ grants' = Restrict(grants, S) /\ consented' = consented
        BY <2>2, Zenon DEF ListGrants
      <3>2. QED BY <2>1, <3>1, Zenon
    <2>3. ASSUME NEW client \in ClientIds, NEW now \in Nows, RevokeGrant(client, now)
          PROVE  ConsentHeld(grants', consented')
      <3>1. /\ DOMAIN grants \ {client} \subseteq DOMAIN grants
            /\ grants' = Restrict(grants, DOMAIN grants \ {client})
            /\ consented' = consented
        BY <2>3, Zenon DEF RevokeGrant
      <3>2. QED BY <2>1, <3>1, Zenon
    <2>4. QED BY <1>3, <2>2, <2>3, ConsentRecorded, Zenon DEF GrantNext
  <1>4. CASE FamilyNext
    <2>1. grants' = grants /\ consented' = consented
      <3> DEFINE G == grants' = grants /\ consented' = consented
      <3>1. ASSUME NEW code, NEW ref, NEW now, BeginExchange(code, ref, now) PROVE G
        BY <3>1, Zenon DEF BeginExchange
      <3>2. ASSUME NEW x, NEW id, ExchangeReplay(x) \/ ExchangeRefused(x) \/ ExchangeCode(x, id)
            PROVE  G
        BY <3>2, Zenon DEF ExchangeReplay, ExchangeRefused, ExchangeCode, FinishExchange
      <3>3. ASSUME NEW now, NEW f, NEW ref, NEW n, NEW scope,
                   \/ RefreshOfRecreatedClient(f, ref, now)
                   \/ RefreshReuse(f, n, ref, now)
                   \/ RotateRefreshToken(f, ref, scope, now)
            PROVE  G
        BY <3>3, Zenon DEF RefreshOfRecreatedClient, RefreshReuse, RotateRefreshToken
      <3>4. ASSUME NEW now, NEW fs, RevokeFamilies(fs, now) PROVE G
        BY <3>4, Zenon DEF RevokeFamilies
      <3> HIDE DEF G
      <3>5. G
        BY <1>4, <3>1, <3>2, <3>3, <3>4, Zenon DEF FamilyNext, RevokeFamilyById,
              RevokeFamiliesOfClient, RevokeSessionFamiliesOfClient
      <3>6. QED BY <3>5, Zenon DEF G
    <2>2. QED BY <2>1, Zenon
  <1>5. QED BY <1>1, <1>2, <1>3, <1>4, Zenon DEF Next

\* A stored grant holds only scopes consented to for that incarnation of the client.
THEOREM ConsentIsOfThisClient == Spec => []ConsentOfThisClient
  <1>1. Init => ConsentOfThisClient
    BY Zenon DEF Init, NoRows, ConsentOfThisClient
  <1>2. TypeOK /\ ConsentOfThisClient /\ [Next]_vars => ConsentOfThisClient'
    <2>1. ASSUME ConsentOfThisClient, UNCHANGED vars PROVE ConsentOfThisClient'
      BY <2>1, Zenon DEF vars, tables, history, ConsentOfThisClient
    <2>2. ConsentOfThisClient <=> ConsentHeld(grants, consented)
      BY Zenon DEF ConsentOfThisClient, ConsentHeld
    <2>3. ConsentOfThisClient' <=> ConsentHeld(grants', consented')
      BY Zenon DEF ConsentOfThisClient, ConsentHeld
    <2>4. QED BY <2>1, <2>2, <2>3, ConsentKept, Zenon
  <1>3. QED BY <1>1, <1>2, TypeCorrect, PTL DEF Spec

-----------------------------------------------------------------------------
(* Detection of reuse.                                                     *)

\* Every consumed token is behind the current one; its successor, where stored, was
\* created when it was consumed; and it is stored, unless that was before `from`.
Traced(row, from) ==
    /\ OneCurrentToken(row)
    /\ \A c \in row.consumed :
        /\ c.serial < row.current_serial
        /\ \A t \in row.tokens : t.serial = c.serial + 1 => t.created_at = c.at
        /\ c.at >= from => \E t \in row.tokens : t.serial = c.serial

AllTraced(F, from) == \A f \in DOMAIN F : Traced(F[f], from)

\* No handler, suspended ones included, is ahead of the clock.
ReuseInv ==
    /\ AllTraced(families, clock - ReuseWindow)
    /\ \A x \in exchanges : x.now <= clock

\* The fields tracing depends on.
LEMMA TracedByFields ==
    ASSUME NEW a, NEW b, NEW from, Traced(a, from), b.tokens = a.tokens,
           b.consumed = a.consumed, b.current_serial = a.current_serial
    PROVE  Traced(b, from)
  BY Zenon DEF Traced, OneCurrentToken

\* Revocation changes none of them.
LEMMA RevokedTraced ==
    ASSUME NEW F, IsTable(F, Families, Family), NEW from, AllTraced(F, from), NEW ks, NEW now
    PROVE  AllTraced(Revoked(F, ks, now), from)
  <1>1. DOMAIN Revoked(F, ks, now) = DOMAIN F
    BY Zenon DEF Revoked
  <1>2. ASSUME NEW f \in DOMAIN F PROVE Traced(Revoked(F, ks, now)[f], from)
    <2>1. PICK r : r = F[f] OBVIOUS
    <2>2. r \in Family /\ Traced(r, from)
      BY <2>1, Zenon DEF IsTable, AllTraced
    <2>3. Revoked(F, ks, now)[f] = r \/ Revoked(F, ks, now)[f] = [r EXCEPT !.revoked_at = now]
      BY <2>1, Zenon DEF Revoked
    <2>4. PICK q : q = [r EXCEPT !.revoked_at = now] BY Zenon
    <2>5. q.tokens = r.tokens /\ q.consumed = r.consumed /\ q.current_serial = r.current_serial
      BY <2>2, <2>4 DEF Family
    <2>6. Traced(q, from)
      BY <2>2, <2>5, TracedByFields, Zenon
    <2>7. QED BY <2>2, <2>3, <2>4, <2>6, Zenon
  <1>3. QED BY <1>1, <1>2, Zenon DEF AllTraced

\* Deleting families keeps the others as they were.
LEMMA RestrictTraced ==
    ASSUME NEW F, IsTable(F, Families, Family), NEW from, AllTraced(F, from),
           NEW S, S \subseteq DOMAIN F
    PROVE  AllTraced(Restrict(F, S), from)
  <1>1. DOMAIN Restrict(F, S) = S /\ \A k \in S : Restrict(F, S)[k] = F[k]
    BY RestrictTable
  <1>2. ASSUME NEW f \in DOMAIN Restrict(F, S) PROVE Traced(Restrict(F, S)[f], from)
    <2>1. f \in DOMAIN F /\ Restrict(F, S)[f] = F[f]
      BY <1>1, <1>2, Zenon
    <2>2. QED BY <2>1, Zenon DEF AllTraced
  <1>3. QED BY <1>2, Zenon DEF AllTraced

\* A purge takes a token whose successor is older than the window: for a consumed one,
\* a token consumed before the window.
LEMMA PurgedTokensTraced ==
    ASSUME NEW row \in Family, NEW from \in Int, Traced(row, from),
           NEW now \in Nat, NEW window \in Nat, now - window <= from,
           NEW left, left = PurgedTokens(row.tokens, now, window),
           NEW next, next.tokens = left, next.consumed = row.consumed,
           next.current_serial = row.current_serial, OneCurrentToken(next)
    PROVE  Traced(next, from)
  <1>1. left \subseteq row.tokens
    BY Zenon DEF PurgedTokens
  <1>2. /\ row.tokens \subseteq Token
        /\ row.consumed \subseteq [serial : Nat, at : Nat]
    BY DEF Family
  <1>3. ASSUME NEW c \in row.consumed, c.at >= from PROVE \E t \in left : t.serial = c.serial
    <2>1. PICK t \in row.tokens : t.serial = c.serial
      BY <1>3, Zenon DEF Traced
    <2>2. ASSUME NEW u \in row.tokens, u.serial = t.serial + 1, u.created_at < now - window
          PROVE  FALSE
      <3>1. u.created_at = c.at
        BY <2>1, <2>2, Zenon DEF Traced
      <3>2. c.at \in Nat
        BY <1>2
      <3>3. QED BY <1>3, <2>2, <3>1, <3>2
    <2>3. t \in left
      BY <2>2, Zenon DEF PurgedTokens
    <2>4. QED BY <2>1, <2>3, Zenon
  <1>4. QED BY <1>1, <1>3, Zenon DEF Traced

\* Every purge reaches back at least as far as the reuse window.
LEMMA PurgedTraced ==
    ASSUME TypeOK, ReuseWindow <= PURGE_GRACE_SECONDS, ReuseInv,
           NEW now \in Nat, now <= clock, NEW window \in {PURGE_GRACE_SECONDS, ReuseWindow}
    PROVE  AllTraced(PurgedFamilies(now, window), clock - ReuseWindow)
  <1>1. window \in Nat /\ ReuseWindow \in Nat /\ clock \in Nat /\ window >= ReuseWindow
    BY WindowsAreTimes DEF TypeOK
  <1>2. PICK from \in Int : from = clock - ReuseWindow /\ now - window <= from
    BY <1>1
  <1>3. ASSUME NEW f \in DOMAIN PurgedFamilies(now, window)
        PROVE  Traced(PurgedFamilies(now, window)[f], from)
    <2>1. PICK r : r = families[f] OBVIOUS
    <2>2. PICK left : left = PurgedTokens(r.tokens, now, window) OBVIOUS
    <2>3. PICK q : q = PurgedFamilies(now, window)[f] BY Zenon
    <2>4. f \in DOMAIN families /\ q = [r EXCEPT !.tokens = left] /\ KeptFamily(r, q)
      <3>1. f \in DOMAIN families /\ q = [families[f] EXCEPT !.tokens = PurgedTokens(@, now, window)]
        BY <1>1, <1>3, <2>3, PurgeTyped
      <3>2. KeptFamily(r, q)
        BY <1>1, <1>3, <2>1, <2>3, PurgeKeeps, Zenon DEF FamiliesKept
      <3>3. QED BY <2>1, <2>2, <3>1, <3>2, Zenon
    <2>5. r \in Family /\ Traced(r, from)
      BY <1>2, <2>1, <2>4, Zenon DEF TypeOK, IsTable, ReuseInv, AllTraced
    <2>6. q.tokens = left /\ q.consumed = r.consumed /\ q.current_serial = r.current_serial
      BY <2>4, <2>5 DEF Family
    <2>7. OneCurrentToken(q)
      BY <2>4, <2>5, Zenon DEF KeptFamily, Traced
    <2>8. QED BY <1>1, <1>2, <2>2, <2>3, <2>5, <2>6, <2>7, PurgedTokensTraced, Zenon
  <1>4. QED BY <1>2, <1>3, Zenon DEF AllTraced

\* A rotation consumes the current token, creates its successor at that moment, and
\* leaves both stored.
LEMMA RotationTraced ==
    ASSUME NEW row \in Family, NEW from \in Int, Traced(row, from), NEW now \in Nat,
           NEW n, n = row.current_serial, NEW next,
           next.tokens = row.tokens \cup {[serial |-> n + 1, created_at |-> now]},
           next.current_serial = n + 1,
           next.consumed = row.consumed \cup {[serial |-> n, at |-> now]}
    PROVE  Traced(next, from)
  <1>1. PICK new : new = [serial |-> n + 1, created_at |-> now] BY Zenon
  <1>2. PICK old : old = [serial |-> n, at |-> now] BY Zenon
  <1>3. /\ new.serial = n + 1 /\ new.created_at = now /\ old.serial = n /\ old.at = now
        /\ n \in Nat /\ row.tokens \subseteq Token
        /\ row.consumed \subseteq [serial : Nat, at : Nat]
    BY <1>1, <1>2 DEF Family
  <1>4. OneCurrentToken(next)
    <2>1. OneCurrentToken(row)
      BY Zenon DEF Traced
    <2>2. QED BY <1>1, <1>3, <2>1, RotatedHasToken, Zenon
  <1>5. ASSUME NEW c \in row.consumed
        PROVE  /\ c.serial < n + 1 /\ c.serial + 1 # n + 1
               /\ \A t \in row.tokens : t.serial = c.serial + 1 => t.created_at = c.at
               /\ c.at >= from => \E t \in row.tokens : t.serial = c.serial
    <2>0. c.serial < n
      BY Zenon DEF Traced
    <2>1. c.serial < n /\ c.serial \in Nat
      BY <1>3, <1>5, <2>0
    <2>2. c.serial < n + 1 /\ c.serial + 1 # n + 1
      BY <1>3, <2>1
    <2>3. QED BY <2>2, Zenon DEF Traced
  <1>6. PICK t \in row.tokens : t.serial = n
    BY Zenon DEF Traced, OneCurrentToken
  <1>7. \A u \in row.tokens : u.serial # n + 1
    BY <1>3 DEF Traced, OneCurrentToken, Token
  <1>8. n < n + 1
    BY <1>3
  <1>9. ASSUME NEW c \in next.consumed
        PROVE  /\ c.serial < next.current_serial
               /\ \A u \in next.tokens : u.serial = c.serial + 1 => u.created_at = c.at
               /\ c.at >= from => \E u \in next.tokens : u.serial = c.serial
    <2>1. CASE c = old
      BY <1>1, <1>2, <1>3, <1>6, <1>7, <1>8, <2>1, Zenon
    <2>2. CASE c # old
      <3>1. c \in row.consumed
        BY <1>2, <2>2, Zenon
      <3>2. /\ c.serial < n + 1 /\ c.serial + 1 # n + 1
            /\ \A u \in row.tokens : u.serial = c.serial + 1 => u.created_at = c.at
            /\ c.at >= from => \E u \in row.tokens : u.serial = c.serial
        BY <1>5, <3>1, Zenon
      <3>3. \A u \in next.tokens : u.serial = c.serial + 1 => u.created_at = c.at
        <4>1. ASSUME NEW u \in next.tokens, u.serial = c.serial + 1 PROVE u \in row.tokens
          BY <1>1, <1>3, <3>2, <4>1, Zenon
        <4>2. QED BY <3>2, <4>1, Zenon
      <3>4. QED BY <3>2, <3>3, Zenon
    <2>3. QED BY <2>1, <2>2, Zenon
  <1>10. QED BY <1>4, <1>9, Zenon DEF Traced

\* A new family has consumed nothing.
LEMMA NewFamilyTraced ==
    ASSUME NEW code, NEW ref, NEW row, NEW session, NEW now, NEW from
    PROVE  Traced(NewFamily(code, ref, row, session, now), from)
  <1>1. PICK q : q = NewFamily(code, ref, row, session, now) BY Zenon
  <1>2. /\ q.tokens = {[serial |-> 1, created_at |-> now]} /\ q.current_serial = 1
        /\ q.consumed = {}
    BY <1>1, Zenon DEF NewFamily
  <1>3. PICK t : t = [serial |-> 1, created_at |-> now] BY Zenon
  <1>4. q.tokens = {t} /\ t.serial = 1 /\ 1 <= 1
    BY <1>2, <1>3
  <1>5. OneCurrentToken(q)
    BY <1>2, <1>4, Zenon DEF OneCurrentToken
  <1>6. QED BY <1>1, <1>2, <1>5, Zenon DEF Traced

\* The lifecycle methods, restarts and the clock.
LEMMA LifecycleTraced ==
    ASSUME TypeOK, ReuseWindow <= PURGE_GRACE_SECONDS, ReuseInv, LifecycleNext
    PROVE  ReuseInv'
  <1> USE DEF tables, history
  <1>0. /\ IsTable(families, Families, Family) /\ clock \in Nat /\ ReuseWindow \in Nat
        /\ exchanges \subseteq Exchange
    BY WindowsAreTimes, Zenon DEF TypeOK
  <1>1. CASE Tick
    <2>1. /\ clock' = clock + 1 /\ families' = families /\ exchanges' = exchanges
      BY <1>1, Zenon DEF Tick
    <2>2. ASSUME NEW f \in DOMAIN families PROVE Traced(families[f], (clock + 1) - ReuseWindow)
      <3>1. PICK r : r = families[f] OBVIOUS
      <3>2. r \in Family /\ Traced(r, clock - ReuseWindow)
        BY <1>0, <3>1, Zenon DEF IsTable, ReuseInv, AllTraced
      <3>3. \A c \in r.consumed : c.at >= (clock + 1) - ReuseWindow => c.at >= clock - ReuseWindow
        BY <1>0, <3>2 DEF Family
      <3>4. QED BY <3>1, <3>2, <3>3, Zenon DEF Traced
    <2>3. \A x \in exchanges : x.now <= clock + 1
      BY <1>0 DEF ReuseInv, Exchange
    <2>4. QED BY <2>1, <2>2, <2>3, Zenon DEF ReuseInv, AllTraced
  <1>2. ASSUME clock' = clock, families' = families, exchanges' \subseteq exchanges
        PROVE  ReuseInv'
    BY <1>2, Zenon DEF ReuseInv
  <1>3. CASE Restart
    BY <1>2, <1>3, Zenon DEF Restart
  <1>4. CASE (\E groups \in SUBSET Groups : InitUser(groups) \/ SetGroups(groups)) \/ Enable
    BY <1>2, <1>4, Zenon DEF InitUser, SetGroups, Enable
  <1>5. CASE Destroy
    <2>1. clock' = clock /\ families' = NoRows /\ exchanges' = exchanges
      BY <1>5, Zenon DEF Destroy
    <2>2. AllTraced(NoRows, clock - ReuseWindow)
      BY Zenon DEF AllTraced, NoRows
    <2>3. QED BY <2>1, <2>2, Zenon DEF ReuseInv
  <1>6. ASSUME NEW now \in Nows, Disable(now) \/ RevokeAll(now) PROVE ReuseInv'
    <2>1. /\ clock' = clock /\ exchanges' = exchanges
          /\ families' = Revoked(families, DOMAIN families, now)
      BY <1>6, Zenon DEF Disable, RevokeAll, EndEverything
    <2>2. AllTraced(families, clock - ReuseWindow)
      BY Zenon DEF ReuseInv
    <2>3. AllTraced(families', clock - ReuseWindow)
      BY <1>0, <2>1, <2>2, RevokedTraced, Zenon
    <2>4. QED BY <2>1, <2>3, Zenon DEF ReuseInv
  <1>7. ASSUME NEW now \in Nows, NEW window \in {PURGE_GRACE_SECONDS, ReuseWindow},
               PurgeOnly(now, window)
        PROVE  ReuseInv'
    <2>1. /\ clock' = clock /\ exchanges' = exchanges
          /\ families' = PurgedFamilies(now, window)
      BY <1>7, Zenon DEF PurgeOnly, Purge
    <2>2. AllTraced(families', clock - ReuseWindow)
      BY <2>1, NowsAreTimes, PurgedTraced, Zenon
    <2>3. QED BY <2>1, <2>2, Zenon DEF ReuseInv
  <1>8. QED BY <1>1, <1>3, <1>4, <1>5, <1>6, <1>7, Zenon DEF LifecycleNext

\* The tables after a purge, and after revocations that follow it.
LEMMA PurgeRevokeTraced ==
    ASSUME TypeOK, ReuseWindow <= PURGE_GRACE_SECONDS, ReuseInv,
           NEW now \in Nat, now <= clock, NEW window \in {PURGE_GRACE_SECONDS, ReuseWindow}
    PROVE  /\ IsTable(PurgedFamilies(now, window), Families, Family)
           /\ AllTraced(PurgedFamilies(now, window), clock - ReuseWindow)
           /\ \A ks, at : AllTraced(Revoked(PurgedFamilies(now, window), ks, at),
                                    clock - ReuseWindow)
  <1>1. window \in Nat
    BY WindowsAreTimes, Zenon
  <1>2. IsTable(PurgedFamilies(now, window), Families, Family)
    BY <1>1, PurgeTyped, Zenon
  <1>3. AllTraced(PurgedFamilies(now, window), clock - ReuseWindow)
    BY PurgedTraced, Zenon
  <1>4. QED BY <1>2, <1>3, RevokedTraced, Zenon

\* The methods on sessions only purge and revoke.
LEMMA SessionTraced ==
    ASSUME TypeOK, ReuseWindow <= PURGE_GRACE_SECONDS, ReuseInv, SessionNext
    PROVE  ReuseInv'
  <1> USE DEF tables, history
  <1>a. PICK now \in Nows : SessionStep(now)
    BY Zenon DEF SessionNext
  <1> DEFINE P == PurgedFamilies(now, PURGE_GRACE_SECONDS)
             G == /\ clock' = clock /\ exchanges' = exchanges
                  /\ \/ families' = families \/ families' = P
                     \/ \E ks : families' = Revoked(P, ks, now)
  <1>0. now \in Nat /\ now <= clock
    BY NowsAreTimes, Zenon
  <1>1. ASSUME NEW sid, NEW ref, NEW scope, NEW code,
               \/ AuthorizeWithSession(sid, ref, scope, code, now)
               \/ CreateSession(sid, ref, scope, code, now)
               \/ RotateSession(sid, ref, scope, code, now)
        PROVE  G
    BY <1>1, Zenon DEF AuthorizeWithSession, CreateSession, RotateSession, IssueCode
  <1>2. ASSUME NEW sid, NEW ref, NEW scope, ConsentRequired(sid, ref, scope, now) PROVE G
    BY <1>2, Zenon DEF ConsentRequired
  <1>3. ASSUME NEW sid, RevokeSession(sid, now) PROVE G
    BY <1>3, Zenon DEF RevokeSession, EndSessions
  <1>4. ASSUME NEW except, RevokeSessions(except, now) PROVE G
    BY <1>4, Zenon DEF RevokeSessions, EndSessions
  <1> HIDE DEF G
  <1>5. G
    BY <1>a, <1>1, <1>2, <1>3, <1>4, Zenon DEF SessionStep
  <1>6. /\ AllTraced(P, clock - ReuseWindow)
        /\ \A ks : AllTraced(Revoked(P, ks, now), clock - ReuseWindow)
    BY <1>0, PurgeRevokeTraced, Zenon
  <1>7. QED BY <1>5, <1>6, Zenon DEF G, ReuseInv

\* The methods on grants at most revoke.
LEMMA GrantTraced ==
    ASSUME TypeOK, ReuseInv, GrantNext
    PROVE  ReuseInv'
  <1> USE DEF tables, history
  <1>1. /\ clock' = clock /\ exchanges' = exchanges
        /\ families' = families \/ \E ks, now : families' = Revoked(families, ks, now)
    BY Zenon DEF GrantNext, GrantConsent, ListGrants, RevokeGrant
  <1>2. IsTable(families, Families, Family) /\ AllTraced(families, clock - ReuseWindow)
    BY Zenon DEF TypeOK, ReuseInv
  <1>3. QED BY <1>1, <1>2, RevokedTraced, Zenon DEF ReuseInv

\* A finished exchange leaves the set of the suspended ones, or an equal one remains.
LEMMA FinishTraced ==
    ASSUME ReuseInv, NEW x, FinishExchange(x), AllTraced(families', clock - ReuseWindow)
    PROVE  ReuseInv'
  <1>1. clock' = clock /\ exchanges' \subseteq exchanges
    BY Zenon DEF FinishExchange
  <1>2. QED BY <1>1, Zenon DEF ReuseInv

\* The methods on codes and families: a suspended exchange works with the time it
\* captured, which is not ahead of the clock.
LEMMA FamilyTraced ==
    ASSUME TypeOK, ReuseWindow <= PURGE_GRACE_SECONDS, ReuseInv, FamilyNext
    PROVE  ReuseInv'
  <1> USE DEF tables, history
  <1>0. /\ IsTable(families, Families, Family) /\ AllTraced(families, clock - ReuseWindow)
        /\ \A x \in exchanges : x.now \in Nat /\ x.now <= clock
    <2>1. \A x \in exchanges : x.now \in Nat
      BY DEF TypeOK, Exchange
    <2>2. QED BY <2>1, Zenon DEF TypeOK, ReuseInv
  <1>1. ASSUME NEW code \in Codes, NEW ref \in ClientRefs, NEW now \in Nows,
               BeginExchange(code, ref, now)
        PROVE  ReuseInv'
    <2>1. PICK x : x = [code |-> code, ref |-> ref, now |-> now, user |-> user]
      BY Zenon
    <2>2. x.now <= clock
      BY <2>1, NowsAreTimes
    <2>3. clock' = clock /\ families' = families /\ exchanges' = exchanges \cup {x}
      BY <1>1, <2>1, Zenon DEF BeginExchange
    <2>4. QED BY <2>2, <2>3, Zenon DEF ReuseInv
  <1>2. ASSUME NEW x \in exchanges, ExchangeReplay(x) PROVE ReuseInv'
    <2>1. FinishExchange(x) /\ \E ks :
            families' = Revoked(PurgedFamilies(x.now, PURGE_GRACE_SECONDS), ks, x.now)
      BY <1>2, Zenon DEF ExchangeReplay
    <2>2. QED BY <1>0, <2>1, PurgeRevokeTraced, FinishTraced, Zenon
  <1>3. ASSUME NEW x \in exchanges, ExchangeRefused(x) PROVE ReuseInv'
    <2>1. /\ FinishExchange(x)
          /\ families' = families \/ families' = PurgedFamilies(x.now, PURGE_GRACE_SECONDS)
      BY <1>3, Zenon DEF ExchangeRefused, Purge
    <2>2. QED BY <1>0, <2>1, PurgeRevokeTraced, FinishTraced, Zenon
  <1>4. ASSUME NEW x \in exchanges, NEW id \in Families, ExchangeCode(x, id) PROVE ReuseInv'
    <2> DEFINE P == PurgedFamilies(x.now, PURGE_GRACE_SECONDS)
               C == PurgedCodes(x.now)
               S == PurgedSessions(x.now)
               new == NewFamily(x.code, x.ref, C[x.code], S[C[x.code].sid], x.now)
    <2>1. FinishExchange(x) /\ \/ families' = P
                               \/ \E ks : families' = Revoked(Put(P, id, new), ks, x.now)
      BY <1>4, Zenon DEF ExchangeCode
    <2>2. IsTable(P, Families, Family) /\ AllTraced(P, clock - ReuseWindow)
      BY <1>0, PurgeRevokeTraced, Zenon
    <2>3. Traced(new, clock - ReuseWindow)
      BY NewFamilyTraced, Zenon
    <2>4. new \in Family
      <3>1. /\ x.now \in Nat /\ x.code \in Codes /\ x.ref \in ClientRefs
            /\ PURGE_GRACE_SECONDS \in Nat
        BY WindowsAreTimes DEF TypeOK, Exchange
      <3>2. IsTable(C, Codes, Code) /\ IsTable(S, Sids, Session)
        BY <3>1, PurgeTyped, Zenon
      <3>3. x.code \in DOMAIN C /\ C[x.code].sid \in DOMAIN S
        BY <1>4, Zenon DEF ExchangeCode, Exchangeable
      <3>4. C[x.code] \in Code /\ S[C[x.code].sid] \in Session
        BY <3>2, <3>3, Zenon DEF IsTable
      <3>5. QED BY <3>1, <3>4, NewFamilyTyped, Zenon
    <2> HIDE DEF P, C, S, new
    <2>5. IsTable(Put(P, id, new), Families, Family)
      BY <2>2, <2>4, PutTable, Zenon
    <2>6. AllTraced(Put(P, id, new), clock - ReuseWindow)
      BY <2>2, <2>3, Zenon DEF AllTraced, Put
    <2>7. AllTraced(families', clock - ReuseWindow)
      BY <2>1, <2>2, <2>5, <2>6, RevokedTraced, Zenon
    <2>8. QED BY <2>1, <2>7, FinishTraced, Zenon
  <1>5. ASSUME NEW now \in Nows, NEW f, NEW ref, RefreshOfRecreatedClient(f, ref, now)
        PROVE  ReuseInv'
    <2> DEFINE F == PurgedFamilies(now, ReuseWindow)
    <2>1. /\ clock' = clock /\ exchanges' = exchanges
          /\ families' = Restrict(F, DOMAIN F \ {f})
      BY <1>5, Zenon DEF RefreshOfRecreatedClient
    <2>2. IsTable(F, Families, Family) /\ AllTraced(F, clock - ReuseWindow)
      BY NowsAreTimes, PurgeRevokeTraced, Zenon
    <2> HIDE DEF F
    <2>3. DOMAIN F \ {f} \subseteq DOMAIN F
      BY Zenon
    <2>4. AllTraced(families', clock - ReuseWindow)
      BY <2>1, <2>2, <2>3, RestrictTraced, Zenon
    <2>5. QED BY <2>1, <2>4, Zenon DEF ReuseInv
  <1>6. ASSUME NEW now \in Nows, NEW f, NEW n, NEW ref, RefreshReuse(f, n, ref, now)
        PROVE  ReuseInv'
    <2>1. /\ clock' = clock /\ exchanges' = exchanges
          /\ \E ks : families' = Revoked(PurgedFamilies(now, ReuseWindow), ks, now)
      BY <1>6, Zenon DEF RefreshReuse
    <2>2. AllTraced(families', clock - ReuseWindow)
      BY <2>1, NowsAreTimes, PurgeRevokeTraced, Zenon
    <2>3. QED BY <2>1, <2>2, Zenon DEF ReuseInv
  <1>7. ASSUME NEW now \in Nows, NEW f, NEW ref, NEW scope,
               RotateRefreshToken(f, ref, scope, now)
        PROVE  ReuseInv'
    <2> DEFINE F == PurgedFamilies(now, ReuseWindow)
               n == F[f].current_serial
               idle == Minimum(now + RefreshIdleTtl, F[f].absolute_expires_at)
               next == [F[f] EXCEPT
                          !.tokens = @ \cup {[serial |-> n + 1, created_at |-> now]},
                          !.current_serial = n + 1,
                          !.consumed = @ \cup {[serial |-> n, at |-> now]},
                          !.idle_expires_at = idle]
    <2>1. /\ clock' = clock /\ exchanges' = exchanges /\ f \in DOMAIN F
          /\ families' = [F EXCEPT ![f] = next]
      BY <1>7, Zenon DEF RotateRefreshToken, Presented
    <2>2. IsTable(F, Families, Family) /\ AllTraced(F, clock - ReuseWindow)
      BY NowsAreTimes, PurgeRevokeTraced, Zenon
    <2> HIDE DEF F, idle
    <2>3. PICK r : r = F[f] BY Zenon
    <2>4. r \in Family /\ Traced(r, clock - ReuseWindow)
      BY <2>1, <2>2, <2>3, Zenon DEF IsTable, AllTraced
    <2>5. PICK q : q = next BY Zenon
    <2>6. /\ q.tokens = r.tokens \cup {[serial |-> r.current_serial + 1, created_at |-> now]}
          /\ q.current_serial = r.current_serial + 1
          /\ q.consumed = r.consumed \cup {[serial |-> r.current_serial, at |-> now]}
      BY <2>3, <2>4, <2>5, Zenon DEF Family
    <2> HIDE DEF next
    <2>7. now \in Nat /\ clock - ReuseWindow \in Int
      BY NowsAreTimes, WindowsAreTimes DEF TypeOK
    <2>8. Traced(q, clock - ReuseWindow)
      BY <2>4, <2>6, <2>7, RotationTraced, Zenon
    <2>9. AllTraced(families', clock - ReuseWindow)
      BY <2>1, <2>2, <2>5, <2>8, Zenon DEF AllTraced
    <2>10. QED BY <2>1, <2>9, Zenon DEF ReuseInv
  <1>8. ASSUME NEW now, NEW fs, RevokeFamilies(fs, now) PROVE ReuseInv'
    <2>1. clock' = clock /\ exchanges' = exchanges /\ families' = Revoked(families, fs, now)
      BY <1>8, Zenon DEF RevokeFamilies
    <2>2. AllTraced(families', clock - ReuseWindow)
      BY <1>0, <2>1, RevokedTraced, Zenon
    <2>3. QED BY <2>1, <2>2, Zenon DEF ReuseInv
  <1>9. QED
    BY <1>1, <1>2, <1>3, <1>4, <1>5, <1>6, <1>7, <1>8, Zenon
       DEF FamilyNext, RevokeFamilyById, RevokeFamiliesOfClient, RevokeSessionFamiliesOfClient

\* With a reuse window within the grace period of the other purges, a consumed token
\* stays stored for the window whichever method purges: presenting it is detected.
THEOREM ReuseIsDetectable ==
    ASSUME ReuseWindow <= PURGE_GRACE_SECONDS
    PROVE  Spec => []ReuseDetectable
  <1>1. Init => ReuseInv
    BY Zenon DEF Init, NoRows, ReuseInv, AllTraced
  <1>2. TypeOK /\ ReuseInv /\ [Next]_vars => ReuseInv'
    <2>1. ASSUME ReuseInv, UNCHANGED vars PROVE ReuseInv'
      BY <2>1, Zenon DEF vars, tables, ReuseInv
    <2>2. QED BY <2>1, LifecycleTraced, SessionTraced, GrantTraced, FamilyTraced, Zenon DEF Next
  <1>3. ReuseInv => ReuseDetectable
    BY Zenon DEF ReuseInv, AllTraced, Traced, ReuseDetectable
  <1>4. QED BY <1>1, <1>2, <1>3, TypeCorrect, PTL DEF Spec

-----------------------------------------------------------------------------
(* The family limit.                                                       *)

\* A set of families has an oldest one in the order of the limit.
LEMMA OldestExists ==
    ASSUME NEW F, NEW K \in SUBSET Nat, K # {}, \A f \in K : F[f].created_at \in Nat
    PROVE  \E o \in K : \A g \in K : g # o => Newer(F, g, o)
  <1>0. ASSUME NEW S \in SUBSET Nat, S # {} PROVE \E m \in S : \A x \in S : m <= x
    <2>1. \A x, y \in Nat : x < y => <<x, y>> \in OpToRel(<, Nat)
      BY Zenon DEF OpToRel
    <2>2. \E m \in S : \A x \in S : ~(<<x, m>> \in OpToRel(<, Nat))
      BY <1>0, NatLessThanWellFounded, WFMin, Zenon
    <2>3. \E m \in S : \A x \in S : ~(x < m)
      BY <2>1, <2>2, Zenon
    <2>4. QED BY <2>3
  <1>1. PICK T : T = {F[f].created_at : f \in K} BY Zenon
  <1>2. T \in SUBSET Nat /\ T # {}
    BY <1>1, Zenon
  <1>3. PICK a \in T : \A x \in T : a <= x
    BY <1>0, <1>2, Zenon
  <1>4. PICK B : B = {f \in K : F[f].created_at = a} BY Zenon
  <1>5. B \in SUBSET Nat /\ B # {}
    BY <1>1, <1>3, <1>4, Zenon
  <1>6. PICK o \in B : \A x \in B : o <= x
    BY <1>0, <1>5, Zenon
  <1>7. o \in K /\ F[o].created_at = a
    BY <1>4, <1>6, Zenon
  <1>8. ASSUME NEW g \in K, g # o PROVE Newer(F, g, o)
    <2>1. PICK c \in Nat : c = F[g].created_at BY Zenon
    <2>2. c >= a /\ a \in Nat
      BY <1>1, <1>2, <1>3, <2>1
    <2>3. CASE c = a
      <3>1. o <= g
        BY <1>4, <1>6, <2>1, <2>3, Zenon
      <3>2. o \in Nat /\ g \in Nat
        BY <1>7, Zenon
      <3>3. g > o
        BY <1>8, <3>1, <3>2
      <3>4. QED BY <1>7, <2>1, <2>3, <3>3, Zenon DEF Newer
    <2>4. CASE c # a
      <3>1. c > a BY <2>2, <2>4
      <3>2. QED BY <1>7, <2>1, <3>1, Zenon DEF Newer
    <2>5. QED BY <2>3, <2>4, Zenon
  <1>9. QED BY <1>7, <1>8, Zenon

\* Families with fewer than M newer ones among the live ones: at most M of them.
LEMMA KeptAreFew ==
    ASSUME NEW F, NEW L \in SUBSET Nat, IsFiniteSet(L), \A f \in L : F[f].created_at \in Nat,
           NEW M \in Nat \ {0},
           NEW K \in SUBSET L,
           \A f \in K : ~(Cardinality({g \in L : Newer(F, g, f)}) >= M)
    PROVE  IsFiniteSet(K) /\ Cardinality(K) \in Nat /\ Cardinality(K) <= M
  <1>1. K \in SUBSET L
    OBVIOUS
  <1>2. IsFiniteSet(K) /\ Cardinality(K) \in Nat
    BY <1>1, FS_Subset, FS_CardinalityType, Zenon
  <1>3. CASE K = {}
    <2>1. Cardinality(K) = 0
      BY <1>3, FS_EmptySet, Zenon
    <2>2. QED BY <1>2, <2>1
  <1>4. CASE K # {}
    <2>1. PICK o \in K : \A g \in K : g # o => Newer(F, g, o)
      BY <1>1, <1>4, OldestExists, Zenon
    <2>2. PICK N : N = {g \in L : Newer(F, g, o)} BY Zenon
    <2>3. N \in SUBSET L /\ K \ {o} \in SUBSET N
      BY <1>1, <2>1, <2>2, Zenon
    <2>4. IsFiniteSet(N)
      BY <2>3, FS_Subset, Zenon
    <2>5. Cardinality(N) \in Nat /\ ~(Cardinality(N) >= M)
      BY <1>1, <2>1, <2>2, <2>4, FS_CardinalityType, Zenon
    <2>6. Cardinality(K \ {o}) <= Cardinality(N)
      BY <2>3, <2>4, FS_Subset, Zenon
    <2>7. Cardinality(K \ {o}) = Cardinality(K) - 1
      BY <1>2, <2>1, FS_RemoveElement, Zenon
    <2>8. QED BY <1>2, <2>5, <2>6, <2>7
  <1>5. QED BY <1>3, <1>4, Zenon

\* A row that stays in its client's account and is live only where it was.
Narrowed(a, b) ==
    /\ b.client_id = a.client_id
    /\ b.absolute_expires_at = a.absolute_expires_at
    /\ b.idle_expires_at = a.idle_expires_at
    /\ Unrevoked(b) => Unrevoked(a)

Narrower(F, G) == \A f \in DOMAIN G : f \in DOMAIN F /\ Narrowed(F[f], G[f])

\* Narrowing is reflexive and composes.
LEMMA NarrowerOrder ==
    /\ \A F : Narrower(F, F) /\ Narrower(F, NoRows)
    /\ \A F, G, H : Narrower(F, G) /\ Narrower(G, H) => Narrower(F, H)
  <1>1. \A F : Narrower(F, F) /\ Narrower(F, NoRows)
    BY Zenon DEF Narrower, Narrowed, NoRows
  <1>2. \A a, b, c : Narrowed(a, b) /\ Narrowed(b, c) => Narrowed(a, c)
    BY Zenon DEF Narrowed
  <1>3. QED BY <1>1, <1>2, Zenon DEF Narrower

\* Revocation narrows, and leaves none of the revoked rows unrevoked.
LEMMA RevokedNarrows ==
    ASSUME NEW F, IsTable(F, Families, Family), NEW ks, NEW now \in Nat
    PROVE  /\ Narrower(F, Revoked(F, ks, now))
           /\ DOMAIN Revoked(F, ks, now) = DOMAIN F
           /\ \A f \in DOMAIN F : f \in ks => ~Unrevoked(Revoked(F, ks, now)[f])
  <1>1. DOMAIN Revoked(F, ks, now) = DOMAIN F
    BY Zenon DEF Revoked
  <1>2. ASSUME NEW f \in DOMAIN F
        PROVE  /\ Narrowed(F[f], Revoked(F, ks, now)[f])
               /\ f \in ks => ~Unrevoked(Revoked(F, ks, now)[f])
    <2>1. PICK r : r = F[f] BY Zenon
    <2>2. PICK q : q = [r EXCEPT !.revoked_at = now] BY Zenon
    <2>3. r \in Family
      BY <2>1, Zenon DEF IsTable
    <2>4. /\ q.client_id = r.client_id /\ q.absolute_expires_at = r.absolute_expires_at
          /\ q.idle_expires_at = r.idle_expires_at /\ q.revoked_at = now
      BY <2>2, <2>3 DEF Family
    <2>5. ~Unrevoked(q)
      BY <2>4, TimeIsNotNull, Zenon DEF Unrevoked
    <2>6. Revoked(F, ks, now)[f] = IF f \in ks /\ Unrevoked(r) THEN q ELSE r
      BY <2>1, <2>2, Zenon DEF Revoked
    <2>7. Narrowed(r, q) /\ Narrowed(r, r)
      BY <2>4, <2>5, Zenon DEF Narrowed
    <2>8. QED BY <2>1, <2>5, <2>6, <2>7, Zenon
  <1>3. QED BY <1>1, <1>2, Zenon DEF Narrower

\* A purge narrows.
LEMMA PurgedNarrows ==
    ASSUME TypeOK, NEW now \in Nat, NEW window \in Nat
    PROVE  Narrower(families, PurgedFamilies(now, window))
  <1>1. ASSUME NEW f \in DOMAIN PurgedFamilies(now, window)
        PROVE  f \in DOMAIN families /\ Narrowed(families[f], PurgedFamilies(now, window)[f])
    <2>1. PICK r : r = families[f] BY Zenon
    <2>2. PICK q : q = PurgedFamilies(now, window)[f] BY Zenon
    <2>3. f \in DOMAIN families /\ q = [families[f] EXCEPT !.tokens = PurgedTokens(@, now, window)]
      BY <1>1, <2>2, PurgeTyped
    <2>4. r \in Family
      BY <2>1, <2>3, Zenon DEF TypeOK, IsTable
    <2>5. /\ q.client_id = r.client_id /\ q.absolute_expires_at = r.absolute_expires_at
          /\ q.idle_expires_at = r.idle_expires_at /\ q.revoked_at = r.revoked_at
      BY <2>1, <2>3, <2>4 DEF Family
    <2>6. QED BY <2>1, <2>2, <2>3, <2>5, Zenon DEF Narrowed, Unrevoked
  <1>2. QED BY <1>1, Zenon DEF Narrower

\* What the limit counts, and that no handler, suspended ones included, is ahead of the clock.
LimitInv ==
    /\ IsFiniteSet(DOMAIN families)
    /\ FamilyLimit
    /\ \A x \in exchanges : x.now <= clock

\* A table in which no more families of a client are live than in the stored one.
Within(F, now) ==
    /\ DOMAIN F \subseteq DOMAIN families
    /\ \A f \in DOMAIN F :
        /\ F[f].client_id = families[f].client_id
        /\ Live(F[f], now) => Live(families[f], clock)

\* Within such a table the limit holds.
LEMMA WithinLimit ==
    ASSUME LimitInv, NEW F, NEW now, Within(F, now)
    PROVE  /\ IsFiniteSet(DOMAIN F)
           /\ \A client \in ClientIds :
                Cardinality(LiveFamilies(F, client, now)) <= MAX_REFRESH_FAMILIES_PER_CLIENT
  <1>1. IsFiniteSet(DOMAIN F)
    BY FS_Subset, Zenon DEF LimitInv, Within
  <1>2. ASSUME NEW client \in ClientIds
        PROVE  Cardinality(LiveFamilies(F, client, now)) <= MAX_REFRESH_FAMILIES_PER_CLIENT
    <2>1. PICK A : A = LiveFamilies(families, client, clock) BY Zenon
    <2>2. PICK B : B = LiveFamilies(F, client, now) BY Zenon
    <2>3. B \in SUBSET A /\ A \in SUBSET DOMAIN families
      BY <2>1, <2>2, Zenon DEF LiveFamilies, Within
    <2>4. IsFiniteSet(A) /\ IsFiniteSet(B)
      BY <2>3, FS_Subset, Zenon DEF LimitInv
    <2>5. Cardinality(A) \in Nat /\ Cardinality(B) \in Nat
      BY <2>4, FS_CardinalityType, Zenon
    <2>6. Cardinality(B) <= Cardinality(A)
      BY <2>3, <2>4, FS_Subset, Zenon
    <2>7. Cardinality(A) <= MAX_REFRESH_FAMILIES_PER_CLIENT
      BY <2>1, Zenon DEF LimitInv, FamilyLimit
    <2>8. MAX_REFRESH_FAMILIES_PER_CLIENT \in Nat
      BY TimeAssumption
    <2>9. QED BY <2>2, <2>5, <2>6, <2>7, <2>8
  <1>3. QED BY <1>1, <1>2, Zenon

\* Narrowing the families, now or later, stays within them.
LEMMA NarrowerIsWithin ==
    ASSUME TypeOK, NEW F, Narrower(families, F), NEW now \in Nat, clock <= now
    PROVE  Within(F, now)
  <1>1. ASSUME NEW f \in DOMAIN F
        PROVE  /\ f \in DOMAIN families /\ F[f].client_id = families[f].client_id
               /\ Live(F[f], now) => Live(families[f], clock)
    <2>1. PICK r : r = families[f] BY Zenon
    <2>2. PICK q : q = F[f] BY Zenon
    <2>3. f \in DOMAIN families /\ Narrowed(r, q)
      BY <2>1, <2>2, Zenon DEF Narrower
    <2>4. r.idle_expires_at \in Nat /\ r.absolute_expires_at \in Nat /\ clock \in Nat
      BY <2>1, <2>3 DEF TypeOK, IsTable, Family
    <2>5. r.idle_expires_at > now => r.idle_expires_at > clock
      BY <2>4
    <2>6. r.absolute_expires_at > now => r.absolute_expires_at > clock
      BY <2>4
    <2>7. Live(q, now) => Live(r, clock)
      BY <2>3, <2>5, <2>6, Zenon DEF Narrowed, Live, Unexpired
    <2>8. QED BY <2>1, <2>2, <2>3, <2>7, Zenon DEF Narrowed
  <1>2. QED BY <1>1, Zenon DEF Within

\* A step that keeps the families within the stored ones keeps the limit.
LEMMA WithinStep ==
    ASSUME TypeOK, LimitInv, Within(families', clock'), \A x \in exchanges' : x.now <= clock'
    PROVE  LimitInv'
  <1>1. PICK F : F = families' BY Zenon
  <1>2. PICK now : now = clock' BY Zenon
  <1>3. Within(F, now)
    BY <1>1, <1>2, Zenon
  <1>4. /\ IsFiniteSet(DOMAIN F)
        /\ \A client \in ClientIds :
             Cardinality(LiveFamilies(F, client, now)) <= MAX_REFRESH_FAMILIES_PER_CLIENT
    BY <1>3, WithinLimit, Zenon
  <1>5. QED BY <1>1, <1>2, <1>4, Zenon DEF LimitInv, FamilyLimit

\* A step at a standing clock that narrows the families keeps the limit.
LEMMA NarrowStep ==
    ASSUME TypeOK, LimitInv, clock' = clock, Narrower(families, families'),
           \A x \in exchanges' : x.now <= clock
    PROVE  LimitInv'
  <1>1. clock \in Nat /\ clock <= clock
    BY DEF TypeOK
  <1>2. PICK F : F = families' BY Zenon
  <1>3. Within(F, clock)
    BY <1>1, <1>2, NarrowerIsWithin, Zenon
  <1>4. QED BY <1>2, <1>3, WithinStep, Zenon

\* Of a client's families live at a time, those the limit leaves are at most the limit,
\* and so are those of them that are live later.
LEMMA LimitKeeps ==
    ASSUME NEW F, IsTable(F, Families, Family), IsFiniteSet(DOMAIN F), NEW client, NEW now,
           NEW G, NEW later,
           \A f \in DOMAIN G : Live(G[f], later) =>
                /\ f \in DOMAIN F /\ Live(F[f], now) /\ G[f].client_id = F[f].client_id
                /\ f \notin BeyondLimit(F, client, now)
    PROVE  Cardinality(LiveFamilies(G, client, later)) <= MAX_REFRESH_FAMILIES_PER_CLIENT
  <1>1. PICK M : M = MAX_REFRESH_FAMILIES_PER_CLIENT BY Zenon
  <1>2. M \in Nat \ {0}
    BY <1>1, TimeAssumption
  <1>3. PICK A : A = LiveFamilies(F, client, now) BY Zenon
  <1>4. PICK K : K = {f \in A : ~(Cardinality({g \in A : Newer(F, g, f)}) >= M)} BY Zenon
  <1>5. PICK B : B = LiveFamilies(G, client, later) BY Zenon
  <1>6. A \in SUBSET DOMAIN F /\ A \in SUBSET Nat
    BY <1>3, IdAssumption, Zenon DEF LiveFamilies, IsTable
  <1>7. IsFiniteSet(A)
    BY <1>6, FS_Subset, Zenon
  <1>8. \A f \in A : F[f].created_at \in Nat
    <2>1. ASSUME NEW f \in A PROVE F[f].created_at \in Nat
      <3>1. F[f] \in Family
        BY <1>6, Zenon DEF IsTable
      <3>2. QED BY <3>1 DEF Family
    <2>2. QED BY <2>1, Zenon
  <1>9. K \in SUBSET A /\ \A f \in K : ~(Cardinality({g \in A : Newer(F, g, f)}) >= M)
    BY <1>4, Zenon
  <1>10. IsFiniteSet(K) /\ Cardinality(K) \in Nat /\ Cardinality(K) <= M
    BY <1>2, <1>6, <1>7, <1>8, <1>9, KeptAreFew, Zenon
  <1>11. ASSUME NEW f \in B PROVE f \in K
    <2>1. f \in DOMAIN G /\ Live(G[f], later) /\ G[f].client_id = client
      BY <1>5, Zenon DEF LiveFamilies
    <2>2. f \in A /\ f \notin BeyondLimit(F, client, now)
      BY <1>3, <2>1, Zenon DEF LiveFamilies
    <2>3. BeyondLimit(F, client, now) =
            {h \in A : Cardinality({g \in A : Newer(F, g, h)}) >= M}
      BY <1>1, <1>3, Zenon DEF BeyondLimit
    <2>4. QED BY <1>4, <2>2, <2>3, Zenon
  <1>12. B \in SUBSET K
    BY <1>11, Zenon
  <1>13. Cardinality(B) <= Cardinality(K) /\ IsFiniteSet(B)
    BY <1>10, <1>12, FS_Subset, Zenon
  <1>14. Cardinality(B) \in Nat
    BY <1>13, FS_CardinalityType, Zenon
  <1>15. QED BY <1>1, <1>2, <1>5, <1>10, <1>13, <1>14

\* exchangeCode: of the client's families live at its time, the new one included, it
\* revokes those that have enough newer ones; at most the limit stay.
LEMMA ExchangeLimits ==
    ASSUME TypeOK, LimitInv, NEW P, IsTable(P, Families, Family), Narrower(families, P),
           NEW id \in Families, NEW new \in Family, NEW now \in Nat, now <= clock,
           NEW F, F = Put(P, id, new), NEW ref \in ClientRefs, new.client_id = ref.client_id,
           families' = Revoked(F, BeyondLimit(F, ref.client_id, now), now),
           clock' = clock, exchanges' \subseteq exchanges
    PROVE  LimitInv'
  <1>m. PICK M : M = MAX_REFRESH_FAMILIES_PER_CLIENT BY Zenon
  <1>0. M \in Nat \ {0} /\ clock \in Nat /\ ref.client_id \in ClientIds
    BY <1>m, TimeAssumption DEF TypeOK, ClientIds
  <1>1. /\ IsTable(F, Families, Family) /\ DOMAIN F = DOMAIN P \cup {id}
        /\ F[id] = new /\ \A f \in DOMAIN P : f # id => F[f] = P[f]
    <2>1. IsTable(F, Families, Family)
      BY PutTable, Zenon
    <2>2. /\ DOMAIN F = DOMAIN P \cup {id} /\ F[id] = new
          /\ \A f \in DOMAIN P : f # id => F[f] = P[f]
      BY Zenon DEF Put
    <2>3. QED BY <2>1, <2>2, Zenon
  <1>2. IsFiniteSet(DOMAIN P)
    <2>1. DOMAIN P \in SUBSET DOMAIN families
      BY Zenon DEF Narrower
    <2>2. QED BY <2>1, FS_Subset, Zenon DEF LimitInv
  <1>3. IsFiniteSet(DOMAIN F)
    <2>1. IsFiniteSet(DOMAIN P \cup {id})
      BY <1>2, FS_AddElement, Zenon
    <2>2. QED BY <1>1, <2>1, Zenon
  <1>4. PICK G : G = families' BY Zenon
  <1>5. /\ Narrower(F, G) /\ DOMAIN G = DOMAIN F
        /\ \A f \in DOMAIN F : f \in BeyondLimit(F, ref.client_id, now) => ~Unrevoked(G[f])
    BY <1>1, <1>4, RevokedNarrows, Zenon
  <1>6. ASSUME NEW f \in DOMAIN G, Live(G[f], clock) PROVE Live(F[f], now)
    <2>1. PICK r : r = F[f] BY Zenon
    <2>2. PICK q : q = G[f] BY Zenon
    <2>3. Narrowed(r, q) /\ f \in DOMAIN F
      BY <1>5, <2>1, <2>2, Zenon DEF Narrower
    <2>4. r \in Family
      BY <1>1, <2>1, <2>3, Zenon DEF IsTable
    <2>5. r.idle_expires_at \in Nat /\ r.absolute_expires_at \in Nat
      BY <2>4 DEF Family
    <2>6. r.idle_expires_at > clock => r.idle_expires_at > now
      BY <1>0, <2>5
    <2>7. r.absolute_expires_at > clock => r.absolute_expires_at > now
      BY <1>0, <2>5
    <2>8. QED BY <1>6, <2>1, <2>2, <2>3, <2>6, <2>7, Zenon DEF Narrowed, Live, Unexpired
  <1>7. Cardinality(LiveFamilies(G, ref.client_id, clock)) <= M
    <2>1. \A f \in DOMAIN G : Live(G[f], clock) =>
            /\ f \in DOMAIN F /\ Live(F[f], now) /\ G[f].client_id = F[f].client_id
            /\ f \notin BeyondLimit(F, ref.client_id, now)
      BY <1>5, <1>6, Zenon DEF Live, Narrower, Narrowed
    <2>2. QED BY <1>m, <1>1, <1>3, <2>1, LimitKeeps, Zenon
  <1>8. ASSUME NEW client \in ClientIds, client # ref.client_id
        PROVE  Cardinality(LiveFamilies(G, client, clock)) <= M
    <2>1. PICK R : R = Restrict(G, {f \in DOMAIN G : f # id}) BY Zenon
    <2>2. DOMAIN R = {f \in DOMAIN G : f # id} /\ \A f \in DOMAIN R : R[f] = G[f]
      BY <2>1, Zenon DEF Restrict
    <2>3. Narrower(families, R)
      <3>1. ASSUME NEW f \in DOMAIN R PROVE f \in DOMAIN P /\ Narrowed(P[f], R[f])
        BY <1>1, <1>5, <2>2, Zenon DEF Narrower
      <3>2. QED BY <3>1, NarrowerOrder, Zenon DEF Narrower
    <2>4. LiveFamilies(G, client, clock) = LiveFamilies(R, client, clock)
      <3>1. id \in DOMAIN G /\ G[id].client_id # client
        <4>1. id \in DOMAIN F /\ F[id].client_id = ref.client_id
          BY <1>1, Zenon
        <4>2. id \in DOMAIN G /\ G[id].client_id = F[id].client_id
          BY <1>5, <4>1, Zenon DEF Narrower, Narrowed
        <4>3. QED BY <1>8, <4>1, <4>2, Zenon
      <3>2. QED BY <2>2, <3>1, Zenon DEF LiveFamilies
    <2>5. clock <= clock
      BY <1>0
    <2>6. Within(R, clock)
      BY <1>0, <2>3, <2>5, NarrowerIsWithin, Zenon
    <2>7. QED BY <1>m, <2>4, <2>6, WithinLimit, Zenon
  <1>9. QED BY <1>m, <1>3, <1>4, <1>5, <1>7, <1>8, Zenon DEF LimitInv, FamilyLimit

\* Without skew a handler runs at the time it captured.
LEMMA NowIsClock ==
    ASSUME TypeOK, MaxSkew = 0, NEW now \in Nows
    PROVE  now = clock
  BY DEF TypeOK, Nows

\* The clock, restarts and the lifecycle methods keep the limit.
LEMMA LifecycleLimited ==
    ASSUME TypeOK, LimitInv, LifecycleNext
    PROVE  LimitInv'
  <1> USE DEF tables, history
  <1>0. /\ IsTable(families, Families, Family) /\ clock \in Nat
        /\ \A x \in exchanges : x.now \in Nat /\ x.now <= clock
    <2>1. \A x \in exchanges : x.now \in Nat
      BY DEF TypeOK, Exchange
    <2>2. QED BY <2>1, Zenon DEF TypeOK, LimitInv
  <1>1. CASE Tick
    <2>1. clock' = clock + 1 /\ families' = families /\ exchanges' = exchanges
      BY <1>1, Zenon DEF Tick
    <2>2. clock + 1 \in Nat /\ clock <= clock + 1 /\ \A x \in exchanges : x.now <= clock + 1
      BY <1>0
    <2>3. Within(families, clock + 1)
      BY <2>2, NarrowerOrder, NarrowerIsWithin, Zenon
    <2>4. QED BY <2>1, <2>2, <2>3, WithinStep, Zenon
  <1>2. CASE /\ clock' = clock /\ exchanges' \subseteq exchanges
             /\ families' = families \/ families' = NoRows
    <2>1. Narrower(families, families) /\ Narrower(families, NoRows)
      BY NarrowerOrder, Zenon
    <2>2. Narrower(families, families')
      BY <1>2, <2>1, Zenon
    <2>3. \A x \in exchanges' : x.now <= clock
      BY <1>0, <1>2, Zenon
    <2>4. QED BY <1>2, <2>2, <2>3, NarrowStep, Zenon
  <1>3. CASE \/ Restart \/ Destroy \/ Enable
             \/ \E groups \in SUBSET Groups : InitUser(groups) \/ SetGroups(groups)
    <2>1. /\ clock' = clock /\ exchanges' \subseteq exchanges
          /\ families' = families \/ families' = NoRows
      BY <1>3, Zenon DEF Restart, Destroy, Enable, InitUser, SetGroups
    <2>2. QED BY <1>2, <2>1, Zenon
  <1>4. ASSUME NEW now \in Nows, Disable(now) \/ RevokeAll(now) PROVE LimitInv'
    <2>1. /\ clock' = clock /\ exchanges' = exchanges
          /\ families' = Revoked(families, DOMAIN families, now)
      BY <1>4, Zenon DEF Disable, RevokeAll, EndEverything
    <2>2. Narrower(families, families')
      BY <1>0, <2>1, NowsAreTimes, RevokedNarrows, Zenon
    <2>3. QED BY <1>0, <2>1, <2>2, NarrowStep, Zenon
  <1>5. ASSUME NEW now \in Nows, NEW window \in {PURGE_GRACE_SECONDS, ReuseWindow},
               PurgeOnly(now, window)
        PROVE  LimitInv'
    <2>1. clock' = clock /\ exchanges' = exchanges /\ families' = PurgedFamilies(now, window)
      BY <1>5, Zenon DEF PurgeOnly, Purge
    <2>2. Narrower(families, families')
      BY <2>1, NowsAreTimes, WindowsAreTimes, PurgedNarrows, Zenon
    <2>3. QED BY <1>0, <2>1, <2>2, NarrowStep, Zenon
  <1>6. QED BY <1>1, <1>3, <1>4, <1>5, Zenon DEF LifecycleNext

\* The tables after a purge, and after revocations that follow it, are narrower.
LEMMA PurgeRevokeNarrows ==
    ASSUME TypeOK, NEW now \in Nat, NEW window \in {PURGE_GRACE_SECONDS, ReuseWindow}
    PROVE  /\ IsTable(PurgedFamilies(now, window), Families, Family)
           /\ Narrower(families, PurgedFamilies(now, window))
           /\ \A ks : Narrower(families, Revoked(PurgedFamilies(now, window), ks, now))
  <1>1. window \in Nat
    BY WindowsAreTimes, Zenon
  <1>2. IsTable(PurgedFamilies(now, window), Families, Family)
    BY <1>1, PurgeTyped, Zenon
  <1>3. Narrower(families, PurgedFamilies(now, window))
    BY <1>1, PurgedNarrows, Zenon
  <1>4. QED BY <1>2, <1>3, RevokedNarrows, NarrowerOrder, Zenon

\* The methods on sessions only purge and revoke families.
LEMMA SessionLimited ==
    ASSUME TypeOK, LimitInv, SessionNext
    PROVE  LimitInv'
  <1> USE DEF tables, history
  <1>a. PICK now \in Nows : SessionStep(now)
    BY Zenon DEF SessionNext
  <1> DEFINE P == PurgedFamilies(now, PURGE_GRACE_SECONDS)
             G == /\ clock' = clock /\ exchanges' = exchanges
                  /\ \/ families' = families \/ families' = P
                     \/ \E ks : families' = Revoked(P, ks, now)
  <1>0. now \in Nat
    BY NowsAreTimes, Zenon
  <1>1. ASSUME NEW sid, NEW ref, NEW scope, NEW code,
               \/ AuthorizeWithSession(sid, ref, scope, code, now)
               \/ CreateSession(sid, ref, scope, code, now)
               \/ RotateSession(sid, ref, scope, code, now)
        PROVE  G
    BY <1>1, Zenon DEF AuthorizeWithSession, CreateSession, RotateSession, IssueCode
  <1>2. ASSUME NEW sid, NEW ref, NEW scope, ConsentRequired(sid, ref, scope, now) PROVE G
    BY <1>2, Zenon DEF ConsentRequired
  <1>3. ASSUME NEW sid, RevokeSession(sid, now) PROVE G
    BY <1>3, Zenon DEF RevokeSession, EndSessions
  <1>4. ASSUME NEW except, RevokeSessions(except, now) PROVE G
    BY <1>4, Zenon DEF RevokeSessions, EndSessions
  <1> HIDE DEF G
  <1>5. G
    BY <1>a, <1>1, <1>2, <1>3, <1>4, Zenon DEF SessionStep
  <1>6. Narrower(families, P) /\ \A ks : Narrower(families, Revoked(P, ks, now))
    BY <1>0, PurgeRevokeNarrows, Zenon
  <1>7. Narrower(families, families')
    BY <1>5, <1>6, NarrowerOrder, Zenon DEF G
  <1>8. clock' = clock /\ \A x \in exchanges' : x.now <= clock
    BY <1>5, Zenon DEF G, LimitInv
  <1>9. QED BY <1>7, <1>8, NarrowStep, Zenon

\* The methods on grants at most revoke families.
LEMMA GrantLimited ==
    ASSUME TypeOK, LimitInv, GrantNext
    PROVE  LimitInv'
  <1> USE DEF tables, history
  <1>1. /\ clock' = clock /\ exchanges' = exchanges
        /\ families' = families \/ \E now \in Nows : \E ks : families' = Revoked(families, ks, now)
    BY Zenon DEF GrantNext, GrantConsent, ListGrants, RevokeGrant
  <1>2. IsTable(families, Families, Family)
    BY Zenon DEF TypeOK
  <1>3. Narrower(families, families')
    <2>1. Narrower(families, families)
      BY NarrowerOrder, Zenon
    <2>2. ASSUME NEW now \in Nows, NEW ks PROVE Narrower(families, Revoked(families, ks, now))
      BY <1>2, NowsAreTimes, RevokedNarrows, Zenon
    <2>3. QED BY <1>1, <2>1, <2>2, Zenon
  <1>4. \A x \in exchanges' : x.now <= clock
    BY <1>1, Zenon DEF LimitInv
  <1>5. QED BY <1>1, <1>3, <1>4, NarrowStep, Zenon

\* The methods on codes and families: only exchangeCode adds a family, and only a
\* rotation, which takes a live one, extends a family's life.
LEMMA FamilyLimited ==
    ASSUME TypeOK, MaxSkew = 0, LimitInv, FamilyNext
    PROVE  LimitInv'
  <1> USE DEF tables, history
  <1>0. /\ IsTable(families, Families, Family) /\ clock \in Nat
        /\ \A x \in exchanges : x.now \in Nat /\ x.now <= clock
    <2>1. \A x \in exchanges : x.now \in Nat
      BY DEF TypeOK, Exchange
    <2>2. QED BY <2>1, Zenon DEF TypeOK, LimitInv
  <1>a. ASSUME clock' = clock, exchanges' \subseteq exchanges, Narrower(families, families')
        PROVE  LimitInv'
    <2>1. \A x \in exchanges' : x.now <= clock
      BY <1>0, <1>a, Zenon
    <2>2. QED BY <1>a, <2>1, NarrowStep, Zenon
  <1>b. ASSUME NEW x, FinishExchange(x) PROVE clock' = clock /\ exchanges' \subseteq exchanges
    BY <1>b, Zenon DEF FinishExchange
  <1>1. ASSUME NEW code \in Codes, NEW ref \in ClientRefs, NEW now \in Nows,
               BeginExchange(code, ref, now)
        PROVE  LimitInv'
    <2>1. PICK x : x = [code |-> code, ref |-> ref, now |-> now, user |-> user]
      BY Zenon
    <2>2. x.now <= clock
      BY <2>1, NowsAreTimes
    <2>3. clock' = clock /\ families' = families /\ exchanges' = exchanges \cup {x}
      BY <1>1, <2>1, Zenon DEF BeginExchange
    <2>4. QED BY <2>2, <2>3, Zenon DEF LimitInv, FamilyLimit
  <1>2. ASSUME NEW x \in exchanges, ExchangeReplay(x) \/ ExchangeRefused(x) PROVE LimitInv'
    <2> DEFINE P == PurgedFamilies(x.now, PURGE_GRACE_SECONDS)
    <2>1. FinishExchange(x) /\ \/ families' = families \/ families' = P
                               \/ \E ks : families' = Revoked(P, ks, x.now)
      BY <1>2, Zenon DEF ExchangeReplay, ExchangeRefused, Purge
    <2>2. Narrower(families, P) /\ \A ks : Narrower(families, Revoked(P, ks, x.now))
      BY <1>0, PurgeRevokeNarrows, Zenon
    <2>3. Narrower(families, families')
      BY <2>1, <2>2, NarrowerOrder, Zenon
    <2>4. QED BY <1>a, <1>b, <2>1, <2>3, Zenon
  <1>3. ASSUME NEW x \in exchanges, NEW id \in Families, ExchangeCode(x, id) PROVE LimitInv'
    <2> DEFINE P == PurgedFamilies(x.now, PURGE_GRACE_SECONDS)
               C == PurgedCodes(x.now)
               S == PurgedSessions(x.now)
               new == NewFamily(x.code, x.ref, C[x.code], S[C[x.code].sid], x.now)
               F == Put(P, id, new)
    <2>1. /\ FinishExchange(x)
          /\ \/ families' = P
             \/ families' = Revoked(F, BeyondLimit(F, x.ref.client_id, x.now), x.now)
      BY <1>3, Zenon DEF ExchangeCode
    <2>2. IsTable(P, Families, Family) /\ Narrower(families, P)
      BY <1>0, PurgeRevokeNarrows, Zenon
    <2>3. /\ x.now \in Nat /\ x.code \in Codes /\ x.ref \in ClientRefs
          /\ PURGE_GRACE_SECONDS \in Nat
      BY WindowsAreTimes DEF TypeOK, Exchange
    <2>4. new \in Family
      <3>1. IsTable(C, Codes, Code) /\ IsTable(S, Sids, Session)
        BY <2>3, PurgeTyped, Zenon
      <3>2. x.code \in DOMAIN C /\ C[x.code].sid \in DOMAIN S
        BY <1>3, Zenon DEF ExchangeCode, Exchangeable
      <3>3. C[x.code] \in Code /\ S[C[x.code].sid] \in Session
        BY <3>1, <3>2, Zenon DEF IsTable
      <3>4. QED BY <2>3, <3>3, NewFamilyTyped, Zenon
    <2>5. new.client_id = x.ref.client_id
      BY Zenon DEF NewFamily
    <2> HIDE DEF P, C, S, new
    <2>6. clock' = clock /\ exchanges' \subseteq exchanges
      BY <1>b, <2>1, Zenon
    <2>7. CASE families' = P
      BY <1>a, <2>2, <2>6, <2>7, Zenon
    <2>8. CASE families' = Revoked(F, BeyondLimit(F, x.ref.client_id, x.now), x.now)
      <3>1. PICK n : n = x.now BY Zenon
      <3>2. PICK r : r = x.ref BY Zenon
      <3>3. n \in Nat /\ n <= clock /\ r \in ClientRefs /\ new.client_id = r.client_id
        BY <1>0, <2>3, <2>5, <3>1, <3>2, Zenon
      <3>4. families' = Revoked(F, BeyondLimit(F, r.client_id, n), n)
        BY <2>8, <3>1, <3>2, Zenon
      <3> HIDE DEF F
      <3>5. F = Put(P, id, new) BY Zenon DEF F
      <3>6. QED BY <2>2, <2>4, <2>6, <3>3, <3>4, <3>5, ExchangeLimits, Zenon
    <2>9. QED BY <2>1, <2>7, <2>8, Zenon
  <1>4. ASSUME NEW now \in Nows, NEW f, NEW n, NEW ref,
               RefreshOfRecreatedClient(f, ref, now) \/ RefreshReuse(f, n, ref, now)
        PROVE  LimitInv'
    <2> DEFINE F == PurgedFamilies(now, ReuseWindow)
    <2>1. /\ clock' = clock /\ exchanges' = exchanges
          /\ \/ families' = Restrict(F, DOMAIN F \ {f})
             \/ \E ks : families' = Revoked(F, ks, now)
      BY <1>4, Zenon DEF RefreshOfRecreatedClient, RefreshReuse
    <2>2. Narrower(families, F) /\ \A ks : Narrower(families, Revoked(F, ks, now))
      BY NowsAreTimes, PurgeRevokeNarrows, Zenon
    <2> HIDE DEF F
    <2>3. Narrower(families, Restrict(F, DOMAIN F \ {f}))
      BY <2>2, Zenon DEF Narrower, Restrict
    <2>4. Narrower(families, families')
      BY <2>1, <2>2, <2>3, Zenon
    <2>5. QED BY <1>a, <2>1, <2>4, Zenon
  <1>5. ASSUME NEW now \in Nows, NEW f, NEW ref, NEW scope,
               RotateRefreshToken(f, ref, scope, now)
        PROVE  LimitInv'
    <2> DEFINE F == PurgedFamilies(now, ReuseWindow)
               n == F[f].current_serial
               idle == Minimum(now + RefreshIdleTtl, F[f].absolute_expires_at)
               next == [F[f] EXCEPT
                          !.tokens = @ \cup {[serial |-> n + 1, created_at |-> now]},
                          !.current_serial = n + 1,
                          !.consumed = @ \cup {[serial |-> n, at |-> now]},
                          !.idle_expires_at = idle]
    <2>1. /\ clock' = clock /\ exchanges' = exchanges /\ f \in DOMAIN F /\ Live(F[f], now)
          /\ families' = [F EXCEPT ![f] = next]
      BY <1>5, Zenon DEF RotateRefreshToken, Presented
    <2>2. IsTable(F, Families, Family) /\ Narrower(families, F)
      BY NowsAreTimes, PurgeRevokeNarrows, Zenon
    <2> HIDE DEF F, idle
    <2>3. now = clock /\ clock <= clock
      BY <1>0, NowIsClock
    <2>4. Within(F, clock)
      BY <1>0, <2>2, <2>3, NarrowerIsWithin, Zenon
    <2>5. F[f] \in Family
      BY <2>1, <2>2, Zenon DEF IsTable
    <2>6. next.client_id = F[f].client_id
      BY <2>5, Zenon DEF Family
    <2> HIDE DEF next
    <2>7. Within(families', clock)
      <3>1. DOMAIN families' = DOMAIN F /\ families'[f] = next
        BY <2>1, Zenon
      <3>2. \A g \in DOMAIN F : g # f => families'[g] = F[g]
        BY <2>1, Zenon
      <3>3. Live(families[f], clock)
        BY <2>1, <2>3, <2>4, Zenon DEF Within
      <3>4. QED BY <2>1, <2>4, <2>6, <3>1, <3>2, <3>3, Zenon DEF Within
    <2>8. \A x \in exchanges' : x.now <= clock
      BY <1>0, <2>1, Zenon
    <2>9. QED BY <2>1, <2>7, <2>8, WithinStep, Zenon
  <1>6. ASSUME NEW now \in Nows, NEW fs, RevokeFamilies(fs, now) PROVE LimitInv'
    <2>1. clock' = clock /\ exchanges' = exchanges /\ families' = Revoked(families, fs, now)
      BY <1>6, Zenon DEF RevokeFamilies
    <2>2. Narrower(families, families')
      BY <1>0, <2>1, NowsAreTimes, RevokedNarrows, Zenon
    <2>3. QED BY <1>a, <2>1, <2>2, Zenon
  <1>7. QED
    BY <1>1, <1>2, <1>3, <1>4, <1>5, <1>6, Zenon
       DEF FamilyNext, RevokeFamilyById, RevokeFamiliesOfClient, RevokeSessionFamiliesOfClient

\* When handlers act at the time they captured, a client never has more live families
\* than the limit, whatever exchanges are suspended meanwhile.
THEOREM FamiliesAreLimited ==
    ASSUME MaxSkew = 0
    PROVE  Spec => []FamilyLimit
  <1>1. Init => LimitInv
    <2> SUFFICES ASSUME Init PROVE LimitInv
      OBVIOUS
    <2>1. /\ DOMAIN families = {} /\ exchanges = {}
          /\ \A client : LiveFamilies(families, client, clock) = {}
      BY Zenon DEF Init, NoRows, LiveFamilies
    <2>2. IsFiniteSet({}) /\ Cardinality({}) = 0
      BY FS_EmptySet, Zenon
    <2>3. 0 <= MAX_REFRESH_FAMILIES_PER_CLIENT
      BY TimeAssumption
    <2>4. QED BY <2>1, <2>2, <2>3, Zenon DEF LimitInv, FamilyLimit
  <1>2. TypeOK /\ LimitInv /\ [Next]_vars => LimitInv'
    <2>1. ASSUME LimitInv, UNCHANGED vars PROVE LimitInv'
      BY <2>1, Zenon DEF vars, tables, LimitInv, FamilyLimit
    <2>2. QED BY <2>1, LifecycleLimited, SessionLimited, GrantLimited, FamilyLimited, Zenon
              DEF Next
  <1>3. LimitInv => FamilyLimit
    BY Zenon DEF LimitInv
  <1>4. QED BY <1>1, <1>2, <1>3, TypeCorrect, PTL DEF Spec
=============================================================================
