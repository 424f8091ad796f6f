------------------------------ MODULE MCUserDO ------------------------------
(* Small instances of UserDO for TLC.                                      *)
EXTENDS UserDO, TLC

Client(id, created, skip, offline) ==
    [client_id |-> id, created_at |-> created, anyone |-> TRUE, allowed_groups |-> {},
     skip_consent |-> skip, refresh |-> TRUE, offline_access |-> offline]

\* One client whose families all end with their session.
OneClient == {Client("app", 0, TRUE, FALSE)}
OpenId == {{"openid"}}

\* One client whose families outlive the session.
OneOffline == {Client("app", 0, TRUE, TRUE)}
Offline == {{"offline_access"}}

\* A client deleted and created again, open to one group and asking for consent.
Members(client) == [client EXCEPT !.anyone = FALSE, !.allowed_groups = {"admins"}]
ConsentClients == {Members(Client("app", c, FALSE, FALSE)) : c \in {0, 1}}
TwoScopes == {{"openid"}, {"email"}}

Admins == {"admins"}
NoGroups == {}
Symmetry == Permutations(Sids) \cup Permutations(Codes)
=============================================================================
