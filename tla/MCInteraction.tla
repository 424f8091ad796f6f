---------------------------- MODULE MCInteraction ----------------------------
(* Small instances of Interaction for TLC.                                 *)
EXTENDS Interaction, TLC

Symmetry == Permutations(Procs) \cup Permutations(Users)

\* States that differ only in what no step reads any more are explored once: a
\* challenge or a leg that expired, what a login would need in a terminal document,
\* and what only a document that exists or may still complete can use.
LiveDoc ==
    LET over == isTerminal(doc.status)
        challenge == {ch \in doc.passkey_challenge : ch.expires_at > clock /\ ~over}
    IN  [doc EXCEPT !.passkey_challenge = challenge,
                    !.registration = @ /\ challenge # {},
                    !.federation = {leg \in @ : leg.expires_at > clock /\ ~over},
                    !.link = IF over THEN {} ELSE @,
                    !.attempts = IF over THEN 0 ELSE @,
                    !.auth = IF doc.status = "completed" THEN {} ELSE @,
                    !.existing_session = IF doc.status = "completed" THEN {} ELSE @]

View ==
    LET gone == doc = NoDoc \/ doc.status = "completed"
        over == gone \/ doc.status = "failed"
    IN  <<clock, IF doc = NoDoc THEN doc ELSE LiveDoc,
          IF doc = NoDoc /\ started THEN 0 ELSE alarm,
          started, call, cookie /\ ~gone, sessionLive /\ ~(gone /\ started),
          IF over /\ started THEN 0 ELSE legs,
          IF over THEN [seen EXCEPT !.tried = 0] ELSE seen>>

==============================================================================
