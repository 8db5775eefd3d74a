----------------------------- MODULE TrustStore -----------------------------
(***************************************************************************)
(* What the store of trusted phones promises, without threads, locks or    *)
(* clocks.  Trust is given and withdrawn in memory at once; a commit takes *)
(* one picture of the memory and makes it durable; an answer to the user   *)
(* ("paired", "revoked") may only be given with the commit that makes it   *)
(* true.  PairedStore is shown to implement this module.                   *)
(***************************************************************************)
EXTENDS FiniteSets

CONSTANT Ids            \* pairing ids

VARIABLES trusted,      \* ids that may resume now
          durable,      \* ids a restart would load
          staged,       \* {} or {S}: S is being made durable
          confirmed,    \* ids the user was told are saved
          revoked       \* ids the user was told are gone

vars == <<trusted, durable, staged, confirmed, revoked>>

TypeOK == /\ trusted \subseteq Ids
          /\ durable \subseteq Ids
          /\ staged \subseteq SUBSET Ids
          /\ confirmed \subseteq Ids
          /\ revoked \subseteq Ids

Init == /\ trusted = {} /\ durable = {} /\ staged = {}
        /\ confirmed = {} /\ revoked = {}

(* A revoked id never comes back: pairing again issues a new id. *)
Admit(id) == /\ id \notin revoked
             /\ trusted' = trusted \union {id}
             /\ UNCHANGED <<durable, staged, confirmed, revoked>>

(* Trust ends: by the user's hand or because it expired. *)
Withdraw(S) == /\ trusted' = trusted \ S
               /\ confirmed' = confirmed \ S
               /\ UNCHANGED <<durable, staged, revoked>>

Stage == /\ staged = {}
         /\ staged' = {trusted}
         /\ UNCHANGED <<trusted, durable, confirmed, revoked>>

Commit == /\ durable' \in staged
          /\ staged' = {}

Abandon == durable' = durable /\ staged' = {}

Settle == /\ Commit \/ Abandon
          /\ UNCHANGED <<trusted, confirmed, revoked>>

ConfirmTrust(id) == /\ Commit
                    /\ confirmed' = confirmed \union ({id} \intersect trusted)
                    /\ confirmed' \subseteq durable'
                    /\ UNCHANGED <<trusted, revoked>>

ConfirmRevoke(id) == /\ Commit \/ Abandon
                     /\ id \notin trusted \union durable'
                     /\ revoked' = revoked \union {id}
                     /\ UNCHANGED <<trusted, confirmed>>

Stop == /\ trusted' = {}
        /\ staged' = {}
        /\ UNCHANGED <<durable, confirmed, revoked>>

(* Loading may drop expired trust, on disk too, or find the file unreadable. *)
Restart == /\ trusted = {}
           /\ trusted' \subseteq durable
           /\ durable' \in {durable, trusted'}
           /\ confirmed' \in {confirmed, confirmed \intersect trusted'}
           /\ UNCHANGED <<staged, revoked>>

Next == \/ \E id \in Ids : Admit(id) \/ ConfirmTrust(id) \/ ConfirmRevoke(id)
        \/ \E S \in SUBSET Ids : Withdraw(S)
        \/ Stage \/ Settle \/ Stop \/ Restart

Spec == Init /\ [][Next]_vars

=============================================================================
