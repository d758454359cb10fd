---------------------------- MODULE SealedSteps ----------------------------
(***************************************************************************)
(* The sealed-step store of crypto/store.py: a peer commits to a payload   *)
(* (a body and a secret nonce), the commitment is acknowledged, the body   *)
(* is revealed live without its nonce, and the nonces of a sub-game are    *)
(* handed out in one final manifest.                                       *)
(*                                                                         *)
(* A digest is collision free, so the commitment of a payload is the       *)
(* payload itself.  A refused operation raises and leaves the store alone, *)
(* except ReplaceBeforeAck, which has already removed the old step when    *)
(* the new nonce is refused.                                               *)
(***************************************************************************)
CONSTANTS
  Games,    \* <<game_uid, sub_game_number>> of a CommitmentIdentity
  Slots,    \* its <<step_number, actor>>
  Bodies,   \* CommitmentBody values, without the identity fields
  Nonces    \* SecretNonce values

VARIABLES
  steps,      \* _steps: the identities sealed so far, each with a SealedStep
  nonces,     \* _nonces: the fingerprints taken
  disclosed   \* history: the nonces a final manifest has handed out

storeVars == <<steps, nonces, disclosed>>

Identities == Games \X Slots

SealedStep == [body : Bodies, nonce : Nonces,
               acknowledged : BOOLEAN, revealed : BOOLEAN]

\* The phases of services/protocol/phases.py in which nonces may leave.
FinalPhases == {"auditing", "agreeing-result", "reporting", "completed"}

StoreInit == steps = <<>> /\ nonces = {} /\ disclosed = {}

Sealed == DOMAIN steps

NewStep(body, nonce) ==
  [body |-> body, nonce |-> nonce, acknowledged |-> FALSE, revealed |-> FALSE]

Without(f, id) == [i \in DOMAIN f \ {id} |-> f[i]]

With(f, id, step) == [i \in DOMAIN f \cup {id} |->
                        IF i = id THEN step ELSE f[i]]

Seal(id, body, nonce) ==
  /\ id \notin Sealed
  /\ nonce \notin nonces
  /\ steps' = With(steps, id, NewStep(body, nonce))
  /\ nonces' = nonces \cup {nonce}
  /\ UNCHANGED disclosed

\* Mutant: an acknowledged step can be replaced as well.
ReplaceAnyTime(id, body, nonce) ==
  /\ id \in Sealed
  /\ LET kept == nonces \ {steps[id].nonce}
     IN  IF nonce \in kept
           THEN steps' = Without(steps, id) /\ nonces' = kept
           ELSE /\ steps' = With(steps, id, NewStep(body, nonce))
                /\ nonces' = kept \cup {nonce}
  /\ UNCHANGED disclosed

(***************************************************************************)
(* The old step and its fingerprint go first, then the new payload is      *)
(* sealed: a nonce another step holds is refused after the removal, and    *)
(* the identity is left without any step.                                  *)
(***************************************************************************)
ReplaceBeforeAck(id, body, nonce) ==
  /\ id \in Sealed
  /\ ~steps[id].acknowledged
  /\ LET kept == nonces \ {steps[id].nonce}
     IN  IF nonce \in kept
           THEN steps' = Without(steps, id) /\ nonces' = kept
           ELSE /\ steps' = With(steps, id, NewStep(body, nonce))
                /\ nonces' = kept \cup {nonce}
  /\ UNCHANGED disclosed

Acknowledge(id, body, nonce) ==
  /\ id \in Sealed
  /\ steps[id].body = body /\ steps[id].nonce = nonce
  /\ steps' = [steps EXCEPT ![id].acknowledged = TRUE]
  /\ UNCHANGED <<nonces, disclosed>>

\* Mutant: a step is revealed before it was acknowledged.
RevealEarly(id) ==
  /\ id \in Sealed
  /\ steps' = [steps EXCEPT ![id].revealed = TRUE]
  /\ UNCHANGED <<nonces, disclosed>>

Reveal(id) ==
  /\ id \in Sealed
  /\ steps[id].acknowledged
  /\ steps' = [steps EXCEPT ![id].revealed = TRUE]
  /\ UNCHANGED <<nonces, disclosed>>

Selected(game) == {id \in Sealed : id[1] = game}

FinalManifest(game, phase) ==
  /\ phase \in FinalPhases
  /\ Selected(game) # {}
  /\ \A id \in Selected(game) : steps[id].revealed
  /\ disclosed' = disclosed \cup {steps[id].nonce : id \in Selected(game)}
  /\ UNCHANGED <<steps, nonces>>

StoreNext ==
  \/ \E id \in Identities, body \in Bodies, nonce \in Nonces :
        \/ Seal(id, body, nonce)
        \/ ReplaceBeforeAck(id, body, nonce)
        \/ Acknowledge(id, body, nonce)
  \/ \E id \in Identities : Reveal(id)
  \/ \E game \in Games, phase \in FinalPhases : FinalManifest(game, phase)

StoreSpec == StoreInit /\ [][StoreNext]_storeVars

----------------------------------------------------------------------------
(* Properties *)

(***************************************************************************)
(* The fingerprints and the steps agree after every operation, a refused   *)
(* replacement included: each sealed step has a nonce of its own and no    *)
(* fingerprint stays taken by a step that is gone (store.py:41-80).        *)
(***************************************************************************)
NoncesMatchSteps ==
  /\ nonces = {steps[id].nonce : id \in Sealed}
  /\ \A i, j \in Sealed : steps[i].nonce = steps[j].nonce => i = j

(***************************************************************************)
(* A nonce leaves the store only with the manifest of a sub-game whose     *)
(* every step was acknowledged and revealed first, however sealing,        *)
(* replacing and revealing of other steps interleave (store.py:90-121).    *)
(***************************************************************************)
NoncesStaySecret ==
  \A id \in Sealed :
     steps[id].nonce \in disclosed => steps[id].acknowledged /\ steps[id].revealed

(***************************************************************************)
(* What was acknowledged is what is revealed: from the acknowledgement on, *)
(* neither the payload nor the step itself can change or disappear, and a  *)
(* lock is never taken back (store.py:60-88).                              *)
(***************************************************************************)
LockedStaysLocked ==
  \A id \in Sealed : steps[id].acknowledged =>
     /\ id \in DOMAIN steps'
     /\ steps'[id].body = steps[id].body
     /\ steps'[id].nonce = steps[id].nonce
     /\ steps'[id].acknowledged
     /\ steps[id].revealed => steps'[id].revealed

============================================================================
