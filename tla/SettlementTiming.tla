--------------------------- MODULE SettlementTiming ---------------------------
(***************************************************************************)
(* When a payment settles: how the server picks the settlement time of a   *)
(* challenge (settlement.ts, the challenge of payment-authorizer.ts), how  *)
(* a stateless server finds it again from the proof, and the checks that   *)
(* bind it to the payment (payment-id.ts, verifyCreatedEvent and           *)
(* verifySettlementPolicy of payment-verifier.ts).                         *)
(*                                                                         *)
(* One payment of one client, honest or not.  A block is its number, its   *)
(* timestamp and the fork it is on; the record stands for the hash.  What  *)
(* else a payment id hashes (payee, amount, payer, ...) is one value.      *)
(***************************************************************************)
EXTENDS Integers, Sequences, SequencesExt

CONSTANTS
  Windows,    \* values of payment.settlementWindow
  Fixed,      \* values of payment.settlementTimeUnixSec and of the terms'
  Expiries,   \* values of the terms' expiresAtUnixSec
  Absent,     \* undefined
  MaxTime,    \* bound on the clock, the server's and the chain's
  MaxReorgs   \* bound on reorganisations, each of the last block

Block == [number : Nat, time : Nat, fork : Nat]

ASSUME WindowsAssumption == Windows \subseteq Int
ASSUME FixedAssumption == Fixed \subseteq Nat
ASSUME MaxTimeAssumption == MaxTime \in Nat
(* Undefined is neither a time nor a block.                                *)
ASSUME AbsentAssumption == Absent \notin Int \cup Block

VARIABLES
  config,     \* window, settlementTime, terms' settlementTime, expiry, identifier
  chain,      \* the canonical blocks
  known,      \* all blocks ever mined: a node may know abandoned ones
  reorgs,     \* reorganisations so far, counted for the bound
  now,        \* the clock
  pc,         \* what the client or the server waits for, or the verdict
  challenge,  \* the challenge issued, or Absent
  payment,    \* the created payment, or Absent
  proof,      \* the salt and the reference the client sends
  creation,   \* receipt.blockNumber
  honest      \* history: the client paid what the challenge asks

chainVars == <<chain, known, reorgs, now>>
vars == <<config, chainVars, pc, challenge, payment, proof, creation, honest>>

Time == 0 .. MaxTime
Salts == {"canonical", "own"}
Genesis == [number |-> 1, time |-> 0, fork |-> 0]
Unmined == 0

Unavailable == {"unavailable", "early"}
Rejected == {"payment-id-mismatch", "missing-settlement-reference",
             "reference-block-mismatch", "wrong-settlement-time",
             "reference-settlement-out-of-bounds"}

Init ==
  /\ config \in [window : Windows \cup {Absent}, fixed : Fixed \cup {Absent},
                 terms : Fixed \cup {Absent}, expiry : Expiries,
                 identifier : {"canonical", "client"}]
  /\ chain = <<Genesis>>
  /\ known = {Genesis}
  /\ reorgs = 0
  /\ now = 0
  /\ pc = "start"
  /\ challenge = Absent
  /\ payment = Absent
  /\ proof = Absent
  /\ creation = Unmined
  /\ honest = FALSE

-----------------------------------------------------------------------------
(* validateSettlementTimingConfiguration and fixedSettlementTime: exactly  *)
(* one source, and a window that is not negative.                          *)
Given(field) == IF config[field] = Absent THEN 0 ELSE 1
Configured ==
  /\ Given("window") + Given("fixed") + Given("terms") = 1
  /\ config.window # Absent => config.window >= 0

InWindowMode == config.window # Absent
FixedTime == IF config.fixed # Absent THEN config.fixed ELSE config.terms

(* addWindow, and the settlement time of a request built on a reference.   *)
SettlementTimeFromHead(reference) ==
  IF InWindowMode THEN Last(chain).time + config.window ELSE FixedTime
SettlementTime(reference) ==
  IF InWindowMode THEN reference.time + config.window ELSE FixedTime

(* assertPayableTermsDoNotSelectSalt and completeTermsFromRequest: the     *)
(* identifier alone selects the salt of the request.                       *)
RequestSalt == IF config.identifier = "client" THEN Absent ELSE "canonical"

(* validatePaymentSalt: a request without a salt takes any but the         *)
(* canonical one.                                                          *)
SaltFits(salt) ==
  IF RequestSalt = Absent THEN salt # "canonical" ELSE salt = RequestSalt

(* derivePaymentId hashes the settlement time and the salt.                *)
PaymentId(time, salt) == [time |-> time, salt |-> salt]

-----------------------------------------------------------------------------
(* authorize without a proof.  In window mode the latest reference may be  *)
(* one the cache holds or a lagging node serves.                           *)
AskForChallenge ==
  /\ pc = "start"
  /\ pc' = IF Configured THEN "latest" ELSE "threw"
  /\ UNCHANGED <<config, chainVars, challenge, payment, proof, creation, honest>>

IssueChallenge ==
  /\ pc = "latest"
  /\ \E reference \in known :
       IF config.expiry <= now
         THEN pc' = "threw" /\ UNCHANGED challenge
         ELSE /\ pc' = "challenged"
              /\ challenge' = [time |-> SettlementTime(reference),
                               reference |-> IF InWindowMode THEN reference ELSE Absent]
  /\ UNCHANGED <<config, chainVars, payment, proof, creation, honest>>

(* The client creates a payment; one that does not follow the challenge,   *)
(* or never asked for one, may give the contract any id and any time.      *)
Pay ==
  /\ pc \in {"start", "challenged"}
  /\ \E salt \in Salts, idTime, time \in Time :
       /\ payment' = [id |-> PaymentId(idTime, salt), time |-> time, block |-> Unmined]
       /\ honest' = /\ challenge # Absent /\ SaltFits(salt)
                     /\ idTime = challenge.time /\ time = challenge.time
  /\ pc' = "paid"
  /\ UNCHANGED <<config, chainVars, challenge, proof, creation>>

(* The client sends the proof, of an honest payment with the salt of the   *)
(* payment and the reference of the challenge; again after a 425 or a 503. *)
Altered(reference) == [reference EXCEPT !.time = @ + 1]
Claimable == {Absent} \cup known \cup {Altered(b) : b \in known}

Prove ==
  /\ pc \in {"paid"} \cup Unavailable
  /\ \E salt \in Salts, reference \in Claimable :
       /\ honest => salt = payment.id.salt /\ reference = challenge.reference
       /\ proof' = [salt |-> salt, reference |-> reference]
  /\ pc' = "proving"
  /\ UNCHANGED <<config, chainVars, challenge, payment, creation, honest>>

(* resolveProofSettlementTerms and verifyPaymentSalt.                      *)
CheckProof ==
  /\ pc = "proving"
  /\ pc' = IF ~Configured THEN "threw"
           ELSE IF InWindowMode /\ proof.reference = Absent THEN "missing-settlement-reference"
           ELSE IF ~SaltFits(proof.salt) THEN "payment-id-mismatch"
           ELSE IF InWindowMode THEN "reference" ELSE "receipt"
  /\ UNCHANGED <<config, chainVars, challenge, payment, proof, creation, honest>>

(* A node finds a canonical block by hash; an abandoned one perhaps.  The  *)
(* block found has the number and the timestamp that were claimed.         *)
AgreesOnNumber(reference) == \E block \in known : block.number = reference.number
Agrees(reference) == reference \in known

(* resolveSettlementReference.                                             *)
ResolveReference ==
  /\ pc = "reference"
  /\ pc' = IF Agrees(proof.reference) THEN "receipt" ELSE "reference-block-mismatch"
  /\ UNCHANGED <<config, chainVars, challenge, payment, proof, creation, honest>>

(* The receipt, and verifyCreatedEvent: the id is checked first.           *)
VerifyCreatedEvent(event, time) ==
  IF event.id # PaymentId(time, proof.salt) THEN "payment-id-mismatch"
  ELSE IF event.time # time THEN "wrong-settlement-time" ELSE "ok"

ReadReceipt ==
  LET verdict == VerifyCreatedEvent(payment, SettlementTime(proof.reference)) IN
  /\ pc = "receipt"
  /\ pc' = IF payment.block = Unmined THEN "early"
           ELSE IF verdict # "ok" THEN verdict
           ELSE IF InWindowMode THEN "reread" ELSE "accepted"
  /\ creation' = payment.block
  /\ UNCHANGED <<config, chainVars, challenge, payment, proof, honest>>

(* verifySettlementPolicy: the reference again, past the cache, then the   *)
(* canonical block of the receipt's number.                                *)
RereadReference ==
  /\ pc = "reread"
  /\ pc' = IF Agrees(proof.reference) THEN "creation" ELSE "reference-block-mismatch"
  /\ UNCHANGED <<config, chainVars, challenge, payment, proof, creation, honest>>

NotAfter(reference, block) ==
  reference.number <= block.number /\ reference.time <= block.time

ReadCreationBlock ==
  /\ pc = "creation"
  /\ pc' = IF creation > Len(chain) THEN "unavailable"
           ELSE IF ~NotAfter(proof.reference, chain[creation])
             THEN "reference-settlement-out-of-bounds"
           ELSE "accepted"
  /\ UNCHANGED <<config, chainVars, challenge, payment, proof, creation, honest>>

(* Any of these reads may fail, or miss an abandoned block.                *)
ReadFails ==
  /\ pc \in {"reference", "receipt", "reread", "creation"}
  /\ pc' = "unavailable"
  /\ UNCHANGED <<config, chainVars, challenge, payment, proof, creation, honest>>

ChallengeFails ==
  /\ pc = "latest"
  /\ InWindowMode
  /\ pc' = "start"
  /\ UNCHANGED <<config, chainVars, challenge, payment, proof, creation, honest>>

-----------------------------------------------------------------------------
(* A block, with or without the payment's creation.                        *)
NewBlock ==
  LET block == [number |-> Len(chain) + 1, time |-> now, fork |-> reorgs] IN
  /\ Last(chain).time < now
  /\ chain' = Append(chain, block)
  /\ known' = known \cup {block}
  /\ \/ UNCHANGED payment
     \/ /\ payment # Absent
        /\ payment.block = Unmined
        /\ payment' = [payment EXCEPT !.block = block.number]
  /\ UNCHANGED <<config, reorgs, now, pc, challenge, proof, creation, honest>>

Reorg ==
  /\ reorgs < MaxReorgs
  /\ Len(chain) > 1
  /\ chain' = Front(chain)
  /\ reorgs' = reorgs + 1
  /\ payment' = IF payment # Absent /\ payment.block = Len(chain)
                  THEN [payment EXCEPT !.block = Unmined] ELSE payment
  /\ UNCHANGED <<config, known, now, pc, challenge, proof, creation, honest>>

Tick ==
  /\ now < MaxTime
  /\ now' = now + 1
  /\ UNCHANGED <<config, chain, known, reorgs, pc, challenge, payment, proof,
                 creation, honest>>

Verify ==
  CheckProof \/ ResolveReference \/ ReadReceipt \/ RereadReference
    \/ ReadCreationBlock \/ ReadFails

Next ==
  \/ AskForChallenge \/ IssueChallenge \/ ChallengeFails
  \/ Pay \/ Prove \/ Verify
  \/ NewBlock \/ Reorg \/ Tick

Spec == Init /\ [][Next]_vars

-----------------------------------------------------------------------------
(* A client that pays what it was asked and returns the challenge's        *)
(* reference is never told that its payment is wrong, however long the     *)
(* payment and the proof take and whatever the chain has become ("no       *)
(* longer substitutes newer chain data for an issued challenge",           *)
(* CHANGELOG.md), unless the reference was abandoned in a reorganisation.  *)
HonestPaymentPasses ==
  honest /\ (InWindowMode => challenge.reference \in ToSet(chain)) => pc \notin Rejected

(* Whatever a client claims, a payment is accepted only on the settlement  *)
(* time the configuration names: the fixed one, or a window after a block  *)
(* that the chain really had, neither higher nor later than the block the  *)
(* receipt named.  That one is the block that created the payment, unless  *)
(* the chain was reorganised.                                              *)
AcceptedTimingIsBound ==
  pc = "accepted" =>
    IF InWindowMode
      THEN \E reference, created \in known :
             /\ payment.time = reference.time + config.window
             /\ created.number = creation
             /\ reference.number <= created.number /\ reference.time <= created.time
             /\ reorgs = 0 => created = chain[payment.block]
      ELSE payment.time = FixedTime
=============================================================================
