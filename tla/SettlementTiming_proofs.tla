----------------------- MODULE SettlementTiming_proofs -----------------------
(***************************************************************************)
(* Proofs about SettlementTiming: an honest payment is never told that it  *)
(* is wrong, and an accepted one settles when the configuration says, for  *)
(* any windows, fixed times and expiries, any length of the chain and any  *)
(* number of reorganisations.                                              *)
(***************************************************************************)
EXTENDS SettlementTiming, SequenceTheorems, TLAPS

Canonical == ToSet(chain)

(* Blocks are numbered and their timestamps grow.  A block that was        *)
(* abandoned is on an older fork than every block still to come, so it     *)
(* never becomes canonical again.                                          *)
ChainInv ==
  /\ chain \in Seq(Block) /\ chain # <<>>
  /\ known \subseteq Block
  /\ reorgs \in Nat /\ now \in Nat
  /\ \A i \in 1 .. Len(chain) :
       chain[i].number = i /\ chain[i].fork <= reorgs /\ chain[i] \in known
  /\ \A i, j \in 1 .. Len(chain) : i < j => chain[i].time < chain[j].time
  /\ \A b \in known \ Canonical : b.fork < reorgs

(* A challenge's settlement time can be found again from its reference.    *)
ChallengeInv ==
  challenge # Absent =>
    /\ challenge.time = SettlementTime(challenge.reference)
    /\ InWindowMode => challenge.reference \in known

Unpaid == {"start", "latest", "challenged"}
Verified == {"reread", "creation", "accepted"}

PaymentRecord == [id : [time : Time, salt : Salts], time : Time, block : Nat]

PaymentInv ==
  /\ pc \in Unpaid => ~honest
  /\ pc \in Unpaid \cup {"paid"} => creation = Unmined
  /\ payment # Absent \/ pc \notin Unpaid \cup {"threw"} => payment \in PaymentRecord
  /\ creation \in Nat
  /\ creation # Unmined /\ reorgs = 0 => payment.block = creation
  /\ pc \in Verified => payment.time = SettlementTime(proof.reference) /\ creation # Unmined
  /\ pc \in {"reference", "reread", "creation"} => InWindowMode
  /\ pc \in {"creation", "accepted"} /\ InWindowMode => proof.reference \in known

(* An honest client did as the challenge says, and its payment was created *)
(* after the challenge's reference as long as that is canonical.           *)
HonestInv ==
  honest =>
    /\ challenge # Absent
    /\ payment \in PaymentRecord
    /\ payment.id = PaymentId(challenge.time, payment.id.salt)
    /\ payment.time = challenge.time
    /\ SaltFits(payment.id.salt)
    /\ pc # "paid" => proof.salt = payment.id.salt /\ proof.reference = challenge.reference
    /\ InWindowMode /\ challenge.reference \in Canonical =>
         /\ payment.block # Unmined => challenge.reference.number < payment.block
         /\ creation # Unmined => challenge.reference.number < creation

(* The block of the creation of an accepted payment, as the verifier read  *)
(* it: known for good, canonical until the chain is reorganised.           *)
ReadAsCreation(block) ==
  /\ block.number = creation
  /\ NotAfter(proof.reference, block)
  /\ reorgs = 0 => creation \in 1 .. Len(chain) /\ block = chain[creation]

BoundInv == pc = "accepted" /\ InWindowMode => \E block \in known : ReadAsCreation(block)

ConfigInv == config.window \in Windows \cup {Absent}

IInv ==
  /\ ConfigInv /\ ChainInv /\ ChallengeInv
  /\ PaymentInv /\ HonestInv /\ HonestPaymentPasses /\ BoundInv

-----------------------------------------------------------------------------
(* The chain.                                                              *)
LEMMA ChainFacts ==
  ASSUME ChainInv
  PROVE  /\ Len(chain) \in Nat \ {0}
         /\ \A i \in 1 .. Len(chain) : chain[i] \in Block /\ chain[i] \in Canonical
         /\ \A b \in Canonical : \E i \in 1 .. Len(chain) : chain[i] = b
         /\ Last(chain) = chain[Len(chain)]
  BY DEF ChainInv, Canonical, ToSet, Last

NewestBlock == [number |-> Len(chain) + 1, time |-> now, fork |-> reorgs]

LEMMA NewBlockChain ==
  ASSUME ChainInv, NewBlock
  PROVE  /\ ChainInv'
         /\ \A b \in known : b \in Canonical' <=> b \in Canonical
<1> DEFINE n == Len(chain)
<1>1. /\ chain' = Append(chain, NewestBlock)
      /\ known' = known \cup {NewestBlock}
      /\ reorgs' = reorgs /\ now' = now
      /\ chain[n].time < now
  BY ChainFacts DEF NewBlock, NewestBlock
<1>2. NewestBlock \in Block
  BY ChainFacts DEF ChainInv, Block, NewestBlock
<1>3. /\ chain' \in Seq(Block) /\ chain' # <<>>
      /\ Len(chain') = n + 1
      /\ chain'[n + 1] = NewestBlock
      /\ \A i \in 1 .. n : chain'[i] = chain[i]
      /\ n \in Nat \ {0}
      /\ \A i \in 1 .. n + 1 : i \in 1 .. n \/ i = n + 1
  BY <1>1, <1>2, ChainFacts DEF ChainInv
<1>4. Canonical' = Canonical \cup {NewestBlock}
  BY <1>3 DEF Canonical, ToSet, ChainInv
<1>5. \A i \in 1 .. n : chain[i].time < now
  <2> SUFFICES ASSUME NEW i \in 1 .. n
               PROVE  chain[i].time < now
    OBVIOUS
  <2>0. chain[i] \in Block /\ chain[n] \in Block /\ n \in 1 .. n
    BY <1>3, ChainFacts
  <2>1. chain[i].time \in Nat /\ chain[n].time \in Nat /\ now \in Nat
    BY <2>0 DEF ChainInv, Block
  <2>2. i = n \/ chain[i].time < chain[n].time
    BY <1>3 DEF ChainInv
  <2> QED
    BY <1>1, <2>1, <2>2
<1>6. NewestBlock.number = n + 1 /\ NewestBlock.time = now /\ NewestBlock.fork = reorgs
  BY DEF NewestBlock
<1>7. \A i \in 1 .. n + 1 :
        chain'[i].number = i /\ chain'[i].fork <= reorgs /\ chain'[i] \in known'
  BY <1>1, <1>3, <1>6 DEF ChainInv
<1>8. \A i, j \in 1 .. n + 1 : i < j => chain'[i].time < chain'[j].time
  <2> SUFFICES ASSUME NEW i \in 1 .. n + 1, NEW j \in 1 .. n + 1, i < j
               PROVE  chain'[i].time < chain'[j].time
    OBVIOUS
  <2>1. i \in 1 .. n
    BY <1>3
  <2>2. CASE j \in 1 .. n
    BY <1>3, <2>1, <2>2 DEF ChainInv
  <2>3. CASE j = n + 1
    BY <1>3, <1>5, <1>6, <2>1, <2>3
  <2> QED
    BY <1>3, <2>2, <2>3
<1>9. \A b \in known' \ Canonical' : b.fork < reorgs
  BY <1>1, <1>4 DEF ChainInv
<1>10. ChainInv'
  BY <1>1, <1>2, <1>3, <1>7, <1>8, <1>9 DEF ChainInv
<1>11. ASSUME NEW b \in known
       PROVE  b \in Canonical' <=> b \in Canonical
  <2>1. b = NewestBlock => b \in Canonical
    BY <1>6 DEF ChainInv
  <2> QED
    BY <1>4, <2>1
<1> QED
  BY <1>10, <1>11

LEMMA ReorgChain ==
  ASSUME ChainInv, Reorg
  PROVE  /\ ChainInv' /\ Canonical' \subseteq Canonical
         /\ reorgs' # 0 /\ known' = known
<1> DEFINE n == Len(chain)
<1>1. /\ n \in Nat /\ n > 1
      /\ chain' = SubSeq(chain, 1, n - 1)
      /\ reorgs' = reorgs + 1 /\ known' = known /\ now' = now
  BY ChainFacts DEF Reorg, Front
<1>2. /\ chain' \in Seq(Block) /\ Len(chain') = n - 1
      /\ chain' # <<>>
      /\ \A i \in 1 .. n - 1 : chain'[i] = chain[i] /\ i \in 1 .. n
  <2>1. \A i \in 1 .. n - 1 : chain[i] \in Block /\ i \in 1 .. n
    BY <1>1, ChainFacts
  <2>2. 1 <= n - 1 /\ n - 1 \in Int /\ (n - 1) - 1 + 1 = n - 1
    BY <1>1
  <2>3. /\ chain' \in Seq(Block) /\ Len(chain') = n - 1
        /\ \A i \in 1 .. n - 1 : chain'[i] = chain[1 + i - 1]
    BY <1>1, <2>1, <2>2, SubSeqProperties
  <2> QED
    BY <2>1, <2>2, <2>3
<1>3. \A b \in Canonical : b \in Canonical' \/ b = chain[n]
  <2> SUFFICES ASSUME NEW b \in Canonical
               PROVE  b \in Canonical' \/ b = chain[n]
    OBVIOUS
  <2>1. PICK i \in 1 .. n : chain[i] = b
    BY ChainFacts
  <2>2. i = n \/ i \in 1 .. n - 1
    BY <1>1
  <2> QED
    BY <1>2, <2>1, <2>2 DEF Canonical, ToSet
<1>4. Canonical' \subseteq Canonical
  BY <1>1, <1>2, ChainFacts DEF Canonical, ToSet
<1>5. \A b \in known : b \in Block
  BY DEF ChainInv
<1>6. \A b \in known \ Canonical' : b.fork < reorgs + 1
  <2> SUFFICES ASSUME NEW b \in known \ Canonical'
               PROVE  b.fork < reorgs + 1
    OBVIOUS
  <2>1. b.fork \in Nat /\ reorgs \in Nat
    BY <1>5 DEF Block, ChainInv
  <2>2. b.fork < reorgs \/ b.fork <= reorgs
    BY <1>1, <1>3 DEF ChainInv
  <2> QED
    BY <2>1, <2>2
<1>7. \A i \in 1 .. n - 1 :
        chain'[i].number = i /\ chain'[i].fork <= reorgs + 1 /\ chain'[i] \in known
  <2> SUFFICES ASSUME NEW i \in 1 .. n - 1
               PROVE  chain'[i].number = i /\ chain'[i].fork <= reorgs + 1 /\ chain'[i] \in known
    OBVIOUS
  <2>1. chain[i].number = i /\ chain[i].fork <= reorgs /\ chain[i] \in known
    BY <1>2 DEF ChainInv
  <2>2. chain[i].fork \in Nat /\ reorgs \in Nat
    BY <1>5, <2>1 DEF Block, ChainInv
  <2> QED
    BY <1>2, <2>1, <2>2
<1>8. \A i, j \in 1 .. n - 1 : i < j => chain'[i].time < chain'[j].time
  BY <1>2 DEF ChainInv
<1>9. reorgs' \in Nat /\ reorgs' # 0
  BY <1>1 DEF ChainInv
<1>10. ChainInv'
  BY <1>1, <1>2, <1>6, <1>7, <1>8, <1>9 DEF ChainInv
<1> QED
  BY <1>1, <1>4, <1>9, <1>10

LEMMA ChainStep ==
  ASSUME ChainInv, [Next]_vars
  PROVE  /\ ChainInv'
         /\ known \subseteq known'
         /\ \A b \in known : b \in Canonical' => b \in Canonical
<1>1. CASE NewBlock
  BY <1>1, NewBlockChain DEF NewBlock
<1>2. CASE Reorg
  BY <1>2, ReorgChain
<1>3. CASE Tick
  BY <1>3 DEF Tick, ChainInv, Canonical
<1>4. CASE UNCHANGED chainVars
  BY <1>4 DEF chainVars, ChainInv, Canonical
<1> QED
  BY <1>1, <1>2, <1>3, <1>4
     DEF Next, AskForChallenge, IssueChallenge, ChallengeFails, Pay, Prove, Verify, CheckProof,
         ResolveReference, ReadReceipt, RereadReference, ReadCreationBlock, ReadFails, vars

LEMMA ReorgsGrow ==
  ASSUME ChainInv, [Next]_vars
  PROVE  reorgs' = 0 => reorgs = 0
<1>1. CASE Reorg
  BY <1>1, ReorgChain
<1>2. CASE UNCHANGED reorgs
  BY <1>2
<1> QED
  BY <1>1, <1>2
     DEF Next, AskForChallenge, IssueChallenge, ChallengeFails, Pay, Prove, Verify, CheckProof,
         ResolveReference, ReadReceipt, RereadReference, ReadCreationBlock, ReadFails, NewBlock,
         Tick, vars, chainVars

-----------------------------------------------------------------------------
LEMMA InvInit == Init => IInv
<1> SUFFICES ASSUME Init
             PROVE  IInv
  OBVIOUS
<1>1. ChainInv
  <2>1. chain = <<Genesis>> /\ known = {Genesis} /\ reorgs = 0 /\ now = 0 /\ Genesis \in Block
    BY DEF Init, Genesis, Block
  <2>2. /\ chain \in Seq(Block) /\ chain # <<>> /\ Len(chain) = 1
        /\ \A i \in 1 .. Len(chain) : i = 1 /\ chain[i] = Genesis
    BY <2>1
  <2>3. Genesis \in Canonical
    BY <2>1 DEF Canonical, ToSet
  <2>4. Genesis.number = 1 /\ Genesis.fork <= reorgs
    BY <2>1 DEF Genesis
  <2> QED
    BY <2>1, <2>2, <2>3, <2>4 DEF ChainInv
<1>2. ConfigInv /\ ChallengeInv /\ PaymentInv /\ HonestInv /\ HonestPaymentPasses /\ BoundInv
  BY DEF Init, ConfigInv, Unpaid, ChallengeInv, PaymentInv, Verified, HonestInv, HonestPaymentPasses, BoundInv, Unmined
<1> QED
  BY <1>1, <1>2 DEF IInv

(* What names the settlement time of a reference never changes.            *)
LEMMA ConfigStays ==
  ASSUME [Next]_vars
  PROVE  config' = config
  BY DEF Next, AskForChallenge, IssueChallenge, ChallengeFails, Pay, Prove, Verify, CheckProof,
         ResolveReference, ReadReceipt, RereadReference, ReadCreationBlock, ReadFails, NewBlock,
         Reorg, Tick, vars

LEMMA ConfigFixes ==
  ASSUME config' = config
  PROVE  /\ InWindowMode' <=> InWindowMode
         /\ \A reference : SettlementTime(reference)' = SettlementTime(reference)
         /\ \A salt : SaltFits(salt)' <=> SaltFits(salt)
         /\ FixedTime' = FixedTime
  BY DEF InWindowMode, SettlementTime, FixedTime, SaltFits, RequestSalt

-----------------------------------------------------------------------------
(* The steps of client and server.                                         *)
LEMMA ChallengeStep ==
  ASSUME IInv, [Next]_vars
  PROVE  ChallengeInv'
<1>1. /\ known \subseteq known'
      /\ InWindowMode' <=> InWindowMode
      /\ \A reference : SettlementTime(reference)' = SettlementTime(reference)
  BY ChainStep, ConfigStays, ConfigFixes DEF IInv
<1>2. CASE IssueChallenge /\ challenge' # challenge
  <2>1. PICK reference \in known :
          challenge' = [time |-> SettlementTime(reference),
                        reference |-> IF InWindowMode THEN reference ELSE Absent]
    BY <1>2 DEF IssueChallenge
  <2>2. challenge'.time = SettlementTime(reference)
    BY <2>1
  <2>3. CASE InWindowMode
    BY <1>1, <2>1, <2>2, <2>3 DEF ChallengeInv
  <2>4. CASE ~InWindowMode
    <3>1. \A other : SettlementTime(other) = FixedTime
      BY <2>4 DEF SettlementTime
    <3> QED
      BY <1>1, <2>2, <2>4, <3>1 DEF ChallengeInv
  <2> QED
    BY <2>3, <2>4
<1>3. CASE challenge' = challenge
  BY <1>1, <1>3 DEF IInv, ChallengeInv
<1> QED
  BY <1>2, <1>3
     DEF Next, AskForChallenge, ChallengeFails, Pay, Prove, Verify, CheckProof,
         ResolveReference, ReadReceipt, RereadReference, ReadCreationBlock, ReadFails, NewBlock,
         Reorg, Tick, vars

LEMMA PaymentStep ==
  ASSUME IInv, [Next]_vars
  PROVE  PaymentInv'
<1>1. /\ known \subseteq known'
      /\ InWindowMode' <=> InWindowMode
      /\ \A reference : SettlementTime(reference)' = SettlementTime(reference)
  BY ChainStep, ConfigStays, ConfigFixes DEF IInv
<1> USE <1>1 DEF IInv, PaymentInv, Unpaid, Verified, Unavailable, Unmined
<1>2. CASE AskForChallenge \/ ChallengeFails
  BY <1>2 DEF AskForChallenge, ChallengeFails, chainVars
<1>3. CASE IssueChallenge
  BY <1>3 DEF IssueChallenge, chainVars
<1>4. CASE Pay
  <2>1. PICK salt \in Salts, idTime \in Time, time \in Time :
          payment' = [id |-> [time |-> idTime, salt |-> salt], time |-> time, block |-> 0]
    BY <1>4 DEF Pay, PaymentId
  <2>2. payment' \in PaymentRecord
    BY <2>1 DEF PaymentRecord
  <2> QED
    BY <1>4, <2>2 DEF Pay, chainVars
<1>5. CASE Prove
  BY <1>5 DEF Prove, chainVars
<1>6. CASE CheckProof
  BY <1>6 DEF CheckProof, chainVars
<1>7. CASE ResolveReference
  BY <1>7 DEF ResolveReference, Agrees, chainVars
<1>8. CASE ReadReceipt
  <2>0. payment \in PaymentRecord /\ payment.block \in Nat
    BY <1>8 DEF ReadReceipt, PaymentRecord
  <2>1. pc' \in Verified =>
          /\ payment.block # Unmined
          /\ payment.time = SettlementTime(proof.reference)
          /\ pc' = "reread" <=> InWindowMode
    BY <1>8 DEF ReadReceipt, VerifyCreatedEvent
  <2>2. pc' \notin {"threw", "reference", "creation", "paid"} \cup Unpaid
    BY <1>8 DEF ReadReceipt, VerifyCreatedEvent
  <2>3. pc' = "accepted" => ~InWindowMode
    BY <1>8 DEF ReadReceipt, VerifyCreatedEvent
  <2>4. /\ creation' = payment.block /\ payment' = payment /\ honest' = honest
        /\ proof' = proof
    BY <1>8 DEF ReadReceipt
  <2> QED
    BY <2>0, <2>1, <2>2, <2>3, <2>4
<1>9. CASE RereadReference
  BY <1>9 DEF RereadReference, Agrees, chainVars
<1>10. CASE ReadCreationBlock
  BY <1>10 DEF ReadCreationBlock, chainVars
<1>11. CASE ReadFails
  BY <1>11 DEF ReadFails, chainVars
<1>12. CASE NewBlock \/ Reorg
  <2>1. payment' = payment \/ \E n \in Nat : payment # Absent /\ payment' = [payment EXCEPT !.block = n]
    <3>1. CASE NewBlock
      BY <3>1, ChainFacts DEF NewBlock
    <3>2. CASE Reorg
      BY <3>2 DEF Reorg
    <3> QED
      BY <1>12, <3>1, <3>2
  <2>2. payment # Absent \/ payment' = payment
    BY <2>1
  <2>3. payment \in PaymentRecord => payment' \in PaymentRecord /\ payment'.time = payment.time
    BY <2>1 DEF PaymentRecord
  <2>4. ASSUME creation' # Unmined, reorgs' = 0
        PROVE  payment'.block = creation'
    <3>1. reorgs = 0 /\ creation' = creation /\ payment.block = creation
      BY <1>12, <2>4, ReorgsGrow DEF NewBlock, Reorg
    <3>2. ~Reorg
      BY <2>4, ReorgChain
    <3> QED
      BY <1>12, <2>4, <3>1, <3>2 DEF NewBlock
  <2> QED
    BY <1>12, <2>2, <2>3, <2>4 DEF NewBlock, Reorg
<1>13. CASE Tick \/ UNCHANGED vars
  BY <1>13 DEF Tick, vars, chainVars
<1> QED
  BY <1>2, <1>3, <1>4, <1>5, <1>6, <1>7, <1>8, <1>9, <1>10, <1>11, <1>12, <1>13
     DEF Next, Verify

(* A reference that is canonical and known has been so all along.          *)
LEMMA ReferenceStays ==
  ASSUME IInv, [Next]_vars, challenge # Absent, challenge' = challenge
  PROVE  InWindowMode' /\ challenge'.reference \in Canonical' =>
           InWindowMode /\ challenge.reference \in Canonical /\ challenge.reference \in Block
  BY ChainStep, ConfigStays, ConfigFixes DEF IInv, ChallengeInv, ChainInv

LEMMA HonestStep ==
  ASSUME IInv, [Next]_vars
  PROVE  HonestInv'
<1>1. /\ InWindowMode' <=> InWindowMode
      /\ \A salt : SaltFits(salt)' <=> SaltFits(salt)
  BY ConfigStays, ConfigFixes
<1>2. CASE Pay
  <2>1. PICK salt \in Salts, idTime \in Time, time \in Time :
          /\ payment' = [id |-> PaymentId(idTime, salt), time |-> time, block |-> 0]
          /\ honest' => /\ challenge # Absent /\ SaltFits(salt)
                        /\ idTime = challenge.time /\ time = challenge.time
    BY <1>2 DEF Pay, Unmined
  <2>2. /\ payment'.id = PaymentId(idTime, salt) /\ payment'.id.salt = salt
        /\ payment'.time = time /\ payment'.block = 0
    BY <2>1 DEF PaymentId
  <2>4. payment' \in PaymentRecord
    BY <2>1 DEF PaymentRecord, PaymentId
  <2>3. creation' = 0 /\ pc' = "paid" /\ challenge' = challenge
    BY <1>2 DEF Pay, IInv, PaymentInv, Unpaid, Unmined
  <2> QED
    BY <1>1, <2>1, <2>2, <2>3, <2>4 DEF HonestInv, PaymentId, Unmined
<1> SUFFICES ASSUME honest', ~Pay
             PROVE  HonestInv'
  BY <1>2 DEF HonestInv
<1>3. /\ honest /\ pc \notin Unpaid /\ challenge # Absent /\ challenge' = challenge
  BY DEF Next, AskForChallenge, IssueChallenge, ChallengeFails, Prove, Verify, CheckProof,
         ResolveReference, ReadReceipt, RereadReference, ReadCreationBlock, ReadFails, NewBlock,
         Reorg, Tick, vars, IInv, HonestInv, PaymentInv, Unpaid
<1>4. InWindowMode' /\ challenge'.reference \in Canonical' =>
        InWindowMode /\ challenge.reference \in Canonical /\ challenge.reference \in Block
  BY <1>3, ReferenceStays
<1>5. CASE Prove
  BY <1>1, <1>3, <1>4, <1>5 DEF Prove, IInv, HonestInv
<1>6. CASE ReadReceipt
  BY <1>1, <1>3, <1>4, <1>6 DEF ReadReceipt, IInv, HonestInv
<1>7. CASE CheckProof \/ ResolveReference \/ RereadReference \/ ReadCreationBlock \/ ReadFails
  <2>1. UNCHANGED <<payment, proof, creation>> /\ pc # "paid"
    BY <1>7 DEF CheckProof, ResolveReference, RereadReference, ReadCreationBlock, ReadFails
  <2> QED
    BY <1>1, <1>3, <1>4, <2>1 DEF IInv, HonestInv
<1>8. CASE NewBlock \/ Reorg
  <2>0. UNCHANGED <<proof, creation, pc>> /\ payment \in PaymentRecord
    BY <1>3, <1>8 DEF NewBlock, Reorg, IInv, PaymentInv, HonestInv
  <2>1. \/ payment' = payment
        \/ payment' = [payment EXCEPT !.block = 0]
        \/ payment' = [payment EXCEPT !.block = Len(chain) + 1]
    BY <1>8, ChainFacts DEF NewBlock, Reorg, Unmined
  <2>2. /\ payment'.id = payment.id /\ payment'.time = payment.time
        /\ payment' \in PaymentRecord
        /\ payment'.block \in {payment.block, 0, Len(chain) + 1}
    BY <2>0, <2>1, ChainFacts DEF PaymentRecord, IInv
  <2>3. challenge.reference \in Canonical =>
          challenge.reference.number < Len(chain) + 1
    BY ChainFacts DEF IInv, ChainInv
  <2> QED
    BY <1>1, <1>3, <1>4, <2>0, <2>2, <2>3 DEF IInv, HonestInv, Unmined
<1>9. CASE Tick \/ UNCHANGED vars
  BY <1>1, <1>3, <1>4, <1>9 DEF Tick, vars, IInv, HonestInv
<1> QED
  BY <1>3, <1>5, <1>6, <1>7, <1>8, <1>9
     DEF Next, AskForChallenge, IssueChallenge, ChallengeFails, Verify, Unpaid

(* No verdict of the verifier is against an honest payment.                *)
LEMMA PassStep ==
  ASSUME IInv, [Next]_vars
  PROVE  HonestPaymentPasses'
<1> SUFFICES ASSUME honest', InWindowMode' => challenge'.reference \in Canonical'
             PROVE  pc' \notin Rejected
  BY DEF HonestPaymentPasses, Canonical, Rejected
<1>1. CASE Pay
  BY <1>1 DEF Pay, Rejected
<1> SUFFICES ASSUME ~Pay
             PROVE  pc' \notin Rejected
  BY <1>1
<1>2. /\ honest /\ pc \notin Unpaid /\ challenge # Absent /\ challenge' = challenge
  BY DEF Next, AskForChallenge, IssueChallenge, ChallengeFails, Prove, Verify, CheckProof,
         ResolveReference, ReadReceipt, RereadReference, ReadCreationBlock, ReadFails, NewBlock,
         Reorg, Tick, vars, IInv, HonestInv, PaymentInv, Unpaid
<1>3. /\ InWindowMode' <=> InWindowMode
      /\ InWindowMode => /\ challenge.reference \in Canonical /\ challenge.reference \in known
                         /\ challenge.reference \in Block /\ challenge.reference # Absent
  BY <1>2, ReferenceStays, ConfigStays, ConfigFixes, AbsentAssumption
     DEF IInv, ChallengeInv, ChainInv
<1>4. pc \notin Rejected
  BY <1>2, <1>3 DEF IInv, HonestPaymentPasses, Canonical
<1>5. pc # "paid" => proof.salt = payment.id.salt /\ proof.reference = challenge.reference
  BY <1>2 DEF IInv, HonestInv
<1>6. CASE CheckProof
  BY <1>2, <1>3, <1>5, <1>6 DEF CheckProof, Rejected, IInv, HonestInv
<1>7. CASE ResolveReference \/ RereadReference
  BY <1>2, <1>3, <1>5, <1>7
     DEF ResolveReference, RereadReference, Agrees, Rejected, IInv, PaymentInv
<1>8. CASE ReadReceipt
  <2>1. VerifyCreatedEvent(payment, SettlementTime(proof.reference)) = "ok"
    BY <1>2, <1>5, <1>8 DEF ReadReceipt, VerifyCreatedEvent, IInv, HonestInv, ChallengeInv
  <2> QED
    BY <1>8, <2>1 DEF ReadReceipt, Rejected
<1>9. CASE ReadCreationBlock
  <2> DEFINE reference == challenge.reference
  <2>1. /\ InWindowMode /\ creation \in Nat /\ creation # 0 /\ proof.reference = reference
        /\ reference.number < creation
    BY <1>2, <1>3, <1>5, <1>9
       DEF ReadCreationBlock, IInv, PaymentInv, HonestInv, Verified, Unmined
  <2>2. PICK i \in 1 .. Len(chain) : chain[i] = reference /\ chain[i].number = i
    BY <1>3, <2>1, ChainFacts DEF IInv, ChainInv
  <2>3. ASSUME creation <= Len(chain)
        PROVE  NotAfter(reference, chain[creation])
    <3>1. creation \in 1 .. Len(chain) /\ i < creation
      BY <2>1, <2>2, <2>3, ChainFacts DEF IInv
    <3>2. /\ chain[i].time < chain[creation].time
          /\ chain[creation].number = creation
      BY <3>1 DEF IInv, ChainInv
    <3>3. chain[creation] \in Block /\ chain[i] \in Block
      BY <3>1, ChainFacts DEF IInv
    <3>4. chain[creation].time \in Nat /\ chain[i].time \in Nat
      BY <3>3 DEF Block
    <3> QED
      BY <2>2, <3>1, <3>2, <3>4 DEF NotAfter
  <2> QED
    BY <1>9, <2>1, <2>3, ChainFacts DEF ReadCreationBlock, Rejected, IInv
<1>10. CASE ReadFails \/ Prove
  BY <1>10 DEF ReadFails, Prove, Rejected
<1>11. CASE NewBlock \/ Reorg \/ Tick \/ UNCHANGED vars
  BY <1>4, <1>11 DEF NewBlock, Reorg, Tick, vars
<1> QED
  BY <1>2, <1>6, <1>7, <1>8, <1>9, <1>10, <1>11
     DEF Next, AskForChallenge, IssueChallenge, ChallengeFails, Verify, Unpaid

LEMMA BoundStep ==
  ASSUME IInv, [Next]_vars
  PROVE  BoundInv'
<1> SUFFICES ASSUME pc' = "accepted", InWindowMode'
             PROVE  \E block \in known' : ReadAsCreation(block)'
  BY DEF BoundInv
<1>1. InWindowMode
  BY ConfigStays, ConfigFixes
<1>2. CASE ReadCreationBlock
  <2>1. /\ UNCHANGED <<chain, known, creation, proof, reorgs>>
        /\ ~(creation > Len(chain)) /\ NotAfter(proof.reference, chain[creation])
    BY <1>2 DEF ReadCreationBlock, chainVars
  <2>2. creation \in 1 .. Len(chain)
    BY <1>2, <2>1, ChainFacts DEF ReadCreationBlock, IInv, PaymentInv, Verified, Unmined
  <2>3. chain[creation] \in known /\ chain[creation].number = creation
    BY <2>2 DEF IInv, ChainInv
  <2>4. ReadAsCreation(chain[creation])'
    BY <2>1, <2>2, <2>3 DEF ReadAsCreation, NotAfter
  <2> QED
    BY <2>1, <2>3, <2>4
<1>3. CASE pc = "accepted"
  <2>1. PICK block \in known : ReadAsCreation(block)
    BY <1>1, <1>3 DEF IInv, BoundInv
  <2>2. UNCHANGED <<creation, proof>>
    BY <1>3 DEF Next, AskForChallenge, IssueChallenge, ChallengeFails, Pay, Prove, Verify,
       CheckProof, ResolveReference, ReadReceipt, RereadReference, ReadCreationBlock, ReadFails,
       NewBlock, Reorg, Tick, vars, Unavailable
  <2>3. ASSUME reorgs' = 0, creation \in 1 .. Len(chain), block = chain[creation], reorgs = 0
        PROVE  creation \in 1 .. Len(chain') /\ block = chain'[creation]
    <3>1. chain' = chain \/ NewBlock
      BY <1>3, <2>3, ReorgChain DEF IInv, Next, AskForChallenge, IssueChallenge, ChallengeFails,
         Pay, Prove, Verify, CheckProof, ResolveReference, ReadReceipt, RereadReference,
         ReadCreationBlock, ReadFails, Tick, vars, chainVars
    <3>2. NewBlock => Len(chain') = Len(chain) + 1 /\ \A i \in 1 .. Len(chain) : chain'[i] = chain[i]
      <4>1. Len(chain) \in Nat /\ chain \in Seq(Block)
        BY ChainFacts DEF IInv, ChainInv
      <4>2. NewBlock => \E b : chain' = Append(chain, b)
        BY DEF NewBlock
      <4> QED
        BY <4>1, <4>2
    <3> QED
      BY <2>3, <3>1, <3>2, ChainFacts DEF IInv
  <2>4. reorgs' = 0 => reorgs = 0
    BY ReorgsGrow DEF IInv
  <2>5. ReadAsCreation(block)'
    BY <2>1, <2>2, <2>3, <2>4 DEF ReadAsCreation, NotAfter
  <2>6. block \in known'
    BY <2>1, ChainStep DEF IInv
  <2> QED
    BY <2>5, <2>6
<1> QED
  BY <1>1, <1>2, <1>3
     DEF Next, AskForChallenge, IssueChallenge, ChallengeFails, Pay, Prove, Verify, CheckProof,
         ResolveReference, ReadReceipt, RereadReference, ReadFails, NewBlock, Reorg, Tick, vars,
         VerifyCreatedEvent

-----------------------------------------------------------------------------
LEMMA InvStep ==
  ASSUME IInv, [Next]_vars
  PROVE  IInv'
<1>1. ConfigInv'
  BY ConfigStays DEF IInv, ConfigInv
<1> QED
  BY <1>1, ChainStep, ChallengeStep, PaymentStep, HonestStep, PassStep, BoundStep DEF IInv

(* A client that does what the challenge asks and returns its reference is *)
(* never told that its payment is wrong, while that reference is canonical *)
(* (settlement.ts, verifyCreatedEvent and verifySettlementPolicy).         *)
THEOREM HonestPays == Spec => []HonestPaymentPasses
<1>1. IInv => HonestPaymentPasses
  BY DEF IInv
<1> QED
  BY <1>1, InvInit, InvStep, PTL DEF Spec

(* An accepted payment settles at the fixed time, or a window after a      *)
(* block that the chain really had and that is neither higher nor later    *)
(* than the one that created the payment, whatever the client claims       *)
(* (resolveSettlementReference, verifySettlementPolicy).                   *)
THEOREM TimingIsBound == Spec => []AcceptedTimingIsBound
<1>1. IInv => AcceptedTimingIsBound
  <2> SUFFICES ASSUME IInv, pc = "accepted"
               PROVE  AcceptedTimingIsBound
    BY DEF AcceptedTimingIsBound
  <2>1. payment.time = SettlementTime(proof.reference) /\ creation # Unmined
    BY DEF IInv, PaymentInv, Verified
  <2>2. CASE ~InWindowMode
    BY <2>1, <2>2 DEF AcceptedTimingIsBound, SettlementTime
  <2>3. CASE InWindowMode
    <3>1. payment.time = proof.reference.time + config.window /\ proof.reference \in known
      BY <2>1, <2>3 DEF SettlementTime, IInv, PaymentInv
    <3>2. PICK block \in known : ReadAsCreation(block)
      BY <2>3 DEF IInv, BoundInv
    <3>3. reorgs = 0 => block = chain[payment.block]
      BY <2>1, <3>2 DEF ReadAsCreation, IInv, PaymentInv
    <3> QED
      BY <2>3, <3>1, <3>2, <3>3 DEF AcceptedTimingIsBound, ReadAsCreation, NotAfter
  <2> QED
    BY <2>2, <2>3
<1> QED
  BY <1>1, InvInit, InvStep, PTL DEF Spec
=============================================================================
