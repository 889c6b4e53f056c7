---------------------- MODULE BlockReferenceCache_proofs ----------------------
(***************************************************************************)
(* Proofs about BlockReferenceCache: the historical map stays within its   *)
(* limit and sound, no pending read outlives its call, own answers are     *)
(* right, and the latest block neither goes back nor is served too old.    *)
(* For any number of lookups, any limit, TTL and latency, a chain and a    *)
(* clock of any length.                                                    *)
(***************************************************************************)
EXTENDS BlockReferenceCache, SequenceTheorems, TLAPS

Statuses == {"none", "asked", "evaluated", "complete"}
Results == {"none", "ok", "mismatch", "provider-error"}
ReadType ==
  /\ read \in [Lookups -> [status : Statuses, block : 0 .. MaxHeight, at : 0 .. MaxTime,
                           result : Results]]
  /\ DOMAIN outcome = Lookups

Answered(r) == read[r].status = "complete" /\ read[r].result = "ok"

(* Who awaits a read, and which slot holds it until its call resumes.      *)
CallInv(c) ==
  /\ pc[c] = "idle" => awaits[c] = None /\ args[c] = None /\ read[c].status = "none"
  /\ pc[c] = "waiting" => awaits[c] # None
  /\ awaits[c] # None => read[awaits[c]].status # "none"
  /\ read[c].status # "none" => awaits[c] = c
  /\ read[c].status \in {"asked", "evaluated"} =>
       /\ pc[c] = "waiting"
       /\ args[c] = None => latestPending = c
       /\ args[c] # None => byHashPending[args[c].block] = c

CallsInv == \A c \in Lookups : CallInv(c)

SlotsInv ==
  \A c \in Lookups :
    /\ latestPending = c => pc[c] = "waiting" /\ awaits[c] = c /\ args[c] = None
    /\ \A h \in Blocks : byHashPending[h] = c =>
         pc[c] = "waiting" /\ awaits[c] = c /\ args[c] # None /\ args[c].block = h

(* What a read found, and how old it is.                                   *)
ReadsInv ==
  \A c \in Lookups :
    /\ read[c].status = "evaluated" \/ Answered(c) =>
         /\ read[c].block \in Blocks /\ read[c].block <= head
         /\ args[c] # None => read[c].block = args[c].block
    /\ read[c].status = "evaluated" => read[c].at <= now /\ now <= read[c].at + MaxLatency
    /\ read[c].status = "complete" =>
         \/ read[c].result = "provider-error"
         \/ read[c].result = "ok" /\ (args[c] # None => args[c].genuine)
         \/ read[c].result = "mismatch" /\ args[c] # None /\ ~args[c].genuine

(* The cached latest block comes from a read that was fresh when cached,   *)
(* and the one read of "latest" in flight cannot be older.                 *)
LatestInv ==
  latest # None =>
    /\ latest.block <= head
    /\ \E r \in Lookups :
         Answered(r) /\ read[r].block = latest.block /\ latest.cachedAt <= read[r].at + MaxLatency
    /\ \A c \in Lookups :
         read[c].status = "evaluated" /\ args[c] = None => latest.block <= read[c].block

IInv ==
  /\ TypeOK /\ ReadType
  /\ CallsInv /\ SlotsInv /\ ReadsInv /\ LatestInv
  /\ HistoricalSound /\ OwnAnswersAreRight

-----------------------------------------------------------------------------
(* The map: removing a key, inserting at the end, dropping the oldest.     *)
MapOf(entries) ==
  /\ entries \in Seq(Reference)
  /\ \A i, j \in 1 .. Len(entries) :
       entries[i].genuine /\ (entries[i].block = entries[j].block => i = j)

LEMMA CutProperties ==
  ASSUME NEW S, NEW s \in Seq(S), NEW m \in Nat, NEW n \in Nat, 1 <= m, m <= n + 1, n <= Len(s)
  PROVE  /\ SubSeq(s, m, n) \in Seq(S)
         /\ Len(SubSeq(s, m, n)) = n - m + 1
         /\ \A i \in 1 .. n - m + 1 : SubSeq(s, m, n)[i] = s[m + i - 1]
<1>1. m \in Int /\ n \in Int /\ \A i \in m .. n : s[i] \in S
  OBVIOUS
<1>2. /\ SubSeq(s, m, n) \in Seq(S)
      /\ Len(SubSeq(s, m, n)) = (IF m <= n THEN n - m + 1 ELSE 0)
      /\ \A i \in 1 .. n - m + 1 : SubSeq(s, m, n)[i] = s[m + i - 1]
  BY <1>1, SubSeqProperties
<1> QED
  BY <1>2

LEMMA RemoveAtProperties ==
  ASSUME NEW S, NEW s \in Seq(S), NEW k \in 1 .. Len(s)
  PROVE  /\ RemoveAt(s, k) \in Seq(S)
         /\ Len(RemoveAt(s, k)) = Len(s) - 1
         /\ \A i \in 1 .. Len(s) - 1 : RemoveAt(s, k)[i] = IF i < k THEN s[i] ELSE s[i + 1]
<1> DEFINE n == Len(s)
           front == SubSeq(s, 1, k - 1)
           back == SubSeq(s, k + 1, n)
<1>1. n \in Nat /\ k \in 1 .. n /\ k - 1 \in Nat /\ k + 1 \in Nat
  OBVIOUS
<1>2. /\ front \in Seq(S) /\ Len(front) = k - 1
      /\ \A i \in 1 .. k - 1 : front[i] = s[i]
  <2>1. /\ front \in Seq(S) /\ Len(front) = k - 1 - 1 + 1
        /\ \A i \in 1 .. k - 1 - 1 + 1 : front[i] = s[1 + i - 1]
    BY <1>1, CutProperties
  <2> HIDE DEF front
  <2> QED
    BY <1>1, <2>1
<1>3. /\ back \in Seq(S) /\ Len(back) = n - k
      /\ \A i \in 1 .. n - k : back[i] = s[k + i]
  <2>1. /\ back \in Seq(S) /\ Len(back) = n - (k + 1) + 1
        /\ \A i \in 1 .. n - (k + 1) + 1 : back[i] = s[(k + 1) + i - 1]
    BY <1>1, CutProperties
  <2>2. n - (k + 1) + 1 = n - k /\ \A i \in 1 .. n - k : (k + 1) + i - 1 = k + i
    BY <1>1
  <2> HIDE DEF back
  <2> QED
    BY <2>1, <2>2
<1>4. RemoveAt(s, k) = front \o back
  BY DEF RemoveAt
<1> HIDE DEF front, back, n
<1>5. /\ front \o back \in Seq(S) /\ Len(front \o back) = Len(front) + Len(back)
      /\ \A i \in 1 .. Len(front) + Len(back) :
           (front \o back)[i] = IF i <= Len(front) THEN front[i] ELSE back[i - Len(front)]
  BY <1>2, <1>3, ConcatProperties
<1>6. Len(front) + Len(back) = n - 1
  BY <1>1, <1>2, <1>3
<1>7. \A i \in 1 .. n - 1 :
        (IF i <= Len(front) THEN front[i] ELSE back[i - Len(front)]) =
          IF i < k THEN s[i] ELSE s[i + 1]
  <2> TAKE i \in 1 .. n - 1
  <2>1. CASE i < k
    BY <1>1, <1>2, <2>1
  <2>2. CASE ~(i < k)
    <3>1. i - (k - 1) \in 1 .. n - k /\ k + (i - (k - 1)) = i + 1 /\ ~(i <= k - 1)
      BY <1>1, <2>2
    <3> QED
      BY <1>2, <1>3, <2>2, <3>1
  <2> QED
    BY <2>1, <2>2
<1> QED
  BY <1>4, <1>5, <1>6, <1>7 DEF n

LEMMA WithoutProperties ==
  ASSUME NEW entries, MapOf(entries), NEW h
  PROVE  /\ MapOf(Without(entries, h))
         /\ Len(Without(entries, h)) <= Len(entries)
         /\ \A i \in 1 .. Len(Without(entries, h)) : Without(entries, h)[i].block # h
         /\ (\E i \in 1 .. Len(entries) : entries[i].block = h) =>
              Len(Without(entries, h)) = Len(entries) - 1
<1> DEFINE n == Len(entries)
           rest == Without(entries, h)
<1>0. entries \in Seq(Reference) /\ n \in Nat /\ DOMAIN entries = 1 .. n
  BY DEF MapOf
<1>3. rest = Without(entries, h)
  OBVIOUS
<1> HIDE DEF rest
<1>1. CASE \E i \in 1 .. n : entries[i].block = h
  <2>1. PICK k \in 1 .. n : entries[k].block = h /\ rest = RemoveAt(entries, k)
    BY <1>0, <1>1, <1>3 DEF Without
  <2>2. /\ rest \in Seq(Reference) /\ Len(rest) = n - 1
        /\ \A i \in 1 .. n - 1 : rest[i] = IF i < k THEN entries[i] ELSE entries[i + 1]
    BY <1>0, <2>1, RemoveAtProperties
  <2>3. \A i \in 1 .. n : i # k => entries[i].block # h
    BY <2>1 DEF MapOf
  <2>4. \A i \in 1 .. n - 1 : \E o \in 1 .. n :
          /\ o # k /\ rest[i] = entries[o]
          /\ o = IF i < k THEN i ELSE i + 1
    BY <1>0, <2>2
  <2>5. \A i, j \in 1 .. n - 1 :
          rest[i].genuine /\ rest[i].block # h /\ (rest[i].block = rest[j].block => i = j)
    BY <1>0, <2>3, <2>4 DEF MapOf
  <2> QED
    BY <1>0, <1>1, <1>3, <2>2, <2>5 DEF MapOf
<1>2. CASE ~\E i \in 1 .. n : entries[i].block = h
  <2>1. rest = entries
    BY <1>0, <1>2, <1>3 DEF Without
  <2> QED
    <3>1. MapOf(rest) /\ Len(rest) <= n
      BY <1>0, <2>1
    <3>2. /\ \A i \in 1 .. Len(rest) : rest[i].block # h
          /\ (\E i \in 1 .. n : entries[i].block = h) => Len(rest) = n - 1
      BY <1>2, <2>1
    <3> QED
      BY <1>3, <3>1, <3>2
<1> QED
  BY <1>1, <1>2

LEMMA AppendToMap ==
  ASSUME NEW entries, MapOf(entries), NEW ref \in Reference, ref.genuine,
         \A i \in 1 .. Len(entries) : entries[i].block # ref.block
  PROVE  MapOf(Append(entries, ref)) /\ Len(Append(entries, ref)) = Len(entries) + 1
<1> DEFINE n == Len(entries)
           more == Append(entries, ref)
<1>0. entries \in Seq(Reference) /\ n \in Nat
  BY DEF MapOf
<1>1. /\ more \in Seq(Reference) /\ Len(more) = n + 1
      /\ \A i \in 1 .. n : more[i] = entries[i]
      /\ more[n + 1] = ref
  BY <1>0, AppendProperties
<1> HIDE DEF more
<1>2. \A i, j \in 1 .. n + 1 : more[i].genuine /\ (more[i].block = more[j].block => i = j)
  <2>1. \A i \in 1 .. n + 1 : i = n + 1 \/ i \in 1 .. n
    BY <1>0
  <2> QED
    BY <1>1, <2>1 DEF MapOf
<1> QED
  BY <1>0, <1>1, <1>2 DEF MapOf, more

LEMMA InsertProperties ==
  ASSUME NEW entries, MapOf(entries), Len(entries) <= MaxEntries, NEW b \in Blocks
  PROVE  /\ MapOf(InsertHistorical(entries, Genuine(b)))
         /\ Len(InsertHistorical(entries, Genuine(b))) <= MaxEntries
<1> DEFINE ref == Genuine(b)
           moved == InsertWithoutEviction(entries, ref)
           excess == IF Len(moved) > MaxEntries THEN Len(moved) - MaxEntries ELSE 0
           kept == SubSeq(moved, excess + 1, Len(moved))
<1>1. ref \in Reference /\ ref.genuine
  BY DEF Genuine, Reference
<1>2. MapOf(moved) /\ Len(moved) <= MaxEntries + 1
  <2>1. /\ MapOf(Without(entries, ref.block)) /\ Len(Without(entries, ref.block)) <= Len(entries)
        /\ \A i \in 1 .. Len(Without(entries, ref.block)) : Without(entries, ref.block)[i].block # ref.block
    BY WithoutProperties
  <2>2. /\ MapOf(moved) /\ Len(moved) = Len(Without(entries, ref.block)) + 1
    BY <1>1, <2>1, AppendToMap DEF InsertWithoutEviction
  <2> QED
    BY <2>1, <2>2, MaxEntriesAssumption DEF MapOf
<1>3. InsertHistorical(entries, ref) = kept
  BY DEF InsertHistorical
<1>4. moved \in Seq(Reference) /\ Len(moved) \in Nat /\ MaxEntries \in Nat
  BY <1>2, MaxEntriesAssumption DEF MapOf
<1> HIDE DEF moved, ref
<1>5. /\ excess \in Nat /\ excess <= Len(moved) /\ Len(moved) - excess <= MaxEntries
  BY <1>4
<1> HIDE DEF excess
<1>6. /\ kept \in Seq(Reference) /\ Len(kept) = Len(moved) - excess
      /\ \A i \in 1 .. Len(moved) - excess : kept[i] = moved[excess + i]
  <2>1. excess + 1 \in Nat /\ 1 <= excess + 1 /\ excess + 1 <= Len(moved) + 1
    BY <1>4, <1>5
  <2>3. /\ kept \in Seq(Reference)
        /\ Len(kept) = Len(moved) - (excess + 1) + 1
        /\ \A i \in 1 .. Len(moved) - (excess + 1) + 1 : kept[i] = moved[(excess + 1) + i - 1]
    BY <1>4, <2>1, CutProperties
  <2> HIDE DEF kept
  <2> QED
    BY <1>4, <1>5, <2>3
<1> HIDE DEF kept
<1>7. \A i \in 1 .. Len(kept) : excess + i \in 1 .. Len(moved) /\ kept[i] = moved[excess + i]
  <2>1. SUFFICES ASSUME NEW i \in 1 .. Len(kept)
                 PROVE  excess + i \in 1 .. Len(moved) /\ kept[i] = moved[excess + i]
    OBVIOUS
  <2>2. i \in 1 .. Len(moved) - excess
    BY <1>6
  <2>3. excess + i \in 1 .. Len(moved)
    BY <1>4, <1>5, <2>2
  <2> QED
    BY <1>6, <2>2, <2>3
<1>8. MapOf(kept)
  <2>1. \A i, j \in 1 .. Len(kept) : excess + i = excess + j => i = j
    BY <1>4, <1>5, <1>6
  <2> QED
    BY <1>2, <1>6, <1>7, <2>1 DEF MapOf
<1> QED
  BY <1>3, <1>5, <1>6, <1>8 DEF ref

(* A hit moves its key to the end.                                         *)
LEMMA MoveToEnd ==
  ASSUME NEW entries, MapOf(entries), NEW k \in 1 .. Len(entries)
  PROVE  /\ MapOf(Append(Without(entries, entries[k].block), entries[k]))
         /\ Len(Append(Without(entries, entries[k].block), entries[k])) = Len(entries)
<1> DEFINE e == entries[k]
<1>1. e \in Reference /\ e.genuine /\ Len(entries) \in Nat
  BY DEF MapOf
<1>2. /\ MapOf(Without(entries, e.block)) /\ Len(Without(entries, e.block)) = Len(entries) - 1
      /\ \A i \in 1 .. Len(Without(entries, e.block)) : Without(entries, e.block)[i].block # e.block
  BY WithoutProperties
<1> HIDE DEF e
<1>3. /\ MapOf(Append(Without(entries, e.block), e))
      /\ Len(Append(Without(entries, e.block), e)) = Len(Without(entries, e.block)) + 1
  BY <1>1, <1>2, AppendToMap
<1> QED
  BY <1>1, <1>2, <1>3 DEF e

-----------------------------------------------------------------------------
(* Type correctness.                                                       *)
LEMMA Distinct ==
  /\ None \notin Lookups /\ None \notin Reference
  /\ None \notin [block : Blocks, cachedAt : 0 .. MaxTime]
  /\ 1 \in Blocks /\ 0 \in 0 .. MaxTime /\ 0 \in 0 .. MaxHeight
  /\ \A b \in Blocks : b \in Nat /\ b \in 0 .. MaxHeight
  /\ \A b \in 0 .. MaxHeight : b # 0 => b \in Blocks
<1>1. Blocks \subseteq Nat /\ 0 .. MaxTime \subseteq Nat
  BY BoundsAssumption DEF Blocks
<1>2. None \notin Reference
  <2> SUFFICES ASSUME None \in Reference
               PROVE  None \in [block : Nat, genuine : BOOLEAN]
    BY NoneAssumption
  <2> QED
    BY <1>1 DEF Reference
<1>3. None \notin [block : Blocks, cachedAt : 0 .. MaxTime]
  <2> SUFFICES ASSUME None \in [block : Blocks, cachedAt : 0 .. MaxTime]
               PROVE  None \in [block : Nat, cachedAt : Nat]
    BY NoneAssumption
  <2> QED
    BY <1>1
<1> QED
  BY <1>1, <1>2, <1>3, NoneAssumption, BoundsAssumption DEF Blocks

Types == TypeOK /\ ReadType /\ HistoricalSound

LEMMA HistoricalIsMap ==
  (TypeOK /\ HistoricalSound) => (MapOf(historical) /\ Len(historical) <= MaxEntries)
  BY DEF TypeOK, HistoricalSound, MapOf

LEMMA MapIsHistorical ==
  ASSUME MapOf(historical'), Len(historical') <= MaxEntries
  PROVE  historical' \in Seq(Reference) /\ HistoricalSound'
  BY DEF HistoricalSound, MapOf

LEMMA AskTypes ==
  ASSUME Types, NEW c \in Lookups, Ask(c)
  PROVE  /\ read'[c] = [status |-> "asked", block |-> 0, at |-> now, result |-> "none"]
         /\ \A d \in Lookups \ {c} : read'[d] = read[d]
         /\ read' \in [Lookups -> [status : Statuses, block : 0 .. MaxHeight, at : 0 .. MaxTime,
                                   result : Results]]
<1> DEFINE new == [status |-> "asked", block |-> 0, at |-> now, result |-> "none"]
<1>1. read' = [read EXCEPT ![c] = new]
  BY DEF Ask
<1>2. new \in [status : Statuses, block : 0 .. MaxHeight, at : 0 .. MaxTime, result : Results]
  BY Distinct DEF Types, TypeOK, Statuses, Results
<1> HIDE DEF new
<1> QED
  BY <1>1, <1>2 DEF Types, ReadType, new

(* A hit in the map is one of its entries.                                 *)
LEMMA HitFacts ==
  ASSUME Types, NEW h, NEW e \in CachedFor(h)
  PROVE  /\ e \in Reference /\ e.genuine /\ e.block = h
         /\ MapOf(Append(Without(historical, h), e))
         /\ Len(Append(Without(historical, h), e)) <= MaxEntries
<1>1. PICK k \in 1 .. Len(historical) : historical[k] = e /\ e.block = h
  BY DEF CachedFor, ToSet, Types, TypeOK
<1>2. MapOf(historical) /\ Len(historical) <= MaxEntries
  BY HistoricalIsMap DEF Types
<1>3. /\ MapOf(Append(Without(historical, h), e))
      /\ Len(Append(Without(historical, h), e)) = Len(historical)
  BY <1>1, <1>2, MoveToEnd
<1> QED
  BY <1>1, <1>2, <1>3 DEF MapOf

(* What a call does to itself, and what it leaves of the others.           *)
OthersKept(c) ==
  \A d \in Lookups \ {c} :
    pc'[d] = pc[d] /\ args'[d] = args[d] /\ awaits'[d] = awaits[d] /\ outcome'[d] = outcome[d]

Answers(c) == pc'[c] = "done" /\ awaits'[c] = awaits[c] /\ read' = read
Waits(c, r) == pc'[c] = "waiting" /\ awaits'[c] = r

LEMMA GetLatestFacts ==
  ASSUME Types, NEW c \in Lookups, GetLatest(c)
  PROVE  /\ pc[c] = "idle" /\ OthersKept(c) /\ args' = args
         /\ UNCHANGED <<latest, byHashPending, historical, head, now>>
         /\ \/ /\ Answers(c) /\ latest # None /\ now - latest.cachedAt < Ttl
               /\ outcome'[c] = Ok(Genuine(latest.block)) /\ latestPending' = latestPending
            \/ /\ Waits(c, latestPending) /\ latestPending \in Lookups
               /\ UNCHANGED <<read, latestPending>>
            \/ Waits(c, c) /\ Ask(c) /\ latestPending = None /\ latestPending' = c
<1> USE DEF GetLatest, Return, Await, OthersKept, Types, TypeOK, ReadType
<1>1. /\ pc[c] = "idle" /\ OthersKept(c) /\ args' = args
      /\ UNCHANGED <<latest, byHashPending, historical, head, now>>
  BY DEF OthersKept
<1>2. \/ /\ LatestHits /\ Return(c, Ok(Genuine(latest.block)))
         /\ UNCHANGED <<awaits, read, latestPending>>
      \/ /\ Joins(latestPending) /\ Await(c, latestPending)
         /\ UNCHANGED <<read, latestPending>>
      \/ ~Joins(latestPending) /\ Await(c, c) /\ Ask(c) /\ latestPending' = c
  OBVIOUS
<1> QED
  BY <1>1, <1>2 DEF LatestHits, Joins, Answers, Waits

LEMMA GetByHashFacts ==
  ASSUME Types, NEW c \in Lookups, NEW expected \in Reference, GetByHash(c, expected)
  PROVE  /\ pc[c] = "idle" /\ OthersKept(c) /\ args'[c] = expected
         /\ args' \in [Lookups -> Reference \cup {None}]
         /\ expected.block \in Blocks
         /\ UNCHANGED <<latest, latestPending, head, now>>
         /\ \/ /\ Answers(c) /\ byHashPending' = byHashPending
               /\ MapOf(historical') /\ Len(historical') <= MaxEntries
               /\ \E e \in Reference :
                    /\ e.genuine /\ e.block = expected.block
                    /\ outcome'[c] = IF e = expected THEN Ok(e) ELSE Failure("mismatch")
            \/ /\ Waits(c, byHashPending[expected.block]) /\ byHashPending[expected.block] \in Lookups
               /\ UNCHANGED <<read, byHashPending, historical>>
            \/ /\ Waits(c, c) /\ Ask(c) /\ byHashPending[expected.block] = None
               /\ byHashPending'[expected.block] = c
               /\ \A h \in Blocks \ {expected.block} : byHashPending'[h] = byHashPending[h]
               /\ byHashPending' \in [Blocks -> Lookups \cup {None}]
               /\ historical' = historical
<1> DEFINE h == expected.block
<1>0. h \in Blocks
  BY DEF Reference
<1> HIDE DEF h
<1>1. /\ pc[c] = "idle" /\ args'[c] = expected
      /\ args' \in [Lookups -> Reference \cup {None}]
      /\ \A d \in Lookups \ {c} : args'[d] = args[d]
      /\ UNCHANGED <<latest, latestPending, head, now>>
  BY DEF GetByHash, Types, TypeOK
<1>2. \/ \E e \in CachedFor(h) :
           /\ historical' = Append(Without(historical, h), e)
           /\ Return(c, IF SameBlockReference(e, expected) THEN Ok(e) ELSE Failure("mismatch"))
           /\ UNCHANGED <<awaits, read, byHashPending>>
      \/ /\ Joins(byHashPending[h])
         /\ Await(c, byHashPending[h])
         /\ UNCHANGED <<read, byHashPending, historical>>
      \/ /\ ~Joins(byHashPending[h])
         /\ Await(c, c) /\ Ask(c)
         /\ byHashPending' = [byHashPending EXCEPT ![h] = c]
         /\ historical' = historical
  BY DEF GetByHash, h
<1> USE <1>0, <1>1 DEF Return, Await, OthersKept, Types, TypeOK, ReadType, Answers, Waits
<1>3. ASSUME NEW e \in CachedFor(h),
             historical' = Append(Without(historical, h), e),
             Return(c, IF SameBlockReference(e, expected) THEN Ok(e) ELSE Failure("mismatch")),
             UNCHANGED <<awaits, read, byHashPending>>
      PROVE  /\ OthersKept(c) /\ Answers(c) /\ byHashPending' = byHashPending
             /\ MapOf(historical') /\ Len(historical') <= MaxEntries
             /\ e \in Reference /\ e.genuine /\ e.block = h
             /\ outcome'[c] = IF e = expected THEN Ok(e) ELSE Failure("mismatch")
  <2>1. /\ e \in Reference /\ e.genuine /\ e.block = h
        /\ MapOf(historical') /\ Len(historical') <= MaxEntries
    BY <1>3, HitFacts DEF Types
  <2> QED
    BY <1>3, <2>1 DEF SameBlockReference
<1>4. ASSUME Joins(byHashPending[h]), Await(c, byHashPending[h])
      PROVE  OthersKept(c) /\ Waits(c, byHashPending[h]) /\ byHashPending[h] \in Lookups
  BY <1>4 DEF Joins
<1>5. ASSUME ~Joins(byHashPending[h]), Await(c, c), Ask(c),
             byHashPending' = [byHashPending EXCEPT ![h] = c]
      PROVE  /\ OthersKept(c) /\ Waits(c, c) /\ byHashPending[h] = None
             /\ byHashPending'[h] = c
             /\ \A o \in Blocks \ {h} : byHashPending'[o] = byHashPending[o]
             /\ byHashPending' \in [Blocks -> Lookups \cup {None}]
  BY <1>5 DEF Joins
<1> QED
  BY <1>2, <1>3, <1>4, <1>5 DEF h

LEMMA EvaluateFacts ==
  ASSUME Types, NEW c \in Lookups, Evaluate(c)
  PROVE  /\ UNCHANGED <<callVars, stateVars, head, now>>
         /\ read[c].status = "asked"
         /\ read'[c].status = "evaluated" /\ read'[c].at = now
         /\ read'[c].block \in Blocks /\ read'[c].block <= head
         /\ read'[c].block = IF args[c] = None THEN head ELSE args[c].block
         /\ \A d \in Lookups \ {c} : read'[d] = read[d]
         /\ ReadType'
<1> DEFINE b == IF args[c] = None THEN head ELSE args[c].block
           new == [status |-> "evaluated", block |-> b, at |-> now, result |-> read[c].result]
<1>0. /\ read[c] \in [status : Statuses, block : 0 .. MaxHeight, at : 0 .. MaxTime, result : Results]
      /\ args[c] \in Reference \cup {None} /\ head \in Blocks /\ now \in 0 .. MaxTime
  BY DEF Types, TypeOK, ReadType
<1>1. b \in Blocks /\ b <= head /\ b \in 0 .. MaxHeight
  <2>1. b \in Blocks
    BY <1>0 DEF Reference
  <2>2. head <= head
    BY <1>0, BoundsAssumption DEF Blocks
  <2> QED
    BY <2>1, <2>2, Distinct DEF Evaluate
<1>2. read'[c] = [read[c] EXCEPT !.status = "evaluated", !.block = b, !.at = now]
  BY DEF Evaluate, Types, ReadType
<1> HIDE DEF b
<1>3. /\ read'[c].status = "evaluated" /\ read'[c].block = b /\ read'[c].at = now
      /\ read'[c] \in [status : Statuses, block : 0 .. MaxHeight, at : 0 .. MaxTime, result : Results]
  BY <1>0, <1>1, <1>2 DEF Statuses
<1>4. \A d \in Lookups \ {c} : read'[d] = read[d]
  BY DEF Evaluate, Types, ReadType
<1>5. ReadType'
  BY <1>3, <1>4 DEF Evaluate, Types, ReadType, callVars
<1> QED
  BY <1>1, <1>3, <1>4, <1>5 DEF Evaluate, b

LEMMA CompleteFacts ==
  ASSUME Types, NEW c \in Lookups, NEW result \in Results, Complete(c, result), outcome' = outcome
  PROVE  /\ read'[c].status = "complete" /\ read'[c].result = result
         /\ read'[c].block = read[c].block /\ read'[c].at = read[c].at
         /\ \A d \in Lookups \ {c} : read'[d] = read[d]
         /\ ReadType'
<1>0. read[c] \in [status : Statuses, block : 0 .. MaxHeight, at : 0 .. MaxTime, result : Results]
  BY DEF Types, ReadType
<1>1. read'[c] = [read[c] EXCEPT !.status = "complete", !.result = result]
  BY DEF Complete, Types, ReadType
<1>2. /\ read'[c].status = "complete" /\ read'[c].result = result
      /\ read'[c].block = read[c].block /\ read'[c].at = read[c].at
      /\ read'[c] \in [status : Statuses, block : 0 .. MaxHeight, at : 0 .. MaxTime, result : Results]
  BY <1>0, <1>1 DEF Statuses
<1>3. \A d \in Lookups \ {c} : read'[d] = read[d]
  BY DEF Complete, Types, ReadType
<1>4. ReadType'
  BY <1>2, <1>3 DEF Complete, Types, ReadType
<1> QED
  BY <1>2, <1>3, <1>4

(* Only a call that resumes gives up the slots it holds.                   *)
LEMMA ResumeFacts ==
  ASSUME Types, NEW c \in Lookups, Resume(c)
  PROVE  /\ pc[c] = "waiting" /\ OthersKept(c) /\ read[awaits[c]].status = "complete"
         /\ Answers(c) /\ outcome'[c] = ResultOf(awaits[c])
         /\ UNCHANGED <<args, latest, historical, head, now>>
         /\ latestPending' = IF latestPending = c THEN None ELSE latestPending
         /\ \A h \in Blocks :
              byHashPending'[h] = IF byHashPending[h] = c THEN None ELSE byHashPending[h]
         /\ TypeOK' /\ ReadType'
<1>1. /\ pc[c] = "waiting" /\ OthersKept(c) /\ read[awaits[c]].status = "complete"
      /\ Answers(c) /\ outcome'[c] = ResultOf(awaits[c])
      /\ UNCHANGED <<args, latest, historical, head, now>>
      /\ latestPending' = IF latestPending = c THEN None ELSE latestPending
      /\ \A h \in Blocks :
           byHashPending'[h] = IF byHashPending[h] = c THEN None ELSE byHashPending[h]
  BY DEF Resume, Return, IsDelivered, Clears, OthersKept, Answers, Types, TypeOK, ReadType
<1>2. pc' \in [Lookups -> {"idle", "waiting", "done"}]
      /\ byHashPending' \in [Blocks -> Lookups \cup {None}]
  BY DEF Resume, Return, Clears, Types, TypeOK
<1>3. TypeOK'
  BY <1>1, <1>2 DEF Resume, Types, TypeOK
<1>4. ReadType'
  BY DEF Resume, Return, Types, ReadType
<1> QED
  BY <1>1, <1>3, <1>4

-----------------------------------------------------------------------------
(* A hit, a joined read and a read of one's own keep the invariant.        *)
LEMMA GetLatestStep ==
  ASSUME IInv, NEW c \in Lookups, GetLatest(c)
  PROVE  IInv'
<1> USE DEF IInv, Types
<1>0. /\ pc[c] = "idle" /\ OthersKept(c) /\ args' = args
      /\ UNCHANGED <<latest, byHashPending, historical, head, now>>
      /\ \/ Answers(c) /\ latestPending' = latestPending
         \/ /\ Waits(c, latestPending) /\ latestPending \in Lookups
            /\ UNCHANGED <<read, latestPending>>
         \/ Waits(c, c) /\ Ask(c) /\ latestPending = None /\ latestPending' = c
  BY GetLatestFacts
<1>1. /\ read'[c] = read[c] \/ (Waits(c, c) /\ read'[c].status = "asked")
      /\ \A d \in Lookups \ {c} : read'[d] = read[d]
      /\ ReadType'
  <2>1. outcome' = outcome \/ \E v : outcome' = [outcome EXCEPT ![c] = v]
    BY DEF GetLatest, Return, Await
  <2>2. DOMAIN outcome' = Lookups
    BY <2>1 DEF ReadType
  <2>3. CASE read' = read
    BY <2>2, <2>3 DEF ReadType
  <2>4. CASE Waits(c, c) /\ Ask(c)
    BY <2>2, <2>4, AskTypes DEF ReadType
  <2> QED
    BY <1>0, <2>3, <2>4 DEF Answers
<1>2. /\ args[c] = None /\ awaits[c] = None /\ read[c].status = "none"
  BY <1>0 DEF CallsInv, CallInv
<1>3. TypeOK'
  <2>1. /\ pc' \in [Lookups -> {"idle", "waiting", "done"}]
        /\ awaits' \in [Lookups -> Lookups \cup {None}]
    BY DEF GetLatest, Return, Await, TypeOK
  <2> QED
    BY <1>0, <2>1 DEF TypeOK
<1>4. CallsInv'
  <2>1. CallInv(c)'
    <3>1. CASE Answers(c)
      BY <1>2, <3>1 DEF Answers, CallInv
    <3>2. CASE Waits(c, latestPending) /\ latestPending \in Lookups /\ read' = read
      <4>1. read[latestPending].status # "none"
        BY <3>2, Distinct DEF SlotsInv, CallsInv, CallInv
      <4> QED
        BY <1>2, <3>2, <4>1, Distinct DEF Waits, CallInv
    <3>3. CASE Waits(c, c) /\ Ask(c) /\ latestPending' = c
      BY <1>0, <1>2, <3>3, AskTypes, Distinct DEF Waits, CallInv
    <3> QED
      BY <1>0, <3>1, <3>2, <3>3
  <2>2. ASSUME NEW d \in Lookups \ {c}
        PROVE  CallInv(d)'
    <3>1. CallInv(d)
      BY DEF CallsInv
    <3>2. pc'[d] = pc[d] /\ args'[d] = args[d] /\ awaits'[d] = awaits[d] /\ read'[d] = read[d]
      BY <1>0, <1>1 DEF OthersKept
    <3>3. awaits[d] # None => awaits[d] \in Lookups \ {c} /\ read'[awaits[d]] = read[awaits[d]]
      BY <1>1, <1>2, <3>1 DEF CallInv, TypeOK
    <3>4. latestPending = d => latestPending' = d
      BY <1>0, Distinct
    <3> QED
      BY <1>0, <3>1, <3>2, <3>3, <3>4 DEF CallInv
  <2> QED
    BY <2>1, <2>2 DEF CallsInv
<1>5. SlotsInv'
  BY <1>0, <1>1, <1>2, Distinct DEF SlotsInv, OthersKept, Answers, Waits
<1>6. ReadsInv'
  BY <1>0, <1>1, <1>2 DEF ReadsInv, Answered
<1>7. LatestInv'
  BY <1>0, <1>1, <1>2 DEF LatestInv, Answered
<1>8. HistoricalSound'
  BY <1>0 DEF HistoricalSound
<1>9. OwnAnswersAreRight'
  BY <1>0, <1>2 DEF OwnAnswersAreRight, OthersKept, Waits
<1> QED
  BY <1>1, <1>3, <1>4, <1>5, <1>6, <1>7, <1>8, <1>9

LEMMA GetByHashStep ==
  ASSUME IInv, NEW c \in Lookups, NEW expected \in Reference, GetByHash(c, expected)
  PROVE  IInv'
<1> USE DEF IInv, Types
<1> DEFINE h == expected.block
<1>0. /\ pc[c] = "idle" /\ OthersKept(c) /\ args'[c] = expected
      /\ args' \in [Lookups -> Reference \cup {None}] /\ h \in Blocks
      /\ UNCHANGED <<latest, latestPending, head, now>>
      /\ \/ /\ Answers(c) /\ byHashPending' = byHashPending
            /\ MapOf(historical') /\ Len(historical') <= MaxEntries
            /\ \E e \in Reference :
                 /\ e.genuine /\ e.block = h
                 /\ outcome'[c] = IF e = expected THEN Ok(e) ELSE Failure("mismatch")
         \/ /\ Waits(c, byHashPending[h]) /\ byHashPending[h] \in Lookups
            /\ UNCHANGED <<read, byHashPending, historical>>
         \/ /\ Waits(c, c) /\ Ask(c) /\ byHashPending[h] = None
            /\ byHashPending'[h] = c
            /\ \A o \in Blocks \ {h} : byHashPending'[o] = byHashPending[o]
            /\ byHashPending' \in [Blocks -> Lookups \cup {None}]
            /\ historical' = historical
  BY GetByHashFacts
<1> HIDE DEF h
<1>1. /\ read'[c] = read[c] \/ (Waits(c, c) /\ read'[c].status = "asked")
      /\ \A d \in Lookups \ {c} : read'[d] = read[d]
      /\ ReadType'
  <2>1. outcome' = outcome \/ \E v : outcome' = [outcome EXCEPT ![c] = v]
    BY DEF GetByHash, Return, Await
  <2>2. DOMAIN outcome' = Lookups
    BY <2>1 DEF ReadType
  <2>3. CASE read' = read
    BY <2>2, <2>3 DEF ReadType
  <2>4. CASE Waits(c, c) /\ Ask(c)
    BY <2>2, <2>4, AskTypes DEF ReadType
  <2> QED
    BY <1>0, <2>3, <2>4 DEF Answers
<1>2. /\ args[c] = None /\ awaits[c] = None /\ read[c].status = "none"
      /\ expected # None /\ args'[c].block = h
  BY <1>0, Distinct DEF CallsInv, CallInv, h
<1>3. TypeOK' /\ HistoricalSound'
  <2>1. /\ pc' \in [Lookups -> {"idle", "waiting", "done"}]
        /\ awaits' \in [Lookups -> Lookups \cup {None}]
    <3>1. PICK where \in {"waiting", "done"} : pc' = [pc EXCEPT ![c] = where]
      BY DEF GetByHash, Return, Await
    <3>2. awaits' = awaits \/ \E r : awaits' = [awaits EXCEPT ![c] = r]
      BY DEF GetByHash, Await
    <3>3. awaits'[c] \in Lookups \cup {None}
      BY <1>0 DEF Answers, Waits, TypeOK
    <3> QED
      BY <3>1, <3>2, <3>3 DEF TypeOK
  <2>2. byHashPending' \in [Blocks -> Lookups \cup {None}]
    BY <1>0 DEF TypeOK
  <2>3. historical' \in Seq(Reference) /\ HistoricalSound'
    <3>1. CASE historical' = historical
      BY <3>1 DEF TypeOK, HistoricalSound
    <3>2. CASE MapOf(historical') /\ Len(historical') <= MaxEntries
      BY <3>2, MapIsHistorical
    <3> QED
      BY <1>0, <3>1, <3>2
  <2> QED
    BY <1>0, <2>1, <2>2, <2>3 DEF TypeOK
<1>4. CallsInv'
  <2>1. CallInv(c)'
    <3>1. CASE Answers(c)
      BY <1>2, <3>1 DEF Answers, CallInv
    <3>2. CASE Waits(c, byHashPending[h]) /\ byHashPending[h] \in Lookups /\ read' = read
      <4>1. read[byHashPending[h]].status # "none"
        BY <1>0, <3>2, Distinct DEF SlotsInv, CallsInv, CallInv
      <4> QED
        BY <1>2, <3>2, <4>1, Distinct DEF Waits, CallInv
    <3>3. CASE Waits(c, c) /\ Ask(c) /\ byHashPending'[h] = c
      BY <1>0, <1>2, <3>3, AskTypes, Distinct DEF Waits, CallInv
    <3> QED
      BY <1>0, <3>1, <3>2, <3>3
  <2>2. ASSUME NEW d \in Lookups \ {c}
        PROVE  CallInv(d)'
    <3>1. CallInv(d)
      BY DEF CallsInv
    <3>2. pc'[d] = pc[d] /\ args'[d] = args[d] /\ awaits'[d] = awaits[d] /\ read'[d] = read[d]
      BY <1>0, <1>1 DEF OthersKept
    <3>3. awaits[d] # None => awaits[d] \in Lookups \ {c} /\ read'[awaits[d]] = read[awaits[d]]
      BY <1>1, <1>2, <3>1 DEF CallInv, TypeOK
    <3>4. \A o \in Blocks : byHashPending[o] = d => byHashPending'[o] = d
      BY <1>0, Distinct
    <3>5. args[d] # None => args[d].block \in Blocks
      BY DEF TypeOK, Reference
    <3> QED
      BY <1>0, <3>1, <3>2, <3>3, <3>4, <3>5 DEF CallInv
  <2> QED
    BY <2>1, <2>2 DEF CallsInv
<1>5. SlotsInv'
  <2>1. \A o \in Blocks :
          byHashPending'[o] = byHashPending[o] \/ (Waits(c, c) /\ o = h /\ byHashPending'[o] = c)
    BY <1>0
  <2>2. latestPending # c /\ \A o \in Blocks : byHashPending[o] # c
    BY <1>0 DEF SlotsInv
  <2> QED
    BY <1>0, <1>1, <1>2, <2>1, <2>2 DEF SlotsInv, OthersKept, Waits
<1>6. ReadsInv'
  BY <1>0, <1>1, <1>2 DEF ReadsInv, Answered, OthersKept
<1>7. LatestInv'
  BY <1>0, <1>1, <1>2 DEF LatestInv, Answered, OthersKept
<1>8. OwnAnswersAreRight'
  <2>1. ASSUME NEW e \in Reference, e.genuine, e.block = h,
               outcome'[c] = IF e = expected THEN Ok(e) ELSE Failure("mismatch")
        PROVE  (Resolution(outcome'[c]) = "ok") <=> expected.genuine
    <3>1. e = expected <=> expected.genuine
      BY <2>1 DEF Reference, h
    <3>2. Resolution(Ok(e)) = "ok" /\ Resolution(Failure("mismatch")) # "ok"
      BY DEF Resolution, Ok, Failure
    <3> QED
      BY <2>1, <3>1, <3>2
  <2>2. Waits(c, byHashPending[h]) /\ byHashPending[h] \in Lookups => byHashPending[h] # c
    BY <1>0 DEF SlotsInv
  <2>3. pc'[c] = "done" /\ args'[c] # None /\ awaits'[c] \in {None, c} =>
          (Resolution(outcome'[c]) = "ok") <=> args'[c].genuine
    BY <1>0, <2>1 DEF Waits
  <2>4. ASSUME NEW d \in Lookups \ {c}, pc'[d] = "done", args'[d] # None, awaits'[d] \in {None, d}
        PROVE  \/ Resolution(outcome'[d]) = "reference-provider-error"
               \/ (Resolution(outcome'[d]) = "ok") <=> args'[d].genuine
    BY <1>0, <2>4 DEF OwnAnswersAreRight, OthersKept
  <2> QED
    BY <2>3, <2>4 DEF OwnAnswersAreRight
<1> QED
  BY <1>1, <1>3, <1>4, <1>5, <1>6, <1>7, <1>8

-----------------------------------------------------------------------------
(* The provider answers.                                                   *)
LEMMA EvaluateStep ==
  ASSUME IInv, NEW c \in Lookups, Evaluate(c)
  PROVE  IInv'
<1> USE DEF IInv, Types
<1>0. /\ UNCHANGED <<callVars, stateVars, head, now>>
      /\ read[c].status = "asked"
      /\ read'[c].status = "evaluated" /\ read'[c].at = now
      /\ read'[c].block \in Blocks /\ read'[c].block <= head
      /\ read'[c].block = IF args[c] = None THEN head ELSE args[c].block
      /\ \A d \in Lookups \ {c} : read'[d] = read[d]
      /\ ReadType'
  BY EvaluateFacts
<1> USE DEF callVars, stateVars
<1>1. TypeOK' /\ HistoricalSound'
  BY <1>0 DEF TypeOK, HistoricalSound
<1>2. CallsInv'
  <2>1. \A x \in Lookups :
          /\ read'[x].status # "none" <=> read[x].status # "none"
          /\ read'[x].status \in {"asked", "evaluated"} => read[x].status \in {"asked", "evaluated"}
    BY <1>0
  <2>2. \A x \in Lookups : awaits[x] # None => awaits[x] \in Lookups
    BY DEF TypeOK
  <2> QED
    BY <1>0, <2>1, <2>2 DEF CallsInv, CallInv
<1>3. SlotsInv'
  BY <1>0 DEF SlotsInv
<1>4. ReadsInv'
  <2>1. now <= now /\ now <= now + MaxLatency
    BY BoundsAssumption DEF TypeOK
  <2> QED
    BY <1>0, <2>1 DEF ReadsInv, Answered
<1>5. LatestInv'
  BY <1>0 DEF LatestInv, Answered
<1>6. OwnAnswersAreRight'
  BY <1>0 DEF OwnAnswersAreRight
<1> QED
  BY <1>0, <1>1, <1>2, <1>3, <1>4, <1>5, <1>6

(* A read that ends.                                                       *)
Ends(c, result) ==
  /\ UNCHANGED <<callVars, latestPending, byHashPending, head, now>>
  /\ read[c].status \in {"asked", "evaluated"}
  /\ read'[c].status = "complete" /\ read'[c].result = result
  /\ read'[c].block = read[c].block /\ read'[c].at = read[c].at
  /\ \A d \in Lookups \ {c} : read'[d] = read[d]
  /\ ReadType'

LEMMA EndsKeeps ==
  ASSUME IInv, NEW c \in Lookups, NEW result \in Results, Ends(c, result),
         result = "ok" => read[c].status = "evaluated",
         \/ result = "provider-error"
         \/ result = "ok" /\ (args[c] # None => args[c].genuine)
         \/ result = "mismatch" /\ args[c] # None /\ ~args[c].genuine
  PROVE  CallsInv' /\ SlotsInv' /\ ReadsInv' /\ OwnAnswersAreRight' /\ ReadType'
<1> USE DEF IInv, Ends, callVars
<1>1. CallsInv'
  <2>1. \A x \in Lookups :
          /\ read'[x].status # "none" <=> read[x].status # "none"
          /\ read'[x].status \in {"asked", "evaluated"} => read[x].status \in {"asked", "evaluated"}
    OBVIOUS
  <2>2. \A x \in Lookups : awaits[x] # None => awaits[x] \in Lookups
    BY DEF TypeOK
  <2> QED
    BY <2>1, <2>2 DEF CallsInv, CallInv
<1>2. SlotsInv'
  BY DEF SlotsInv
<1>3. ReadsInv'
  BY DEF ReadsInv, Answered
<1>4. OwnAnswersAreRight'
  BY DEF OwnAnswersAreRight
<1> QED
  BY <1>1, <1>2, <1>3, <1>4

LEMMA LatestAnsweredStep ==
  ASSUME IInv, NEW c \in Lookups, LatestAnswered(c)
  PROVE  IInv'
<1> USE DEF IInv, Types
<1>0. /\ read[c].status = "evaluated" /\ args[c] = None
      /\ latest' = [block |-> read[c].block, cachedAt |-> now]
      /\ historical' = InsertHistorical(historical, Genuine(read[c].block))
      /\ UNCHANGED <<callVars, latestPending, byHashPending, head, now>>
      /\ Ends(c, "ok")
  BY CompleteFacts DEF LatestAnswered, Results, Ends, callVars
<1>1. /\ read[c].block \in Blocks /\ read[c].block <= head /\ now <= read[c].at + MaxLatency
  BY <1>0 DEF ReadsInv
<1>2. CallsInv' /\ SlotsInv' /\ ReadsInv' /\ OwnAnswersAreRight' /\ ReadType'
  BY <1>0, EndsKeeps DEF Results
<1>3. TypeOK' /\ HistoricalSound'
  <2>1. MapOf(historical') /\ Len(historical') <= MaxEntries
    BY <1>0, <1>1, HistoricalIsMap, InsertProperties
  <2>2. historical' \in Seq(Reference) /\ HistoricalSound'
    BY <2>1, MapIsHistorical
  <2>3. latest' \in [block : Blocks, cachedAt : 0 .. MaxTime]
    BY <1>0, <1>1 DEF TypeOK
  <2> QED
    BY <1>0, <2>2, <2>3 DEF TypeOK, callVars
<1>4. LatestInv'
  <2>1. latest'.block = read[c].block /\ latest'.cachedAt = now
    BY <1>0
  <2>2. Answered(c)' /\ read'[c].block = read[c].block /\ read'[c].at = read[c].at
    BY <1>0 DEF Ends, Answered
  <2>3. ASSUME NEW d \in Lookups, read'[d].status = "evaluated", args'[d] = None
        PROVE  FALSE
    <3>1. d # c /\ read[d].status = "evaluated" /\ args[d] = None
      BY <1>0, <2>3 DEF Ends, callVars
    <3> QED
      BY <1>0, <3>1 DEF CallsInv, CallInv
  <2> QED
    BY <1>0, <1>1, <2>1, <2>2, <2>3 DEF LatestInv
<1> QED
  BY <1>2, <1>3, <1>4

(* The other reads that end leave the latest block alone.                  *)
LEMMA EndsKeepsLatest ==
  ASSUME IInv, NEW c \in Lookups, NEW result \in Results, Ends(c, result), latest' = latest
  PROVE  LatestInv'
<1>1. \A r \in Lookups : Answered(r) => Answered(r)' /\ read'[r] = read[r]
  BY DEF Ends, Answered
<1> QED
  BY <1>1 DEF IInv, LatestInv, Ends, callVars

LEMMA ByHashAnsweredStep ==
  ASSUME IInv, NEW c \in Lookups, ByHashAnswered(c)
  PROVE  IInv'
<1> USE DEF IInv, Types
<1> DEFINE agrees == SameBlockReference(Genuine(read[c].block), args[c])
           result == IF agrees THEN "ok" ELSE "mismatch"
<1>0. /\ read[c].status = "evaluated" /\ args[c] # None
      /\ UNCHANGED <<callVars, latest, latestPending, byHashPending, head, now>>
      /\ historical' = HistoricalAfterByHash(c)
      /\ Complete(c, result)
  BY DEF ByHashAnswered
<1>1. read[c].block \in Blocks /\ read[c].block = args[c].block /\ args[c] \in Reference
  BY <1>0 DEF ReadsInv, TypeOK
<1>2. agrees <=> args[c].genuine
  <2>1. /\ Genuine(read[c].block) \in Reference /\ Genuine(read[c].block).genuine
        /\ Genuine(read[c].block).block = read[c].block
    BY <1>1 DEF Genuine, Reference
  <2> QED
    BY <1>1, <2>1 DEF SameBlockReference, Reference
<1> HIDE DEF agrees
<1>3. result \in Results /\ Ends(c, result)
  BY <1>0, CompleteFacts DEF Results, Ends, callVars
<1>4. CallsInv' /\ SlotsInv' /\ ReadsInv' /\ OwnAnswersAreRight' /\ ReadType'
  BY <1>0, <1>2, <1>3, EndsKeeps
<1>5. LatestInv'
  BY <1>0, <1>3, EndsKeepsLatest
<1>6. TypeOK' /\ HistoricalSound'
  <2>1. MapOf(historical') /\ Len(historical') <= MaxEntries
    <3>1. MapOf(historical) /\ Len(historical) <= MaxEntries
      BY HistoricalIsMap
    <3>2. \/ historical' = historical
          \/ historical' = InsertHistorical(historical, Genuine(read[c].block))
      BY <1>0 DEF HistoricalAfterByHash
    <3> QED
      BY <1>1, <3>1, <3>2, InsertProperties
  <2>2. historical' \in Seq(Reference) /\ HistoricalSound'
    BY <2>1, MapIsHistorical
  <2> QED
    BY <1>0, <2>2 DEF TypeOK, callVars
<1> QED
  BY <1>4, <1>5, <1>6

LEMMA ReadFailsStep ==
  ASSUME IInv, NEW c \in Lookups, ReadFails(c)
  PROVE  IInv'
<1> USE DEF IInv, Types
<1>0. UNCHANGED <<callVars, stateVars, head, now>> /\ Ends(c, "provider-error")
  BY CompleteFacts DEF ReadFails, Results, Ends, callVars, stateVars
<1>1. CallsInv' /\ SlotsInv' /\ ReadsInv' /\ OwnAnswersAreRight' /\ ReadType'
  BY <1>0, EndsKeeps DEF Results
<1>2. LatestInv'
  BY <1>0, EndsKeepsLatest DEF Results, stateVars
<1>3. TypeOK' /\ HistoricalSound'
  BY <1>0 DEF TypeOK, HistoricalSound, callVars, stateVars
<1> QED
  BY <1>1, <1>2, <1>3

-----------------------------------------------------------------------------
(* A call resumes, the chain grows, time passes.                           *)
LEMMA ResumeStep ==
  ASSUME IInv, NEW c \in Lookups, Resume(c)
  PROVE  IInv'
<1> USE DEF IInv, Types
<1>0. /\ pc[c] = "waiting" /\ OthersKept(c) /\ read[awaits[c]].status = "complete"
      /\ Answers(c) /\ outcome'[c] = ResultOf(awaits[c])
      /\ UNCHANGED <<args, latest, historical, head, now>>
      /\ latestPending' = IF latestPending = c THEN None ELSE latestPending
      /\ \A h \in Blocks :
           byHashPending'[h] = IF byHashPending[h] = c THEN None ELSE byHashPending[h]
      /\ TypeOK' /\ ReadType'
  BY ResumeFacts
<1> USE DEF Answers
<1>1. awaits' = awaits /\ read' = read
  BY <1>0 DEF Resume
<1>2. read[c].status \notin {"asked", "evaluated"}
  BY <1>0 DEF CallsInv, CallInv
<1>3. CallsInv'
  <2>1. CallInv(c)'
    BY <1>0, <1>1, <1>2 DEF CallsInv, CallInv
  <2>2. ASSUME NEW d \in Lookups \ {c}
        PROVE  CallInv(d)'
    <3>1. args[d] # None => args[d].block \in Blocks
      BY DEF TypeOK, Reference
    <3> QED
      BY <1>0, <1>1, <3>1 DEF CallsInv, CallInv, OthersKept
  <2> QED
    BY <2>1, <2>2 DEF CallsInv
<1>4. SlotsInv'
  BY <1>0, <1>1, Distinct DEF SlotsInv, OthersKept
<1>5. ReadsInv' /\ LatestInv' /\ HistoricalSound'
  BY <1>0, <1>1 DEF ReadsInv, LatestInv, Answered, HistoricalSound
<1>6. OwnAnswersAreRight'
  <2>1. ASSUME args[c] # None, awaits[c] \in {None, c}
        PROVE  \/ Resolution(outcome'[c]) = "reference-provider-error"
               \/ (Resolution(outcome'[c]) = "ok") <=> args[c].genuine
    <3>1. awaits[c] = c
      BY <1>0, <2>1 DEF CallsInv, CallInv
    <3>2. \/ read[c].result = "provider-error"
          \/ read[c].result = "ok" /\ args[c].genuine
          \/ read[c].result = "mismatch" /\ ~args[c].genuine
      BY <1>0, <2>1, <3>1 DEF ReadsInv
    <3> QED
      BY <1>0, <3>1, <3>2 DEF ResultOf, Ok, Failure, Resolution
  <2> QED
    BY <1>0, <1>1, <2>1 DEF OwnAnswersAreRight, OthersKept
<1> QED
  BY <1>0, <1>3, <1>4, <1>5, <1>6

LEMMA NewBlockStep ==
  ASSUME IInv, NewBlock
  PROVE  IInv'
<1> USE DEF IInv, callVars, stateVars
<1>0. /\ head' = head + 1 /\ head' \in Blocks /\ head \in Blocks
      /\ UNCHANGED <<callVars, read, stateVars, now>>
  BY BoundsAssumption DEF NewBlock, TypeOK, Blocks
<1>1. \A b \in Blocks : b <= head => b <= head'
  BY <1>0, Distinct
<1>2. TypeOK' /\ ReadType' /\ HistoricalSound'
  BY <1>0 DEF TypeOK, ReadType, HistoricalSound
<1>3. CallsInv' /\ SlotsInv' /\ OwnAnswersAreRight'
  BY <1>0 DEF CallsInv, CallInv, SlotsInv, OwnAnswersAreRight
<1>4. ReadsInv'
  BY <1>0, <1>1 DEF ReadsInv, Answered
<1>5. LatestInv'
  BY <1>0, <1>1 DEF LatestInv, Answered, TypeOK
<1> QED
  BY <1>2, <1>3, <1>4, <1>5

LEMMA TickStep ==
  ASSUME IInv, Tick
  PROVE  IInv'
<1> USE DEF IInv, callVars, stateVars
<1>0. /\ now' = now + 1 /\ now' \in 0 .. MaxTime /\ now \in 0 .. MaxTime
      /\ UNCHANGED <<callVars, read, stateVars, head>>
  BY BoundsAssumption DEF Tick, TypeOK
<1>1. ASSUME NEW c \in Lookups, read[c].status = "evaluated"
      PROVE  read[c].at <= now' /\ now' <= read[c].at + MaxLatency
  <2>1. now - read[c].at < MaxLatency /\ read[c].at \in 0 .. MaxTime /\ read[c].at <= now
    BY <1>1 DEF Tick, ReadType, ReadsInv
  <2> QED
    BY <1>0, <2>1, BoundsAssumption
<1>2. TypeOK' /\ ReadType' /\ HistoricalSound'
  BY <1>0 DEF TypeOK, ReadType, HistoricalSound
<1>3. CallsInv' /\ SlotsInv' /\ OwnAnswersAreRight'
  BY <1>0 DEF CallsInv, CallInv, SlotsInv, OwnAnswersAreRight
<1>4. ReadsInv'
  BY <1>0, <1>1 DEF ReadsInv, Answered
<1>5. LatestInv'
  BY <1>0 DEF LatestInv, Answered
<1> QED
  BY <1>2, <1>3, <1>4, <1>5

LEMMA InvInit == Init => IInv
<1> SUFFICES ASSUME Init
             PROVE  IInv
  OBVIOUS
<1>1. /\ latest = None /\ latestPending = None /\ historical = <<>> /\ head = 1 /\ now = 0
      /\ \A c \in Lookups : /\ pc[c] = "idle" /\ args[c] = None /\ awaits[c] = None
                            /\ read[c].status = "none"
      /\ \A h \in Blocks : byHashPending[h] = None
  BY DEF Init, NoRead
<1>2. TypeOK
  BY Distinct DEF Init, TypeOK
<1>3. ReadType
  <2>1. NoRead \in [status : Statuses, block : 0 .. MaxHeight, at : 0 .. MaxTime, result : Results]
    BY Distinct DEF NoRead, Statuses, Results
  <2> QED
    BY <2>1 DEF Init, ReadType
<1>4. CallsInv /\ SlotsInv
  BY <1>1, Distinct DEF CallsInv, CallInv, SlotsInv
<1>5. ReadsInv /\ LatestInv
  BY <1>1 DEF ReadsInv, LatestInv, Answered
<1>6. HistoricalSound /\ OwnAnswersAreRight
  BY <1>1, MaxEntriesAssumption DEF HistoricalSound, OwnAnswersAreRight
<1> QED
  BY <1>2, <1>3, <1>4, <1>5, <1>6 DEF IInv

LEMMA InvStep == IInv /\ [Next]_vars => IInv'
<1> SUFFICES ASSUME IInv, [Next]_vars
             PROVE  IInv'
  OBVIOUS
<1>1. CASE UNCHANGED vars
  BY <1>1 DEF vars, callVars, stateVars, IInv, TypeOK, ReadType, CallsInv, CallInv, SlotsInv,
     ReadsInv, LatestInv, Answered, HistoricalSound, OwnAnswersAreRight
<1>2. ASSUME NEW c \in Lookups, Answer(c)
      PROVE  IInv'
  BY <1>2, EvaluateStep, LatestAnsweredStep, ByHashAnsweredStep, ReadFailsStep DEF Answer
<1> QED
  BY <1>1, <1>2, GetLatestStep, GetByHashStep, ResumeStep, NewBlockStep, TickStep DEF Next

-----------------------------------------------------------------------------
(* The caches hold references and times, the slots the calls that read.    *)
THEOREM TypeCorrect == Spec => []TypeOK
<1>1. IInv => TypeOK
  BY DEF IInv
<1> QED
  BY InvInit, InvStep, <1>1, PTL DEF Spec

(* The historical map keeps its limit and holds confirmed headers only,    *)
(* one per hash, in whatever order lookups, answers and failures come      *)
(* (cache.ts, insertHistorical).                                           *)
THEOREM KeepsHistoricalSound == Spec => []HistoricalSound
<1>1. IInv => HistoricalSound
  BY DEF IInv
<1> QED
  BY InvInit, InvStep, <1>1, PTL DEF Spec

(* No pending read outlives the call that started it, failed or not        *)
(* (cache.ts, the finally blocks).                                         *)
THEOREM ReleasesPending == Spec => []PendingIsLive
<1>1. IInv => PendingIsLive
  BY DEF IInv, SlotsInv, PendingIsLive
<1> QED
  BY InvInit, InvStep, <1>1, PTL DEF Spec

(* A lookup that hits the map or reads for itself takes a reference for    *)
(* genuine exactly when it is.                                             *)
THEOREM AnswersOwnRight == Spec => []OwnAnswersAreRight
<1>1. IInv => OwnAnswersAreRight
  BY DEF IInv
<1> QED
  BY InvInit, InvStep, <1>1, PTL DEF Spec

(* One read of "latest" at a time, so that the cached block never moves    *)
(* backwards (cache.ts, latestPending).                                    *)
THEOREM LatestAdvances == Spec => LatestNeverGoesBack
<1> DEFINE Forward == latest # None => latest' # None /\ latest'.block >= latest.block
<1>1. IInv /\ [Next]_vars => [Forward]_latest
  <2> SUFFICES ASSUME IInv, [Next]_vars, latest' # latest
               PROVE  Forward
    OBVIOUS
  <2>1. PICK c \in Lookups : LatestAnswered(c)
    BY DEF Next, GetLatest, GetByHash, Answer, Evaluate, ByHashAnswered, ReadFails, Resume,
       NewBlock, Tick, stateVars, vars
  <2>2. /\ latest' = [block |-> read[c].block, cachedAt |-> now] /\ read[c].block \in Blocks
        /\ latest # None => latest.block <= read[c].block /\ latest.block \in Blocks
    BY <2>1 DEF LatestAnswered, IInv, LatestInv, ReadsInv, TypeOK
  <2>3. latest' # None /\ latest'.block = read[c].block
    <3>1. latest' \in [block : Blocks, cachedAt : 0 .. MaxTime]
      BY <2>2 DEF IInv, TypeOK
    <3> QED
      BY <2>2, <3>1, Distinct
  <2> QED
    BY <2>2, <2>3, Distinct
<1> QED
  BY InvInit, InvStep, <1>1, PTL DEF Spec, LatestNeverGoesBack

(* A latest block is served from the cache only if a read evaluated it     *)
(* less than the TTL and the latency of one read ago (cache.ts, getLatest; *)
(* the challenge of window mode is built on it).                           *)
THEOREM ServesRecentLatest == Spec => ServedLatestIsRecent
<1> DEFINE Recent ==
      \A c \in Lookups :
        (pc[c] = "idle" /\ pc'[c] = "done" /\ args'[c] = None) =>
          \E r \in Lookups :
            /\ read[r].block = outcome'[c].reference.block
            /\ now - read[r].at < Ttl + MaxLatency
<1>1. IInv /\ [Next]_vars => [Recent]_vars
  <2> SUFFICES ASSUME IInv, Next, NEW c \in Lookups,
                      pc[c] = "idle", pc'[c] = "done", args'[c] = None
               PROVE  \E r \in Lookups :
                        /\ read[r].block = outcome'[c].reference.block
                        /\ now - read[r].at < Ttl + MaxLatency
    OBVIOUS
  <2> USE DEF IInv
  <2>1. GetLatest(c)
    <3>1. ASSUME NEW d \in Lookups, NEW expected \in Reference, GetByHash(d, expected)
          PROVE  FALSE
      BY <3>1, GetByHashFacts, Distinct DEF Types, OthersKept
    <3>2. ASSUME NEW d \in Lookups, d # c, GetLatest(d)
          PROVE  FALSE
      BY <3>2, GetLatestFacts DEF Types, OthersKept
    <3>3. ASSUME NEW d \in Lookups, Resume(d)
          PROVE  FALSE
      BY <3>3, ResumeFacts DEF Types, OthersKept
    <3>4. ASSUME (\E d \in Lookups : Answer(d)) \/ NewBlock \/ Tick
          PROVE  FALSE
      BY <3>4 DEF Answer, Evaluate, LatestAnswered, ByHashAnswered, ReadFails, NewBlock, Tick, callVars
    <3> QED
      BY <3>1, <3>2, <3>3, <3>4 DEF Next
  <2>2. /\ latest # None /\ now - latest.cachedAt < Ttl
        /\ outcome'[c] = Ok(Genuine(latest.block))
    BY <2>1, GetLatestFacts DEF Types, Waits
  <2>3. outcome'[c].reference.block = latest.block
    BY <2>2 DEF Ok, Genuine
  <2>4. PICK r \in Lookups :
          read[r].block = latest.block /\ latest.cachedAt <= read[r].at + MaxLatency
    BY <2>2 DEF LatestInv
  <2>5. /\ now \in Nat /\ latest.cachedAt \in Nat /\ read[r].at \in Nat
        /\ Ttl \in Nat /\ MaxLatency \in Nat
    BY <2>2, BoundsAssumption, TtlAssumption DEF TypeOK, ReadType
  <2>6. now - read[r].at < Ttl + MaxLatency
    BY <2>2, <2>4, <2>5
  <2> QED
    BY <2>3, <2>4, <2>6
<1> QED
  BY InvInit, InvStep, <1>1, PTL DEF Spec, ServedLatestIsRecent
===============================================================================
