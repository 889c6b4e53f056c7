------------------------- MODULE BlockReferenceCache -------------------------
(***************************************************************************)
(* The settlement-reference cache of one server process and one provider   *)
(* (src/src/server/cache.ts, a ProviderState), its reads of the provider   *)
(* (block-reference.ts) and what the authorizer makes of a lookup          *)
(* (settlement-reference.ts).                                              *)
(*                                                                         *)
(* Blocks are numbered; a block's number stands for its hash, which fixes  *)
(* its header.  A reference a client supplies names a hash and is genuine  *)
(* or altered: it agrees with the header or not.  Between a provider's     *)
(* answer and the return of the call that asked, other continuations run.  *)
(***************************************************************************)
EXTENDS Naturals, Sequences, SequencesExt

CONSTANTS
  Lookups,     \* calls of getLatest and getByHash
  MaxEntries,  \* maxEntries
  Ttl,         \* ttlMs, in ticks
  None,        \* undefined
  MaxHeight,   \* bound on the chain
  MaxTime,     \* bound on the clock
  MaxLatency   \* ticks within which the provider answers or fails

ASSUME MaxEntriesAssumption == MaxEntries \in Nat \ {0}
ASSUME TtlAssumption == Ttl \in Nat
ASSUME NoneAssumption ==
  None \notin Lookups \cup [block : Nat, genuine : BOOLEAN] \cup [block : Nat, cachedAt : Nat]
ASSUME BoundsAssumption == MaxHeight \in Nat \ {0} /\ MaxTime \in Nat /\ MaxLatency \in Nat

VARIABLES
  pc,             \* "idle", "waiting" for a read, "done"
  args,           \* args[c]: None for getLatest, else the expected reference
  awaits,         \* awaits[c]: the call whose read c waits for
  outcome,        \* what the call returned
  read,           \* read[c]: the provider read c started
  latest,         \* latest: [block, cachedAt], or None
  latestPending,  \* the call whose read is latestPending, or None
  byHashPending,  \* byHashPending[h]: likewise
  historical,     \* keys of `historical` in insertion order; see HistoricalSound
  head,           \* the provider's latest block
  now             \* Date.now()

callVars == <<pc, args, awaits, outcome>>
stateVars == <<latest, latestPending, byHashPending, historical>>
vars == <<callVars, read, stateVars, head, now>>

Blocks == 1 .. MaxHeight
Reference == [block : Blocks, genuine : BOOLEAN]
Genuine(b) == [block |-> b, genuine |-> TRUE]
NoRead == [status |-> "none", block |-> 0, at |-> 0, result |-> "none"]

Ok(ref) == [reason |-> "ok", reference |-> ref]
Failure(reason) == [reason |-> reason, reference |-> None]

Init ==
  /\ pc = [c \in Lookups |-> "idle"]
  /\ args = [c \in Lookups |-> None]
  /\ awaits = [c \in Lookups |-> None]
  /\ outcome = [c \in Lookups |-> None]
  /\ read = [c \in Lookups |-> NoRead]
  /\ latest = None
  /\ latestPending = None
  /\ byHashPending = [h \in Blocks |-> None]
  /\ historical = <<>>
  /\ head = 1
  /\ now = 0

-----------------------------------------------------------------------------
(* insertHistorical: delete and set, then drop the oldest keys.  A key     *)
(* occurs once at most.                                                    *)
Without(entries, h) ==
  IF \E i \in DOMAIN entries : entries[i].block = h
    THEN RemoveAt(entries, CHOOSE i \in DOMAIN entries : entries[i].block = h)
    ELSE entries

InsertWithoutEviction(entries, ref) == Append(Without(entries, ref.block), ref)
InsertStamped(entries, ref) ==
  Append(entries, [block |-> ref.block, cachedAt |-> now])
InsertHistorical(entries, ref) ==
  LET moved == InsertWithoutEviction(entries, ref)
      excess == IF Len(moved) > MaxEntries THEN Len(moved) - MaxEntries ELSE 0
  IN  SubSeq(moved, excess + 1, Len(moved))

CachedFor(h) == {e \in ToSet(historical) : e.block = h}

Return(c, result) ==
  /\ pc' = [pc EXCEPT ![c] = "done"]
  /\ outcome' = [outcome EXCEPT ![c] = result]

Await(c, r) ==
  /\ pc' = [pc EXCEPT ![c] = "waiting"]
  /\ awaits' = [awaits EXCEPT ![c] = r]
  /\ UNCHANGED outcome

Ask(c) ==
  read' = [read EXCEPT ![c] = [status |-> "asked", block |-> 0, at |-> now, result |-> "none"]]

HitsWithinOrAtTtl == latest # None /\ now - latest.cachedAt <= Ttl
LatestHits == latest # None /\ now - latest.cachedAt < Ttl

NeverJoins(pending) == FALSE
Joins(pending) == pending # None

(* getLatest: a hit, a joined read, or a read of its own.                  *)
GetLatest(c) ==
  /\ pc[c] = "idle"
  /\ \/ /\ LatestHits
        /\ Return(c, Ok(Genuine(latest.block)))
        /\ UNCHANGED <<awaits, read, latestPending>>
     \/ /\ ~LatestHits
        /\ Joins(latestPending)
        /\ Await(c, latestPending)
        /\ UNCHANGED <<read, latestPending>>
     \/ /\ ~LatestHits
        /\ ~Joins(latestPending)
        /\ Await(c, c)
        /\ Ask(c)
        /\ latestPending' = c
  /\ UNCHANGED <<args, latest, byHashPending, historical, head, now>>

(* sameBlockReference on equal hashes.                                     *)
SameHash(left, right) == left.block = right.block
SameBlockReference(left, right) == left = right

(* getByHash: a hit moves the key to the end of the map whether or not the *)
(* expected reference agrees with it; a pending read is joined whatever    *)
(* reference its own call expects.                                         *)
GetByHash(c, expected) ==
  LET h == expected.block IN
  /\ pc[c] = "idle"
  /\ args' = [args EXCEPT ![c] = expected]
  /\ \/ \E e \in CachedFor(h) :
          /\ historical' = Append(Without(historical, h), e)
          /\ Return(c, IF SameBlockReference(e, expected)
                         THEN Ok(e) ELSE Failure("mismatch"))
          /\ UNCHANGED <<awaits, read, byHashPending>>
     \/ /\ CachedFor(h) = {}
        /\ Joins(byHashPending[h])
        /\ Await(c, byHashPending[h])
        /\ UNCHANGED <<read, byHashPending, historical>>
     \/ /\ CachedFor(h) = {}
        /\ ~Joins(byHashPending[h])
        /\ Await(c, c)
        /\ Ask(c)
        /\ byHashPending' = [byHashPending EXCEPT ![h] = c]
        /\ UNCHANGED historical
  /\ UNCHANGED <<latest, latestPending, head, now>>

(* The provider evaluates getBlock: "latest" is its head at this moment.   *)
Evaluate(c) ==
  /\ read[c].status = "asked"
  /\ read' = [read EXCEPT ![c].status = "evaluated",
                          ![c].block = IF args[c] = None THEN head ELSE args[c].block,
                          ![c].at = now]
  /\ args[c] # None => args[c].block <= head
  /\ UNCHANGED <<callVars, stateVars, head, now>>

Complete(c, result) ==
  read' = [read EXCEPT ![c].status = "complete", ![c].result = result]

(* readLatest after its answer.                                            *)
LatestAnswered(c) ==
  /\ read[c].status = "evaluated" /\ args[c] = None
  /\ Complete(c, "ok")
  /\ latest' = [block |-> read[c].block, cachedAt |-> now]
  /\ historical' = InsertHistorical(historical, Genuine(read[c].block))
  /\ UNCHANGED <<callVars, latestPending, byHashPending, head, now>>

(* readByHash after its answer: only a reference that agrees is kept.      *)
HistoricalAfterByHash(c) ==
  IF SameBlockReference(Genuine(read[c].block), args[c])
    THEN InsertHistorical(historical, Genuine(read[c].block))
    ELSE historical

ByHashAnswered(c) ==
  /\ read[c].status = "evaluated" /\ args[c] # None
  /\ Complete(c, IF SameBlockReference(Genuine(read[c].block), args[c])
                   THEN "ok" ELSE "mismatch")
  /\ historical' = HistoricalAfterByHash(c)
  /\ UNCHANGED <<callVars, latest, latestPending, byHashPending, head, now>>

(* getBlock throws: no such block yet, or the provider fails.              *)
ReadFails(c) ==
  /\ read[c].status \in {"asked", "evaluated"}
  /\ Complete(c, "provider-error")
  /\ UNCHANGED <<callVars, stateVars, head, now>>

ResultOf(r) ==
  IF read[r].result = "ok" THEN Ok(Genuine(read[r].block)) ELSE Failure(read[r].result)

(* Whether the finally block runs for the read of r.                       *)
ClearsOnSuccess(r) == read[r].result = "ok"
Clears(r) == TRUE

(* The promise a call waits for has settled.                               *)
DeliveredToInitiator(c) == awaits[c] = c /\ read[c].status = "complete"
IsDelivered(c) == read[awaits[c]].status = "complete"

(* A call that waits resumes; the one that asked first clears the pending  *)
(* read in its finally block.                                              *)
Resume(c) ==
  /\ pc[c] = "waiting"
  /\ IsDelivered(c)
  /\ Return(c, ResultOf(awaits[c]))
  /\ latestPending' = IF latestPending = c /\ Clears(c) THEN None ELSE latestPending
  /\ byHashPending' = [h \in Blocks |->
       IF byHashPending[h] = c /\ Clears(c) THEN None ELSE byHashPending[h]]
  /\ UNCHANGED <<args, awaits, read, latest, historical, head, now>>

NewBlock ==
  /\ head < MaxHeight
  /\ head' = head + 1
  /\ UNCHANGED <<callVars, read, stateVars, now>>

(* Time passes once all ready continuations have run; the provider takes   *)
(* at most MaxLatency ticks from evaluating a read to answering it.        *)
Tick ==
  /\ now < MaxTime
  /\ \A c \in Lookups :
       /\ pc[c] = "waiting" => ~IsDelivered(c)
       /\ read[c].status = "evaluated" => now - read[c].at < MaxLatency
  /\ now' = now + 1
  /\ UNCHANGED <<callVars, read, stateVars, head>>

-----------------------------------------------------------------------------
Answer(c) == Evaluate(c) \/ LatestAnswered(c) \/ ByHashAnswered(c) \/ ReadFails(c)

Next ==
  \/ \E c \in Lookups :
       \/ GetLatest(c)
       \/ \E expected \in Reference : GetByHash(c, expected)
       \/ Answer(c)
       \/ Resume(c)
  \/ NewBlock
  \/ Tick

(* The provider answers or fails every read; ready continuations run.  No  *)
(* step of a lookup recurs, so one condition for all of them is enough.    *)
Runs == \E c \in Lookups : Answer(c) \/ Resume(c)

Spec == Init /\ [][Next]_vars
FairSpec == Spec /\ WF_vars(Runs)

-----------------------------------------------------------------------------
(* resolveSettlementReference: the failure the authorizer reports.         *)
Resolution(result) ==
  CASE result.reason = "ok" -> "ok"
    [] result.reason \in {"not-found", "mismatch"} -> "reference-block-mismatch"
    [] OTHER -> "reference-provider-error"

TypeOK ==
  /\ pc \in [Lookups -> {"idle", "waiting", "done"}]
  /\ args \in [Lookups -> Reference \cup {None}]
  /\ awaits \in [Lookups -> Lookups \cup {None}]
  /\ latest \in [block : Blocks, cachedAt : 0 .. MaxTime] \cup {None}
  /\ latestPending \in Lookups \cup {None}
  /\ byHashPending \in [Blocks -> Lookups \cup {None}]
  /\ historical \in Seq(Reference)
  /\ head \in Blocks
  /\ now \in 0 .. MaxTime

(* The historical map never outgrows maxEntries and holds only headers the *)
(* provider confirmed, one per hash, whatever clients supply.              *)
HistoricalSound ==
  /\ Len(historical) <= MaxEntries
  /\ \A i, j \in DOMAIN historical :
       /\ historical[i].genuine
       /\ historical[i].block = historical[j].block => i = j

(* A read leaves no trace in the pending slots once its call returned: a   *)
(* failed read is not served to later lookups.                             *)
PendingIsLive ==
  \A r \in Lookups :
    (latestPending = r \/ \E h \in Blocks : byHashPending[h] = r) => pc[r] = "waiting"

(* A lookup answered from the map or by its own read finds a reference     *)
(* genuine exactly when it is.                                             *)
OwnAnswersAreRight ==
  \A c \in Lookups :
    pc[c] = "done" /\ args[c] # None /\ awaits[c] \in {None, c} =>
      \/ Resolution(outcome[c]) = "reference-provider-error"
      \/ (Resolution(outcome[c]) = "ok") <=> args[c].genuine

(* The same of every lookup, as docs/scaling.md promises: the caches are   *)
(* "not correctness state".  A joined read breaks it.                      *)
AnswersAsWithoutCache ==
  \A c \in Lookups :
    pc[c] = "done" /\ args[c] # None =>
      \/ Resolution(outcome[c]) = "reference-provider-error"
      \/ (Resolution(outcome[c]) = "ok") <=> args[c].genuine

(* The cached latest block never moves backwards: reads of "latest" do not *)
(* overtake each other.                                                    *)
LatestNeverGoesBack ==
  [][latest # None => latest' # None /\ latest'.block >= latest.block]_latest

(* A latest block is served only while it was the head less than Ttl plus  *)
(* the latency of one read ago: no challenge is issued on an older one.    *)
ServedLatestIsRecent ==
  [][\A c \in Lookups :
       (pc[c] = "idle" /\ pc'[c] = "done" /\ args'[c] = None) =>
         \E r \in Lookups :
           /\ read[r].block = outcome'[c].reference.block
           /\ now - read[r].at < Ttl + MaxLatency]_vars

(* Every lookup returns: in the end none of them waits.                    *)
EveryLookupReturns == <>[](\A c \in Lookups : pc[c] # "waiting")
=============================================================================
