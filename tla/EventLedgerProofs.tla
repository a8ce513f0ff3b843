-------------------------- MODULE EventLedgerProofs --------------------------
(***************************************************************************)
(* Proofs about EventLedger, for any set of tenants, any number of calls   *)
(* and any map from tenants to advisory locks, collisions included.        *)
(*                                                                         *)
(* A chain is sound when it is finite, has a newest row and is linked.  The *)
(* heart of the argument is TailIsCurrent: between reading the tail and    *)
(* inserting, a call holds its tenant's lock, so nobody else inserts and   *)
(* what it read is still the tail.                                         *)
(***************************************************************************)
EXTENDS EventLedger, FiniteSetTheorems, SequenceTheorems, TLAPS

Has(R) == R # {} => \E r \in R : \A q \in R : q.seq <= r.seq

SoundChain(t, R) ==
    /\ IsFiniteSet(R)
    /\ \A r \in R : r.seq \in Nat \ {0}
    /\ \A r, q \in R : r.seq = q.seq => r = q
    /\ Has(R)
    /\ \A r \in R : EntryPlaced(r, R)

ChainsSound == \A t \in Tenants : SoundChain(t, rows[t])

LockOwned ==
    /\ \A c \in Calls : stage[c] \in {"locked", "read"} => lock[KeyOf(c)] = c
    /\ \A c \in Calls : \A k \in LockKeys :
          lock[k] = c => k = KeyOf(c) /\ stage[c] \in {"locked", "read"}

TailIsCurrent ==
    \A c \in Calls : stage[c] = "read" => tail[c] = TailOf(rows[TenantOf[c]])

TriesLeft == \A c \in Calls : stage[c] = "idle" => tries[c] < MaxAttempts

CallsRecorded ==
    /\ \A t \in Tenants : \A r, q \in rows[t] : r.call = q.call => r = q
    /\ \A t \in Tenants : \A r \in rows[t] :
          TenantOf[r.call] = t /\ stage[r.call] \in {"returned", "thrown"}
    /\ \A c \in Calls : stage[c] = "returned" =>
          \E r \in rows[TenantOf[c]] : r.call = c

LedgerInv ==
    /\ LedgerTypeOK
    /\ TriesLeft
    /\ LockOwned
    /\ ChainsSound
    /\ TailIsCurrent
    /\ CallsRecorded
    /\ NoSequenceConflict

-----------------------------------------------------------------------------
\* The newest row of a chain is at least as new as any other.
LEMMA NewestIsNewest ==
    ASSUME NEW R, R # {}, Has(R)
    PROVE  /\ Newest(R) \in R
           /\ \A q \in R : q.seq <= Newest(R).seq
BY DEF Has, Newest

\* A sound chain has as many rows as its tail's seq.
LEMMA TailCountsRows ==
    ASSUME NEW t \in Tenants, NEW R, SoundChain(t, R)
    PROVE  /\ TailOf(R).seq \in Nat
           /\ Cardinality(R) = TailOf(R).seq
           /\ \A q \in R : q.seq <= TailOf(R).seq
<1>1. CASE R = {}
  BY <1>1, FS_EmptySet DEF TailOf, NoTail
<1>2. CASE R # {}
  <2>1. Newest(R) \in R /\ \A q \in R : q.seq <= Newest(R).seq
    BY <1>2, NewestIsNewest DEF SoundChain
  <2>2. {q \in R : q.seq <= Newest(R).seq} = R
    BY <2>1
  <2>3. Newest(R).seq = Rank(Newest(R), R)
    BY <2>1 DEF SoundChain, EntryPlaced
  <2>4. Cardinality(R) = Newest(R).seq
    BY <2>2, <2>3 DEF Rank
  <2>5. TailOf(R).seq = Newest(R).seq
    BY <1>2 DEF TailOf
  <2> QED
    BY <2>1, <2>4, <2>5 DEF SoundChain
<1> QED
  BY <1>1, <1>2

\* Adding the successor of the tail to a sound chain gives a sound chain.
LEMMA ExtendChain ==
    ASSUME NEW t \in Tenants, NEW R, SoundChain(t, R), NEW c
    PROVE  LET n == Row(t, TailOf(R).seq + 1, c, TailOf(R).signature)
           IN  /\ n \notin R
               /\ SoundChain(t, R \union {n})
<1> DEFINE n == Row(t, TailOf(R).seq + 1, c, TailOf(R).signature)
           S == R \union {n}
<1>1. /\ n.seq = TailOf(R).seq + 1
      /\ n.prevHash = TailOf(R).signature
      /\ n.call = c
  BY DEF Row
<1>2. /\ TailOf(R).seq \in Nat
      /\ Cardinality(R) = TailOf(R).seq
      /\ \A q \in R : q.seq <= TailOf(R).seq
  BY TailCountsRows
<1>3. IsFiniteSet(R) /\ \A r \in R : r.seq \in Nat \ {0}
  BY DEF SoundChain
<1> HIDE DEF n
<1>4. \A q \in R : q.seq < n.seq
  BY <1>1, <1>2, <1>3
<1>5. n \notin R
  BY <1>4, <1>3
<1>6. IsFiniteSet(S) /\ Cardinality(S) = Cardinality(R) + 1
  BY <1>3, <1>5, FS_AddElement
<1>7. \A r \in S : r.seq \in Nat \ {0}
  BY <1>1, <1>2, <1>3
<1>8. \A r, q \in S : r.seq = q.seq => r = q
  BY <1>3, <1>4 DEF SoundChain
<1>9. Has(S)
  BY <1>3, <1>4, <1>7 DEF Has
<1>10. ASSUME NEW r \in S PROVE EntryPlaced(r, S)
  <2>1. CASE r = n
    <3>1. {q \in S : q.seq <= n.seq} = S
      BY <1>4, <1>3, <1>7
    <3>2. Preceding(n, S) = R
      BY <1>4, <1>7 DEF Preceding
    <3> QED
      BY <2>1, <3>1, <3>2, <1>1, <1>2, <1>6 DEF EntryPlaced, Rank
  <2>2. CASE r \in R
    <3>1. {q \in S : q.seq <= r.seq} = {q \in R : q.seq <= r.seq}
      BY <2>2, <1>4, <1>7
    <3>2. Preceding(r, S) = Preceding(r, R)
      BY <2>2, <1>4, <1>7 DEF Preceding
    <3>3. EntryPlaced(r, R)
      BY <2>2 DEF SoundChain
    <3> QED
      BY <3>1, <3>2, <3>3 DEF EntryPlaced, Rank
  <2> QED
    BY <2>1, <2>2
<1> QED
  BY <1>5, <1>6, <1>7, <1>8, <1>9, <1>10 DEF SoundChain, n

\* An empty chain is sound.
LEMMA EmptyChain == ASSUME NEW t PROVE SoundChain(t, {})
BY FS_EmptySet DEF SoundChain, Has

-----------------------------------------------------------------------------
\* The invariant holds of a ledger nobody has written to.
LEMMA InitInv == LedgerInit => LedgerInv
<1> SUFFICES ASSUME LedgerInit PROVE LedgerInv
  OBVIOUS
<1> USE LedgerAssumption DEF LedgerInit
<1>1. LedgerTypeOK
  BY DEF LedgerTypeOK, Stages, NoTail
<1>2. ChainsSound
  BY EmptyChain DEF ChainsSound
<1> QED
  BY <1>1, <1>2 DEF LedgerInv, TriesLeft, LockOwned, TailIsCurrent,
     CallsRecorded, NoSequenceConflict, KeyOf

-----------------------------------------------------------------------------
(***************************************************************************)
(* Steps.  Two facts are shared by every transaction that ends: the lock   *)
(* of its owner is released and nobody else's is touched.                  *)
(***************************************************************************)
\* A transaction that ends leaves every other call's lock and stage alone.
LEMMA EndKeepsLocks ==
    ASSUME LedgerTypeOK, LockOwned,
           NEW c \in Calls, NEW outcome \in {"idle"} \union Settled,
           EndTransaction(c, outcome)
    PROVE  /\ LockOwned'
           /\ lock' \in [LockKeys -> Calls \union {NoCall}]
           /\ stage' \in [Calls -> Stages]
<1> USE LedgerAssumption DEF LedgerTypeOK, EndTransaction
<1>1. lock' \in [LockKeys -> Calls \union {NoCall}]
  OBVIOUS
<1>2. stage' \in [Calls -> Stages]
  BY DEF Stages
<1>3. ASSUME NEW d \in Calls, stage'[d] \in {"locked", "read"}
      PROVE  lock'[KeyOf(d)] = d
  <2>1. d # c
    BY <1>3 DEF Settled, InTransaction
  <2>2. lock[KeyOf(d)] = d
    BY <2>1, <1>3 DEF LockOwned
  <2> QED
    BY <2>1, <2>2 DEF KeyOf
<1>4. ASSUME NEW d \in Calls, NEW k \in LockKeys, lock'[k] = d
      PROVE  k = KeyOf(d) /\ stage'[d] \in {"locked", "read"}
  <2>1. d # c /\ lock[k] = d
    BY <1>4
  <2> QED
    BY <2>1 DEF LockOwned
<1> QED
  BY <1>1, <1>2, <1>3, <1>4 DEF LockOwned, KeyOf

\* Ending without inserting - an abort - preserves the whole invariant.
LEMMA AbortInv ==
    ASSUME LedgerInv, NEW c \in Calls, stage[c] \in InTransaction,
           NEW outcome \in {"idle", "thrown"},
           outcome = "idle" => tries[c] < MaxAttempts,
           EndTransaction(c, outcome), UNCHANGED rows
    PROVE  LedgerInv'
<1> USE LedgerAssumption DEF LedgerInv
<1>1. LockOwned' /\ lock' \in [LockKeys -> Calls \union {NoCall}]
      /\ stage' \in [Calls -> Stages]
  BY EndKeepsLocks DEF Settled
<1>2. LedgerTypeOK'
  BY <1>1 DEF LedgerTypeOK, EndTransaction
<1>3. \A d \in Calls : stage'[d] = IF d = c THEN outcome ELSE stage[d]
  BY DEF LedgerTypeOK, EndTransaction
<1>4. TriesLeft'
  BY <1>3 DEF TriesLeft, EndTransaction
<1>5. ChainsSound'
  BY DEF ChainsSound
<1>6. TailIsCurrent'
  BY <1>3 DEF TailIsCurrent, EndTransaction
<1>7. CallsRecorded'
  BY <1>3 DEF CallsRecorded, InTransaction, LedgerTypeOK
<1>8. NoSequenceConflict'
  BY <1>3 DEF NoSequenceConflict
<1> QED
  BY <1>1, <1>2, <1>4, <1>5, <1>6, <1>7, <1>8

\* A call that holds the lock and has read the tail inserts its successor:
\* no row has that seq, and the chain it extends stays sound.
LEMMA InsertInv ==
    ASSUME LedgerInv, NEW c \in Calls, InsertAndCommit(c)
    PROVE  LedgerInv'
<1> USE LedgerAssumption DEF LedgerInv
<1> DEFINE t == TenantOf[c]
           n == NextRow(c)
<1>1. stage[c] = "read" /\ tail[c] = TailOf(rows[t]) /\ t \in Tenants
  BY DEF InsertAndCommit, TailIsCurrent
<1>2. SoundChain(t, rows[t])
  BY <1>1 DEF ChainsSound
<1>3. /\ tail[c].seq \in Nat
      /\ \A q \in rows[t] : q.seq <= tail[c].seq
  BY <1>1, <1>2, TailCountsRows
<1>4. ~SeqTaken(c)
  BY <1>2, <1>3 DEF SeqTaken, SoundChain
<1>5. PICK outcome \in {"returned", "thrown"} :
        /\ rows' = [rows EXCEPT ![t] = @ \union {n}]
        /\ EndTransaction(c, outcome)
  BY <1>4 DEF InsertAndCommit
<1>6. n = Row(t, TailOf(rows[t]).seq + 1, c, TailOf(rows[t]).signature)
  BY <1>1 DEF NextRow
<1>7. n \notin rows[t] /\ SoundChain(t, rows[t] \union {n})
  BY <1>2, <1>6, ExtendChain
<1>8. n.call = c /\ n.seq \in Nat \ {0} /\ n = Row(t, n.seq, n.call, n.prevHash)
  BY <1>3 DEF NextRow, Row
<1> HIDE DEF n
<1>9. /\ rows'[t] = rows[t] \union {n}
      /\ \A u \in Tenants \ {t} : rows'[u] = rows[u]
      /\ DOMAIN rows' = Tenants
  BY <1>1, <1>5 DEF LedgerTypeOK
<1>10. \A d \in Calls : stage'[d] = IF d = c THEN outcome ELSE stage[d]
  BY <1>5 DEF LedgerTypeOK, EndTransaction
<1>11. LockOwned' /\ lock' \in [LockKeys -> Calls \union {NoCall}]
       /\ stage' \in [Calls -> Stages]
  BY <1>5, EndKeepsLocks DEF Settled
<1>12. LedgerTypeOK'
  BY <1>5, <1>8, <1>9, <1>11 DEF LedgerTypeOK, EndTransaction
<1>13. TriesLeft'
  BY <1>5, <1>10 DEF TriesLeft, EndTransaction
<1>14. ChainsSound'
  BY <1>7, <1>9 DEF ChainsSound
<1>15. TailIsCurrent'
  <2> SUFFICES ASSUME NEW d \in Calls, stage'[d] = "read"
               PROVE  tail'[d] = TailOf(rows'[TenantOf[d]])
    BY DEF TailIsCurrent
  <2>1. d # c /\ stage[d] = "read"
    BY <1>10
  <2>2. lock[KeyOf(d)] = d /\ lock[KeyOf(c)] = c
    BY <1>1, <2>1 DEF LockOwned
  <2>3. TenantOf[d] # t
    BY <2>1, <2>2 DEF KeyOf
  <2>4. rows'[TenantOf[d]] = rows[TenantOf[d]]
    BY <1>9, <2>3
  <2> QED
    BY <1>5, <2>1, <2>4 DEF TailIsCurrent, EndTransaction
<1>16. CallsRecorded'
  <2>1. \A u \in Tenants : \A r \in rows[u] : r.call # c
    BY <1>1 DEF CallsRecorded
  <2>2. \A u \in Tenants : \A r, q \in rows'[u] : r.call = q.call => r = q
    BY <1>8, <1>9, <2>1 DEF CallsRecorded
  <2>3. \A u \in Tenants : \A r \in rows'[u] :
          TenantOf[r.call] = u /\ stage'[r.call] \in {"returned", "thrown"}
    <3> SUFFICES ASSUME NEW u \in Tenants, NEW r \in rows'[u]
                 PROVE  /\ TenantOf[r.call] = u
                        /\ stage'[r.call] \in {"returned", "thrown"}
      OBVIOUS
    <3>1. CASE r = n /\ u = t
      BY <3>1, <1>8, <1>10
    <3>2. CASE r \in rows[u]
      <4>1. r.call \in Calls /\ r.call # c
        BY <3>2, <2>1 DEF LedgerTypeOK
      <4> QED
        BY <3>2, <4>1, <1>10 DEF CallsRecorded
    <3> QED
      BY <3>1, <3>2, <1>9
  <2>4. ASSUME NEW d \in Calls, stage'[d] = "returned"
        PROVE  \E r \in rows'[TenantOf[d]] : r.call = d
    BY <2>4, <1>8, <1>9, <1>10 DEF CallsRecorded
  <2> QED
    BY <2>2, <2>3, <2>4 DEF CallsRecorded
<1>17. NoSequenceConflict'
  BY <1>10 DEF NoSequenceConflict
<1> QED
  BY <1>11, <1>12, <1>13, <1>14, <1>15, <1>16, <1>17

\* Beginning a transaction, being granted the lock and reading the tail
\* change nobody's chain.
LEMMA BeforeInsertInv ==
    ASSUME LedgerInv, NEW c \in Calls,
           BeginAppend(c) \/ AcquireLock(c) \/ ReadTail(c)
    PROVE  LedgerInv'
<1> USE LedgerAssumption DEF LedgerInv
<1>1. CASE BeginAppend(c)
  <2> USE <1>1 DEF BeginAppend
  <2>1. \A d \in Calls : stage'[d] = IF d = c THEN "waiting" ELSE stage[d]
    BY DEF LedgerTypeOK
  <2>2. LedgerTypeOK'
    BY DEF LedgerTypeOK, TriesLeft, Stages, InTransaction
  <2>3. TriesLeft'
    BY <2>1 DEF TriesLeft, LedgerTypeOK
  <2>4. LockOwned'
    BY <2>1 DEF LockOwned, KeyOf
  <2>5. ChainsSound' /\ TailIsCurrent' /\ NoSequenceConflict'
    BY <2>1 DEF ChainsSound, TailIsCurrent, NoSequenceConflict
  <2>6. CallsRecorded'
    BY <2>1 DEF CallsRecorded, LedgerTypeOK
  <2> QED
    BY <2>2, <2>3, <2>4, <2>5, <2>6
<1>2. CASE AcquireLock(c)
  <2> USE <1>2 DEF AcquireLock
  <2>1. \A d \in Calls : stage'[d] = IF d = c THEN "locked" ELSE stage[d]
    BY DEF LedgerTypeOK
  <2>2. KeyOf(c) \in LockKeys
    BY DEF KeyOf
  <2>3. \A k \in LockKeys : lock'[k] = IF k = KeyOf(c) THEN c ELSE lock[k]
    BY <2>2 DEF LedgerTypeOK
  <2>4. LedgerTypeOK'
    BY <2>2 DEF LedgerTypeOK, Stages, InTransaction
  <2>5. LockOwned'
    <3>1. \A d \in Calls : KeyOf(d) \in LockKeys
      BY DEF KeyOf
    <3> QED
      BY <2>1, <2>3, <3>1 DEF LockOwned, KeyOf
  <2>6. TriesLeft' /\ ChainsSound' /\ TailIsCurrent' /\ NoSequenceConflict'
    BY <2>1 DEF TriesLeft, ChainsSound, TailIsCurrent, NoSequenceConflict
  <2>7. CallsRecorded'
    BY <2>1 DEF CallsRecorded, LedgerTypeOK
  <2> QED
    BY <2>4, <2>5, <2>6, <2>7
<1>3. CASE ReadTail(c)
  <2> USE <1>3 DEF ReadTail
  <2>1. \A d \in Calls : stage'[d] = IF d = c THEN "read" ELSE stage[d]
    BY DEF LedgerTypeOK
  <2>2. TailOf(rows[TenantOf[c]]).seq \in Nat
    BY TailCountsRows DEF ChainsSound
  <2>3. LedgerTypeOK'
    BY <2>2 DEF LedgerTypeOK, Stages, InTransaction
  <2>4. LockOwned'
    BY <2>1 DEF LockOwned, KeyOf
  <2>5. TriesLeft' /\ ChainsSound' /\ NoSequenceConflict'
    BY <2>1 DEF TriesLeft, ChainsSound, NoSequenceConflict
  <2>6. TailIsCurrent'
    BY <2>1 DEF TailIsCurrent, LedgerTypeOK
  <2>7. CallsRecorded'
    BY <2>1 DEF CallsRecorded, LedgerTypeOK
  <2> QED
    BY <2>3, <2>4, <2>5, <2>6, <2>7
<1> QED
  BY <1>1, <1>2, <1>3

\* The invariant is inductive.
LEMMA NextInv == LedgerInv /\ [LedgerNext]_ledgerVars => LedgerInv'
<1> SUFFICES ASSUME LedgerInv, [LedgerNext]_ledgerVars PROVE LedgerInv'
  OBVIOUS
<1>1. ASSUME NEW c \in Calls, LedgerStep(c) PROVE LedgerInv'
  <2>1. CASE BeginAppend(c) \/ AcquireLock(c) \/ ReadTail(c)
    BY <2>1, BeforeInsertInv
  <2>2. CASE InsertAndCommit(c)
    BY <2>2, InsertInv
  <2>3. CASE RetryableAbort(c)
    BY <2>3, AbortInv DEF RetryableAbort
  <2>4. CASE FatalAbort(c)
    BY <2>4, AbortInv DEF FatalAbort
  <2> QED
    BY <1>1, <2>1, <2>2, <2>3, <2>4 DEF LedgerStep
<1>2. CASE UNCHANGED ledgerVars
  BY <1>2 DEF ledgerVars, LedgerInv, LedgerTypeOK, TriesLeft, LockOwned,
     ChainsSound, TailIsCurrent, CallsRecorded, NoSequenceConflict
<1> QED
  BY <1>1, <1>2 DEF LedgerNext, Done

-----------------------------------------------------------------------------
(***************************************************************************)
(* Theorems.                                                               *)
(***************************************************************************)
\* The inductive invariant holds in every reachable state.
THEOREM LedgerInvariant == LedgerSafetySpec => []LedgerInv
BY InitInv, NextInv, PTL DEF LedgerSafetySpec

\* Type correctness of the ledger.
THEOREM TypeCorrect == LedgerSafetySpec => []LedgerTypeOK
<1>1. LedgerInv => LedgerTypeOK
  BY DEF LedgerInv
<1> QED
  BY <1>1, LedgerInvariant, PTL

\* An entry verifies where it stands just when its payload reads back.
LEMMA SignedIfReadsBack ==
    ASSUME NEW t, NEW r, r = Row(t, r.seq, r.call, r.prevHash)
    PROVE  EntrySigned(t, r) <=> ReadsBack(r.call)
<1>1. /\ r.content = Stored[ContentOf[r.call]]
      /\ r.signature = Sign(t, r.seq, ContentOf[r.call], r.prevHash)
  BY DEF Row
<1> QED
  BY <1>1 DEF EntrySigned, ReadsBack, Sign

\* However many processes append for however many tenants, every tenant's
\* chain is contiguous and linked at every moment, and passes verifyIntegrity
\* but for the payloads that do not read back as they were signed.
THEOREM ChainsStayLinked == LedgerSafetySpec => []ChainsAreLinked
<1>1. ASSUME LedgerInv PROVE ChainsAreLinked
  <2> SUFFICES ASSUME NEW t \in Tenants
               PROVE  /\ \A r \in rows[t] : EntryPlaced(r, rows[t])
                      /\ VerifyIntegrity(t, rows[t])
                           <=> \A r \in rows[t] : ReadsBack(r.call)
    BY DEF ChainsAreLinked
  <2>1. \A r \in rows[t] : EntryPlaced(r, rows[t])
    BY <1>1 DEF LedgerInv, ChainsSound, SoundChain
  <2>2. \A r \in rows[t] : EntrySigned(t, r) <=> ReadsBack(r.call)
    BY <1>1, SignedIfReadsBack DEF LedgerInv, LedgerTypeOK
  <2> QED
    BY <2>1, <2>2 DEF VerifyIntegrity
<1> QED
  BY <1>1, LedgerInvariant, PTL

\* Serialised by the advisory lock, no append ever loses a race for a seq:
\* the unique index is never what stops it.
THEOREM NoConflicts == LedgerSafetySpec => []NoSequenceConflict
<1>1. LedgerInv => NoSequenceConflict
  BY DEF LedgerInv
<1> QED
  BY <1>1, LedgerInvariant, PTL

\* An append is recorded at most once however often it is retried, exactly
\* once if it returned, and not at all while it is still in flight.
THEOREM RecordedExactlyOnce == LedgerSafetySpec => []RecordedOnce
<1>1. ASSUME LedgerInv PROVE RecordedOnce
  <2> SUFFICES ASSUME NEW c \in Calls
               PROVE  LET mine == {r \in rows[TenantOf[c]] : r.call = c}
                      IN  /\ Cardinality(mine) <= 1
                          /\ stage[c] = "returned" => Cardinality(mine) = 1
                          /\ stage[c] \in {"idle"} \union InTransaction
                               => mine = {}
    BY DEF RecordedOnce
  <2> DEFINE mine == {r \in rows[TenantOf[c]] : r.call = c}
  <2>1. TenantOf[c] \in Tenants
    BY LedgerAssumption
  <2>2. \A r, q \in mine : r = q
    BY <1>1, <2>1 DEF LedgerInv, CallsRecorded
  <2>3. mine = {} => Cardinality(mine) = 0
    BY FS_EmptySet
  <2>4. ASSUME NEW r \in mine PROVE Cardinality(mine) = 1
    <3>1. mine = {r}
      BY <2>2
    <3> QED
      BY <3>1, FS_Singleton
  <2>5. stage[c] = "returned" => mine # {}
    BY <1>1 DEF LedgerInv, CallsRecorded
  <2>6. stage[c] \in {"idle"} \union InTransaction => mine = {}
    BY <1>1, <2>1 DEF LedgerInv, CallsRecorded, InTransaction
  <2>7. mine = {} \/ \E r \in mine : TRUE
    OBVIOUS
  <2> QED
    BY <2>3, <2>4, <2>5, <2>6, <2>7
<1> QED
  BY <1>1, LedgerInvariant, PTL

-----------------------------------------------------------------------------
(***************************************************************************)
(* What the chain is good for: it shows tampering, and it is the log.      *)
(***************************************************************************)
\* An entry that verifies does not under a content that is signed differently.
LEMMA ChangedEntryFails ==
    ASSUME NEW t, NEW r, NEW e, EntrySigned(t, r),
           e.seq = r.seq, e.prevHash = r.prevHash, e.signature = r.signature,
           Canonical[e.content] # Canonical[r.content]
    PROVE  ~EntrySigned(t, e)
BY DEF EntrySigned, Sign

\* Without one of its older entries a chain's newest stands out of place.
LEMMA MissingEntryFails ==
    ASSUME NEW t \in Tenants, NEW R, SoundChain(t, R), NEW r \in R, r # Newest(R)
    PROVE  \E q \in R \ {r} : ~EntryPlaced(q, R \ {r})
<1> DEFINE n == Newest(R)
           S == R \ {r}
<1>1. n \in S /\ \A q \in R : q.seq <= n.seq
  BY NewestIsNewest DEF SoundChain
<1>2. Cardinality(R) = n.seq /\ n.seq \in Nat
  BY <1>1, TailCountsRows DEF TailOf, SoundChain
<1>3. Cardinality(S) = n.seq - 1
  BY <1>2, FS_RemoveElement DEF SoundChain
<1>4. {q \in S : q.seq <= n.seq} = S
  BY <1>1
<1>5. n.seq # Rank(n, S)
  BY <1>2, <1>3, <1>4 DEF Rank
<1> QED
  BY <1>1, <1>5 DEF EntryPlaced

\* Removing any entry but the newest leaves another out of place, and an entry
\* that verifies no longer does under another content, whatever was appended
\* and however long the chain (ledger/src/index.ts verifyIntegrity).
THEOREM TamperingShows == LedgerSafetySpec => []TamperEvident
<1>1. ASSUME LedgerInv PROVE TamperEvident
  <2> SUFFICES ASSUME NEW t \in Tenants, NEW r \in rows[t]
               PROVE  /\ r # Newest(rows[t]) =>
                            \E q \in rows[t] \ {r} :
                                ~EntryPlaced(q, rows[t] \ {r})
                      /\ EntrySigned(t, r) =>
                            \A x \in Contents : Canonical[x] # Canonical[r.content]
                                => ~EntrySigned(t, [r EXCEPT !.content = x])
    BY DEF TamperEvident
  <2>1. SoundChain(t, rows[t])
    BY <1>1 DEF LedgerInv, ChainsSound
  <2>2. r = Row(t, r.seq, r.call, r.prevHash)
    BY <1>1 DEF LedgerInv, LedgerTypeOK
  <2>3. ASSUME EntrySigned(t, r), NEW x \in Contents,
               Canonical[x] # Canonical[r.content]
        PROVE  ~EntrySigned(t, [r EXCEPT !.content = x])
    <3> DEFINE e == [r EXCEPT !.content = x]
    <3>1. /\ e.seq = r.seq /\ e.prevHash = r.prevHash
          /\ e.signature = r.signature /\ e.content = x
      BY <2>2 DEF Row
    <3> HIDE DEF e
    <3>2. ~EntrySigned(t, e)
      BY <2>3, <3>1, ChangedEntryFails
    <3> QED
      BY <3>2 DEF e
  <2> QED
    BY <2>1, <2>3, MissingEntryFails
<1> QED
  BY <1>1, LedgerInvariant, PTL

\* The seqs of a sound chain are 1, 2, ... with none left out.
LEMMA EverySeqIsTaken ==
    ASSUME NEW t \in Tenants, NEW R, SoundChain(t, R), NEW i \in 1..Cardinality(R)
    PROVE  \E r \in R : r.seq = i
<1> DEFINE N == Cardinality(R)
           f == [r \in R |-> r.seq]
<1>1. N \in Nat /\ \A q \in R : q.seq <= N /\ q.seq \in Nat \ {0}
  BY TailCountsRows DEF SoundChain
<1>2. f \in Injection(R, 1..N)
  <2>1. f \in [R -> 1..N]
    BY <1>1
  <2>2. \A r, q \in R : f[r] = f[q] => r = q
    BY DEF SoundChain
  <2> QED
    BY <2>1, <2>2 DEF Injection, IsInjective
<1>3. IsFiniteSet(1..N) /\ Cardinality(1..N) = N
  BY <1>1, FS_Interval
<1>4. f \in Surjection(R, 1..N)
  BY <1>2, <1>3, FS_Injection
<1> QED
  BY <1>4 DEF Surjection

HistoryIn(R) == [i \in 1..Cardinality(R) |-> (CHOOSE r \in R : r.seq = i).call]

\* The i-th call of the history is the one of the row with seq i.
LEMMA HistoryFollowsSeq ==
    ASSUME NEW t \in Tenants, NEW R, SoundChain(t, R)
    PROVE  /\ Cardinality(R) \in Nat
           /\ \A i \in 1..Cardinality(R) :
                 \E r \in R : r.seq = i /\ HistoryIn(R)[i] = r.call
           /\ \A r \in R : /\ r.seq \in 1..Cardinality(R)
                           /\ HistoryIn(R)[r.seq] = r.call
<1>1. Cardinality(R) \in Nat /\ \A r \in R : r.seq \in 1..Cardinality(R)
  BY TailCountsRows DEF SoundChain
<1>2. ASSUME NEW r \in R PROVE HistoryIn(R)[r.seq] = r.call
  <2>1. (CHOOSE q \in R : q.seq = r.seq) = r
    BY DEF SoundChain
  <2> QED
    BY <1>1, <2>1 DEF HistoryIn
<1> QED
  BY <1>1, <1>2, EverySeqIsTaken

\* A sequence as long as s and one more, which agrees with s and ends in e.
LEMMA AppendedSeq ==
    ASSUME NEW C, NEW N \in Nat, NEW s \in [1..N -> C], NEW e \in C,
           NEW f \in [1..N + 1 -> C], f[N + 1] = e, \A i \in 1..N : f[i] = s[i]
    PROVE  f = Append(s, e)
<1>1. s \in Seq(C) /\ Len(s) = N
  OBVIOUS
<1>2. Append(s, e) \in Seq(C) /\ Len(Append(s, e)) = N + 1
  BY <1>1
<1>3. f \in Seq(C) /\ Len(f) = N + 1
  OBVIOUS
<1>4. ASSUME NEW i \in 1..N + 1 PROVE f[i] = Append(s, e)[i]
  <2>1. CASE i = N + 1
    BY <1>1, <2>1
  <2>2. CASE i \in 1..N
    BY <1>1, <2>2
  <2> QED
    BY <2>1, <2>2
<1> QED
  BY <1>2, <1>3, <1>4, SeqEqual

\* One row more is one call more at the end of the history.
LEMMA HistoryGrows ==
    ASSUME NEW t \in Tenants, NEW R, SoundChain(t, R), NEW c \in Calls,
           \A r \in R : r.call \in Calls
    PROVE  LET n == Row(t, TailOf(R).seq + 1, c, TailOf(R).signature)
           IN  HistoryIn(R \union {n}) = Append(HistoryIn(R), c)
<1> DEFINE n == Row(t, TailOf(R).seq + 1, c, TailOf(R).signature)
           S == R \union {n}
           N == Cardinality(R)
<1>1. n \notin R /\ SoundChain(t, S)
  BY ExtendChain
<1>2. N \in Nat /\ n.seq = N + 1 /\ n.call = c
  BY TailCountsRows DEF Row
<1>3. Cardinality(S) = N + 1
  BY <1>1, FS_AddElement DEF SoundChain
<1>4. HistoryIn(R) \in [1..N -> Calls]
  <2>1. \A i \in 1..N : HistoryIn(R)[i] \in Calls
    BY HistoryFollowsSeq
  <2> QED
    BY <2>1 DEF HistoryIn
<1>5. HistoryIn(S) \in [1..N + 1 -> Calls]
  <2>1. \A i \in 1..N + 1 : HistoryIn(S)[i] \in Calls
    BY <1>1, <1>2, <1>3, HistoryFollowsSeq
  <2> QED
    BY <1>3, <2>1 DEF HistoryIn
<1> HIDE DEF n
<1>6. HistoryIn(S)[N + 1] = c
  BY <1>1, <1>2, HistoryFollowsSeq
<1>7. ASSUME NEW i \in 1..N PROVE HistoryIn(S)[i] = HistoryIn(R)[i]
  <2>1. PICK r \in R : r.seq = i /\ HistoryIn(R)[i] = r.call
    BY HistoryFollowsSeq
  <2> QED
    BY <1>1, <2>1, HistoryFollowsSeq
<1> HIDE DEF N, S
<1>8. HistoryIn(S) = Append(HistoryIn(R), c)
  BY <1>2, <1>4, <1>5, <1>6, <1>7, AppendedSeq
<1> QED
  BY <1>8 DEF n, S

\* Every step of the ledger is a step of the log, or none of it.
LEMMA LedgerStepLogs ==
    LedgerInv /\ [LedgerNext]_ledgerVars =>
        [Log!LogNext]_[t \in Tenants |-> HistoryOf(t)]
<1> SUFFICES ASSUME LedgerInv, [LedgerNext]_ledgerVars
             PROVE  [Log!LogNext]_[t \in Tenants |-> HistoryOf(t)]
  OBVIOUS
<1> DEFINE history == [t \in Tenants |-> HistoryOf(t)]
<1>1. CASE rows' = rows
  BY <1>1 DEF HistoryOf
<1>2. ASSUME NEW c \in Calls, InsertAndCommit(c), ~SeqTaken(c)
      PROVE  Log!LogNext
  <2> DEFINE t == TenantOf[c]
             n == Row(t, TailOf(rows[t]).seq + 1, c, TailOf(rows[t]).signature)
  <2>1. t \in Tenants /\ stage[c] = "read" /\ tail[c] = TailOf(rows[t])
    BY <1>2, LedgerAssumption DEF InsertAndCommit, LedgerInv, TailIsCurrent
  <2>2. rows' = [rows EXCEPT ![t] = @ \union {n}]
    BY <1>2, <2>1 DEF InsertAndCommit, NextRow
  <2>3. SoundChain(t, rows[t]) /\ \A r \in rows[t] : r.call \in Calls \ {c}
    BY <2>1 DEF LedgerInv, ChainsSound, CallsRecorded, LedgerTypeOK
  <2>4. /\ history'[t] = Append(history[t], c)
        /\ \A u \in Tenants \ {t} : history'[u] = history[u]
    <3>1. /\ rows'[t] = rows[t] \union {n}
          /\ \A u \in Tenants \ {t} : rows'[u] = rows[u]
      BY <2>1, <2>2 DEF LedgerInv, LedgerTypeOK
    <3>2. history[t] = HistoryIn(rows[t]) /\ history'[t] = HistoryIn(rows'[t])
      BY <2>1 DEF HistoryOf, HistoryIn
    <3>3. HistoryIn(rows[t] \union {n}) = Append(HistoryIn(rows[t]), c)
      BY <2>1, <2>3, HistoryGrows
    <3>4. ASSUME NEW u \in Tenants \ {t} PROVE history'[u] = history[u]
      <4>1. history[u] = HistoryIn(rows[u]) /\ history'[u] = HistoryIn(rows'[u])
        BY DEF HistoryOf, HistoryIn
      <4> QED
        BY <3>1, <4>1
    <3> QED
      BY <3>1, <3>2, <3>3, <3>4
  <2>5. history' = [history EXCEPT ![t] = Append(@, c)]
    BY <2>1, <2>4
  <2>6. c \notin Log!Recorded(t)
    <3>1. history[t] = HistoryIn(rows[t])
      BY <2>1 DEF HistoryOf, HistoryIn
    <3>2. DOMAIN HistoryIn(rows[t]) = 1..Cardinality(rows[t])
      BY DEF HistoryIn
    <3>3. \A i \in 1..Cardinality(rows[t]) : HistoryIn(rows[t])[i] # c
      BY <2>1, <2>3, HistoryFollowsSeq
    <3> QED
      BY <3>1, <3>2, <3>3 DEF Log!Recorded, Log!Range
  <2> QED
    BY <2>5, <2>6 DEF Log!LogNext, Log!Record
<1>3. ASSUME NEW c \in Calls, LedgerStep(c), rows' # rows
      PROVE  InsertAndCommit(c) /\ ~SeqTaken(c)
  BY <1>3 DEF LedgerStep, BeginAppend, AcquireLock, ReadTail, InsertAndCommit,
     RetryableAbort, FatalAbort
<1> QED
  BY <1>1, <1>2, <1>3 DEF LedgerNext, Done, ledgerVars

\* append implements one append-only log per tenant: each of its steps extends
\* one tenant's history by one call not in it yet, or changes no history.
THEOREM LedgerIsALog == LedgerSafetySpec => ImplementsAppendOnlyLog
<1>1. LedgerInit => Log!LogInit
  <2> SUFFICES ASSUME LedgerInit, NEW t \in Tenants PROVE HistoryOf(t) = <<>>
    BY DEF Log!LogInit
  <2>1. Cardinality(rows[t]) = 0
    BY FS_EmptySet DEF LedgerInit
  <2> QED
    BY <2>1 DEF HistoryOf
<1> QED
  BY <1>1, LedgerStepLogs, LedgerInvariant, PTL
  DEF LedgerSafetySpec, ImplementsAppendOnlyLog, Log!LogSpec
=============================================================================
