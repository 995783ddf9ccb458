------------------------- MODULE SocketTable_proofs -------------------------
(***************************************************************************)
(* Proofs about the socket table, for any number of threads, of local      *)
(* references per thread and of slots.                                     *)
(*                                                                         *)
(* RefcountExact is inductive together with the facts that the freeing     *)
(* flag marks exactly the entries some thread is freeing (OneFreer), and   *)
(* NoUseAfterFree follows step by step from both: a thread only gets past  *)
(* the waiting loop when the count, hence the set of holders, is empty,    *)
(* and from then on the flag keeps the entry from being acquired.          *)
(***************************************************************************)
EXTENDS SocketTable, FiniteSetTheorems, TLAPS

\* A thread has an entry to free exactly while it is in the function.
FreePhaseMatches ==
    \A t \in Threads : fpc[t] = "none" <=> fsock[t] = NULL

TableInv ==
    /\ TypeOK
    /\ RefcountExact
    /\ NoUseAfterFree
    /\ OneFreer
    /\ NoLostWakeup
    /\ FreePhaseMatches

-----------------------------------------------------------------------------

\* The pointers of all threads are finitely many, so holders can be counted:
\* the count of an entry is a natural number, and zero exactly when no thread
\* holds the entry.
LEMMA HoldersFinite ==
    \A s : /\ IsFiniteSet(Holders(s))
           /\ Cardinality(Holders(s)) \in Nat
           /\ Cardinality(Holders(s)) = 0 <=> Holders(s) = {}
<1>1. IsFiniteSet(Pointers)
  BY TableAssumption, FS_Product DEF Pointers
<1> TAKE s
<1>2. IsFiniteSet(Holders(s))
  <2>1. Holders(s) \subseteq Pointers
    BY DEF Holders
  <2> QED BY <1>1, <2>1, FS_Subset
<1>3. Cardinality(Holders(s)) \in Nat
  BY <1>2, FS_CardinalityType
<1>4. Cardinality(Holders(s)) = 0 <=> Holders(s) = {}
  BY <1>2, FS_EmptySet
<1> QED BY <1>2, <1>3, <1>4

\* NULL, the absence of an entry, is not a slot of the table.
LEMMA NullIsNoSocket == NULL \notin Sockets
BY TableAssumption DEF Sockets

\* Taking a reference adds one holder to the acquired entry and none to any
\* other; the freeing test keeps the entry out of the destroyed ones.
LEMMA AcquirePreserves ==
    ASSUME TableInv, NEW t \in Threads, NEW v \in Locals, NEW s \in Sockets,
           Acquire(t, v, s)
    PROVE  TableInv'
<1> DEFINE p == <<t, v>>
<1>p. p \in Pointers
  BY DEF Pointers
<1>a. /\ ptr[p] = NULL
      /\ ~available[s] /\ ~freeing[s]
      /\ refcount' = [refcount EXCEPT ![s] = @ + 1]
      /\ ptr' = [ptr EXCEPT ![p] = s]
      /\ UNCHANGED <<available, freeing, fsock, fpc, cv_table>>
  BY DEF Acquire, InUse
<1> HIDE DEF p
<1>0. TypeOK
  BY DEF TableInv
<1>1. TypeOK'
  BY <1>0, <1>a, <1>p DEF TypeOK
<1>2. Holders(s)' = Holders(s) \cup {p} /\ p \notin Holders(s)
  BY <1>0, <1>a, <1>p, NullIsNoSocket DEF TypeOK, Holders
<1>3. \A q \in Sockets \ {s} : Holders(q)' = Holders(q)
  BY <1>0, <1>a, <1>p, NullIsNoSocket DEF TypeOK, Holders
<1>4. RefcountExact'
  <2>1. Cardinality(Holders(s)') = Cardinality(Holders(s)) + 1
    BY <1>2, HoldersFinite, FS_AddElement
  <2>2. refcount'[s] = Cardinality(Holders(s)')
    BY <2>1, <1>0, <1>a DEF TableInv, RefcountExact, TypeOK
  <2>3. \A q \in Sockets \ {s} : refcount'[q] = Cardinality(Holders(q)')
    BY <1>3, <1>0, <1>a DEF TableInv, RefcountExact, TypeOK
  <2> QED BY <2>2, <2>3 DEF RefcountExact
<1>5. NoUseAfterFree'
  <2>1. \A q \in Sockets : BeingDestroyed(q)' <=> BeingDestroyed(q)
    BY <1>a DEF BeingDestroyed
  <2>2. ~BeingDestroyed(s)
    BY <1>a DEF TableInv, OneFreer, BeingDestroyed
  <2> QED BY <2>1, <2>2, <1>3, <1>a DEF TableInv, NoUseAfterFree
<1>6. OneFreer'
  BY <1>a DEF TableInv, OneFreer
<1>7. NoLostWakeup'
  <2> SUFFICES ASSUME NEW u \in cv_table'
               PROVE  fpc'[u] = "waiting" /\ refcount'[fsock'[u]] > 0
    BY DEF NoLostWakeup
  <2>1. u \in Threads /\ fpc[u] = "waiting" /\ refcount[fsock[u]] > 0
    BY <1>0, <1>a DEF TableInv, NoLostWakeup, TypeOK
  <2>2. fsock[u] \in Sockets
    BY <2>1, <1>0 DEF TableInv, FreePhaseMatches, TypeOK
  <2> QED BY <2>1, <2>2, <1>0, <1>a DEF TypeOK
<1>8. FreePhaseMatches'
  BY <1>a DEF TableInv, FreePhaseMatches
<1> QED BY <1>1, <1>4, <1>5, <1>6, <1>7, <1>8 DEF TableInv

\* Giving a reference up removes one holder; the release that brings the count
\* to zero empties the set of sleepers, so none is left waiting for it.
LEMMA ReleasePreserves ==
    ASSUME TableInv, NEW t \in Threads, NEW v \in Locals, Release(t, v)
    PROVE  TableInv'
<1> DEFINE p == <<t, v>>
<1>p. p \in Pointers
  BY DEF Pointers
<1>0. TypeOK
  BY DEF TableInv
<1>e. PICK s \in Sockets : s = ptr[p]
  BY <1>0, <1>p DEF Release, TypeOK
<1>a. /\ refcount' = [refcount EXCEPT ![s] = @ - 1]
      /\ ptr' = [ptr EXCEPT ![p] = NULL]
      /\ cv_table' = IF refcount[s] = 1 THEN {} ELSE cv_table
      /\ UNCHANGED <<available, freeing, fsock, fpc>>
  BY <1>e DEF Release
<1> HIDE DEF p
<1>2. Holders(s)' = Holders(s) \ {p} /\ p \in Holders(s)
  BY <1>0, <1>a, <1>p, <1>e, NullIsNoSocket DEF TypeOK, Holders
<1>1. TypeOK'
  <2>1. Holders(s) # {} /\ IsFiniteSet(Holders(s))
    BY <1>2, HoldersFinite
  <2>2. refcount[s] # 0
    BY <2>1, FS_EmptySet DEF TableInv, RefcountExact
  <2> QED BY <2>2, <1>0, <1>a, <1>p DEF TypeOK
<1>3. \A q \in Sockets \ {s} : Holders(q)' = Holders(q)
  BY <1>0, <1>a, <1>p, <1>e, NullIsNoSocket DEF TypeOK, Holders
<1>4. RefcountExact'
  <2>1. Cardinality(Holders(s)') = Cardinality(Holders(s)) - 1
    BY <1>2, HoldersFinite, FS_RemoveElement
  <2>2. refcount'[s] = Cardinality(Holders(s)')
    BY <2>1, <1>0, <1>a DEF TableInv, RefcountExact, TypeOK
  <2>3. \A q \in Sockets \ {s} : refcount'[q] = Cardinality(Holders(q)')
    BY <1>3, <1>0, <1>a DEF TableInv, RefcountExact, TypeOK
  <2> QED BY <2>2, <2>3 DEF RefcountExact
<1>5. NoUseAfterFree'
  <2>1. \A q \in Sockets : BeingDestroyed(q)' <=> BeingDestroyed(q)
    BY <1>a DEF BeingDestroyed
  <2> QED BY <2>1, <1>2, <1>3, <1>a DEF TableInv, NoUseAfterFree
<1>6. OneFreer'
  BY <1>a DEF TableInv, OneFreer
<1>7. NoLostWakeup'
  <2> SUFFICES ASSUME NEW u \in cv_table'
               PROVE  fpc'[u] = "waiting" /\ refcount'[fsock'[u]] > 0
    BY DEF NoLostWakeup
  <2>1. u \in cv_table /\ refcount[s] # 1
    BY <1>a
  <2>2. u \in Threads /\ fpc[u] = "waiting" /\ refcount[fsock[u]] > 0
    BY <2>1, <1>0 DEF TableInv, NoLostWakeup, TypeOK
  <2>3. fsock[u] \in Sockets
    BY <2>2, <1>0 DEF TableInv, FreePhaseMatches, TypeOK
  <2> QED BY <2>1, <2>2, <2>3, <1>0, <1>a DEF TypeOK
<1>8. FreePhaseMatches'
  BY <1>a DEF TableInv, FreePhaseMatches
<1> QED BY <1>1, <1>4, <1>5, <1>6, <1>7, <1>8 DEF TableInv

\* Holders depend on the local pointers of the threads only.
LEMMA HoldersUnchanged ==
    ASSUME ptr' = ptr
    PROVE  \A s : Holders(s)' = Holders(s)
BY DEF Holders

\* An available slot has no holder and no freer, so handing it out disturbs
\* nothing.
LEMMA AllocatePreserves ==
    ASSUME TableInv, NEW t \in Threads, NEW s \in Sockets, Allocate(t, s)
    PROVE  TableInv'
<1>a. /\ available[s]
      /\ available' = [available EXCEPT ![s] = FALSE]
      /\ UNCHANGED <<freeing, refcount, ptr, fsock, fpc, cv_table>>
  BY DEF Allocate
<1>0. TypeOK
  BY DEF TableInv
<1>1. TypeOK'
  BY <1>0, <1>a DEF TypeOK
<1>2. \A q : Holders(q)' = Holders(q)
  BY <1>a, HoldersUnchanged
<1>3. RefcountExact'
  BY <1>2, <1>a DEF TableInv, RefcountExact
<1>4. NoUseAfterFree'
  <2>1. \A q \in Sockets : BeingDestroyed(q)' <=> BeingDestroyed(q)
    BY <1>a DEF BeingDestroyed
  <2> QED BY <2>1, <1>0, <1>2, <1>a DEF TableInv, NoUseAfterFree, TypeOK
<1>5. OneFreer'
  BY <1>0, <1>a DEF TableInv, OneFreer, TypeOK
<1>6. NoLostWakeup' /\ FreePhaseMatches'
  BY <1>a DEF TableInv, NoLostWakeup, FreePhaseMatches
<1> QED BY <1>1, <1>3, <1>4, <1>5, <1>6 DEF TableInv

\* The waiting loop: the freeing thread falls asleep only while the entry has a
\* holder, and gets past the loop only when it has none.
LEMMA AwaitReferencesSound ==
    ASSUME TableInv, NEW t \in Threads, NEW s \in Sockets,
           AwaitReferences(t, s), UNCHANGED <<refcount, ptr>>,
           fsock' = [fsock EXCEPT ![t] = s]
    PROVE  /\ fpc' \in [Threads -> FreePhases]
           /\ cv_table' \in SUBSET Threads
           /\ fpc'[t] # "none"
           /\ \A u \in Threads \ {t} : fpc'[u] = fpc[u] /\ fsock'[u] = fsock[u]
           /\ fpc'[t] \in {"teardown", "cleared"} => Holders(s) = {}
           /\ t \notin cv_table => NoLostWakeup'
<1>0. TypeOK /\ RefcountExact /\ NoLostWakeup
  BY DEF TableInv
<1>1. fpc' \in [Threads -> FreePhases] /\ cv_table' \in SUBSET Threads /\ fpc'[t] # "none"
  BY <1>0 DEF AwaitReferences, TypeOK, FreePhases
<1>2. \A u \in Threads \ {t} : fpc'[u] = fpc[u] /\ fsock'[u] = fsock[u]
  BY <1>0 DEF AwaitReferences, TypeOK
<1>3. fpc'[t] \in {"teardown", "cleared"} => Holders(s) = {}
  <2>1. fpc'[t] \in {"teardown", "cleared"} => ~(refcount[s] > 0)
    BY <1>0 DEF AwaitReferences, TypeOK
  <2>2. refcount[s] = Cardinality(Holders(s))
    BY <1>0 DEF RefcountExact
  <2> QED BY <2>1, <2>2, HoldersFinite
<1>4. ASSUME t \notin cv_table PROVE NoLostWakeup'
  <2> SUFFICES ASSUME NEW u \in cv_table'
               PROVE  fpc'[u] = "waiting" /\ refcount'[fsock'[u]] > 0
    BY DEF NoLostWakeup
  <2>1. CASE u = t
    BY <2>1, <1>0, <1>4 DEF AwaitReferences, TypeOK
  <2>2. CASE u # t
    BY <2>2, <1>0, <1>2 DEF AwaitReferences, TypeOK, NoLostWakeup
  <2> QED BY <2>1, <2>2
<1> QED BY <1>1, <1>2, <1>3, <1>4

\* Starting to free an entry that is in use makes its caller the only freer.
LEMMA FreeBeginPreserves ==
    ASSUME TableInv, NEW t \in Threads, NEW s \in Sockets,
           MayFree(t, s), FreeBegin(t, s)
    PROVE  TableInv'
<1>a. /\ ~available[s] /\ ~freeing[s] /\ fpc[t] = "none"
      /\ freeing' = [freeing EXCEPT ![s] = TRUE]
      /\ fsock' = [fsock EXCEPT ![t] = s]
      /\ AwaitReferences(t, s)
      /\ UNCHANGED <<available, refcount, ptr>>
  BY DEF FreeBegin, MayFree, InUse
<1>0. TypeOK
  BY DEF TableInv
<1>b. fsock[t] = NULL /\ t \notin cv_table
  BY <1>a DEF TableInv, FreePhaseMatches, NoLostWakeup
<1>c. /\ fpc' \in [Threads -> FreePhases]
      /\ cv_table' \in SUBSET Threads
      /\ fpc'[t] # "none"
      /\ \A u \in Threads \ {t} : fpc'[u] = fpc[u] /\ fsock'[u] = fsock[u]
      /\ fpc'[t] \in {"teardown", "cleared"} => Holders(s) = {}
      /\ NoLostWakeup'
  BY <1>a, <1>b, AwaitReferencesSound
<1>1. TypeOK'
  BY <1>0, <1>a, <1>c DEF TypeOK
<1>2. \A q : Holders(q)' = Holders(q)
  BY <1>a, HoldersUnchanged
<1>3. RefcountExact'
  BY <1>2, <1>a DEF TableInv, RefcountExact
<1>4. NoUseAfterFree'
  <2>1. fsock'[t] = s
    BY <1>0, <1>a DEF TypeOK
  <2>2. \A q \in Sockets \ {s} : BeingDestroyed(q)' => BeingDestroyed(q)
    BY <1>c, <2>1 DEF BeingDestroyed
  <2>3. BeingDestroyed(s)' => BeingDestroyed(s) \/ Holders(s) = {}
    BY <1>c, <2>1 DEF BeingDestroyed
  <2> QED BY <2>2, <2>3, <1>2, <1>a DEF TableInv, NoUseAfterFree
<1>5. OneFreer'
  <2>1. fsock'[t] = s /\ \A u \in Threads \ {t} : fsock'[u] # s
    BY <1>0, <1>a, <1>c DEF TypeOK, TableInv, OneFreer
  <2>2. \A q \in Sockets : freeing'[q] <=> \E u \in Threads : fsock'[u] = q
    <3>1. freeing'[s] <=> \E u \in Threads : fsock'[u] = s
      BY <1>0, <1>a, <2>1 DEF TypeOK
    <3>2. ASSUME NEW q \in Sockets \ {s}
          PROVE  freeing'[q] <=> \E u \in Threads : fsock'[u] = q
      <4>1. freeing'[q] = freeing[q]
        BY <1>0, <1>a DEF TypeOK
      <4>2. \A u \in Threads : fsock'[u] = q <=> fsock[u] = q
        BY <1>b, <1>c, <2>1, NullIsNoSocket
      <4> QED BY <4>1, <4>2 DEF TableInv, OneFreer
    <3> QED BY <3>1, <3>2
  <2>3. \A u, w \in Threads : fsock'[u] # NULL /\ fsock'[u] = fsock'[w] => u = w
    BY <2>1, <1>c DEF TableInv, OneFreer
  <2>4. \A q \in Sockets : freeing'[q] => ~available'[q]
    BY <1>0, <1>a DEF TypeOK, TableInv, OneFreer
  <2> QED BY <2>2, <2>3, <2>4 DEF OneFreer
<1>6. FreePhaseMatches'
  BY <1>0, <1>a, <1>c, NullIsNoSocket DEF TypeOK, TableInv, FreePhaseMatches
<1> QED BY <1>1, <1>3, <1>4, <1>5, <1>6, <1>c DEF TableInv

\* A woken thread tests the count again.
LEMMA FreeWakePreserves ==
    ASSUME TableInv, NEW t \in Threads, FreeWake(t)
    PROVE  TableInv'
<1>0. TypeOK
  BY DEF TableInv
<1>s. PICK s \in Sockets : s = fsock[t]
  BY <1>0 DEF FreeWake, TableInv, FreePhaseMatches, TypeOK
<1>a. /\ fpc[t] = "waiting" /\ t \notin cv_table
      /\ AwaitReferences(t, s)
      /\ UNCHANGED <<available, freeing, refcount, ptr, fsock>>
  BY <1>s DEF FreeWake
<1>b. fsock' = [fsock EXCEPT ![t] = s]
  BY <1>0, <1>a, <1>s DEF TypeOK
<1>c. /\ fpc' \in [Threads -> FreePhases]
      /\ cv_table' \in SUBSET Threads
      /\ fpc'[t] # "none"
      /\ \A u \in Threads \ {t} : fpc'[u] = fpc[u]
      /\ fpc'[t] \in {"teardown", "cleared"} => Holders(s) = {}
      /\ NoLostWakeup'
  BY <1>a, <1>b, AwaitReferencesSound
<1>1. TypeOK'
  BY <1>0, <1>a, <1>c DEF TypeOK
<1>2. \A q : Holders(q)' = Holders(q)
  BY <1>a, HoldersUnchanged
<1>3. RefcountExact'
  BY <1>2, <1>a DEF TableInv, RefcountExact
<1>4. NoUseAfterFree'
  <2>1. \A q \in Sockets \ {s} : BeingDestroyed(q)' => BeingDestroyed(q)
    BY <1>a, <1>c, <1>s DEF BeingDestroyed
  <2>2. BeingDestroyed(s)' => BeingDestroyed(s) \/ Holders(s) = {}
    BY <1>a, <1>c, <1>s DEF BeingDestroyed
  <2> QED BY <2>1, <2>2, <1>2, <1>a DEF TableInv, NoUseAfterFree
<1>5. OneFreer'
  BY <1>a DEF TableInv, OneFreer
<1>6. FreePhaseMatches'
  BY <1>a, <1>c DEF TableInv, FreePhaseMatches
<1> QED BY <1>1, <1>3, <1>4, <1>5, <1>6, <1>c DEF TableInv

\* Destroying the entry's locks and lists changes nothing the table knows of.
LEMMA TeardownPreserves ==
    ASSUME TableInv, NEW t \in Threads, Teardown(t)
    PROVE  TableInv'
<1>a. /\ fpc[t] = "teardown"
      /\ fpc' = [fpc EXCEPT ![t] = "cleared"]
      /\ UNCHANGED <<available, freeing, refcount, ptr, fsock, cv_table>>
  BY DEF Teardown
<1>0. TypeOK
  BY DEF TableInv
<1>1. TypeOK'
  BY <1>0, <1>a DEF TypeOK, FreePhases
<1>2. \A q : Holders(q)' = Holders(q)
  BY <1>a, HoldersUnchanged
<1>3. RefcountExact'
  BY <1>2, <1>a DEF TableInv, RefcountExact
<1>4. NoUseAfterFree'
  <2>1. \A q \in Sockets : BeingDestroyed(q)' => BeingDestroyed(q)
    BY <1>0, <1>a DEF BeingDestroyed, TypeOK
  <2> QED BY <2>1, <1>2, <1>a DEF TableInv, NoUseAfterFree
<1>5. OneFreer'
  BY <1>a DEF TableInv, OneFreer
<1>6. NoLostWakeup' /\ FreePhaseMatches'
  BY <1>0, <1>a DEF TableInv, NoLostWakeup, FreePhaseMatches, TypeOK
<1> QED BY <1>1, <1>3, <1>4, <1>5, <1>6 DEF TableInv

\* The slot that is reset has no holder left, so resetting its count to zero
\* keeps the count exact, and no other thread is freeing it.
LEMMA ReclaimPreserves ==
    ASSUME TableInv, NEW t \in Threads, Reclaim(t)
    PROVE  TableInv'
<1>0. TypeOK
  BY DEF TableInv
<1>s. PICK s \in Sockets : s = fsock[t]
  BY <1>0 DEF Reclaim, TableInv, FreePhaseMatches, TypeOK
<1>a. /\ fpc[t] = "cleared"
      /\ available' = [available EXCEPT ![s] = TRUE]
      /\ freeing' = [freeing EXCEPT ![s] = FALSE]
      /\ refcount' = [refcount EXCEPT ![s] = 0]
      /\ fsock' = [fsock EXCEPT ![t] = NULL]
      /\ fpc' = [fpc EXCEPT ![t] = "none"]
      /\ UNCHANGED <<ptr, cv_table>>
  BY <1>s DEF Reclaim
<1>1. TypeOK'
  BY <1>0, <1>a DEF TypeOK, FreePhases
<1>2. \A q : Holders(q)' = Holders(q)
  BY <1>a, HoldersUnchanged
<1>3. Holders(s) = {}
  BY <1>a, <1>s DEF TableInv, NoUseAfterFree, BeingDestroyed
<1>4. RefcountExact'
  <2>1. refcount'[s] = Cardinality(Holders(s)')
    BY <1>0, <1>2, <1>3, <1>a, HoldersFinite DEF TypeOK
  <2>2. \A q \in Sockets \ {s} : refcount'[q] = Cardinality(Holders(q)')
    BY <1>0, <1>2, <1>a DEF TypeOK, TableInv, RefcountExact
  <2> QED BY <2>1, <2>2 DEF RefcountExact
<1>5. \A u \in Threads \ {t} : fsock'[u] = fsock[u] /\ fpc'[u] = fpc[u] /\ fsock[u] # s
  BY <1>0, <1>a, <1>s, NullIsNoSocket DEF TypeOK, TableInv, OneFreer
<1>6. fsock'[t] = NULL /\ fpc'[t] = "none"
  BY <1>0, <1>a DEF TypeOK
<1>7. NoUseAfterFree'
  <2>1. \A q \in Sockets : BeingDestroyed(q)' => BeingDestroyed(q)
    BY <1>5, <1>6, NullIsNoSocket DEF BeingDestroyed
  <2>2. \A q \in Sockets \ {s} : available'[q] = available[q]
    BY <1>0, <1>a DEF TypeOK
  <2> QED BY <2>1, <2>2, <1>2, <1>3 DEF TableInv, NoUseAfterFree
<1>8. OneFreer'
  <2>1. ASSUME NEW q \in Sockets
        PROVE  freeing'[q] <=> \E u \in Threads : fsock'[u] = q
    <3>1. CASE q = s
      BY <3>1, <1>0, <1>a, <1>5, <1>6, NullIsNoSocket DEF TypeOK
    <3>2. CASE q # s
      <4>1. freeing'[q] = freeing[q]
        BY <3>2, <1>0, <1>a DEF TypeOK
      <4>2. \A u \in Threads : fsock'[u] = q <=> fsock[u] = q
        BY <3>2, <1>s, <1>5, <1>6, NullIsNoSocket
      <4> QED BY <4>1, <4>2 DEF TableInv, OneFreer
    <3> QED BY <3>1, <3>2
  <2>2. \A u, w \in Threads : fsock'[u] # NULL /\ fsock'[u] = fsock'[w] => u = w
    BY <1>5, <1>6 DEF TableInv, OneFreer
  <2>3. \A q \in Sockets : freeing'[q] => ~available'[q]
    BY <1>0, <1>a DEF TypeOK, TableInv, OneFreer
  <2> QED BY <2>1, <2>2, <2>3 DEF OneFreer
<1>9. NoLostWakeup'
  <2> SUFFICES ASSUME NEW u \in cv_table
               PROVE  fpc'[u] = "waiting" /\ refcount'[fsock'[u]] > 0
    BY <1>a DEF NoLostWakeup
  <2>1. u \in Threads \ {t} /\ fpc[u] = "waiting" /\ refcount[fsock[u]] > 0
    BY <1>0, <1>a DEF TypeOK, TableInv, NoLostWakeup
  <2>2. fsock[u] \in Sockets \ {s}
    BY <2>1, <1>0, <1>5 DEF TableInv, FreePhaseMatches, TypeOK
  <2> QED BY <2>1, <2>2, <1>0, <1>5, <1>a DEF TypeOK
<1>10. FreePhaseMatches'
  BY <1>5, <1>6 DEF TableInv, FreePhaseMatches
<1> QED BY <1>1, <1>4, <1>7, <1>8, <1>9, <1>10 DEF TableInv

\* An extra broadcast only wakes threads, which test the count again.
LEMMA BroadcastPreserves ==
    ASSUME TableInv, Broadcast
    PROVE  TableInv'
<1>a. cv_table' = {} /\ UNCHANGED <<available, freeing, refcount, ptr, fsock, fpc>>
  BY DEF Broadcast
<1>1. \A q : Holders(q)' = Holders(q) /\ BeingDestroyed(q)' = BeingDestroyed(q)
  BY <1>a DEF Holders, BeingDestroyed
<1> QED BY <1>a, <1>1 DEF TableInv, TypeOK, RefcountExact, NoUseAfterFree, OneFreer,
                          NoLostWakeup, FreePhaseMatches

-----------------------------------------------------------------------------

\* The inductive invariant holds in every reachable state of the table.
THEOREM TableInvariant == Spec => []TableInv
<1>1. TableInit => TableInv
  <2> SUFFICES ASSUME TableInit PROVE TableInv
    OBVIOUS
  <2>1. TypeOK
    BY DEF TableInit, TypeOK, FreePhases
  <2>2. \A s \in Sockets : Holders(s) = {}
    BY NullIsNoSocket DEF TableInit, Holders
  <2>3. RefcountExact
    BY <2>2, HoldersFinite DEF TableInit, RefcountExact
  <2>4. NoUseAfterFree /\ NoLostWakeup
    BY <2>2 DEF TableInit, NoUseAfterFree, NoLostWakeup
  <2>5. OneFreer /\ FreePhaseMatches
    BY NullIsNoSocket DEF TableInit, OneFreer, FreePhaseMatches
  <2> QED BY <2>1, <2>3, <2>4, <2>5 DEF TableInv
<1>2. TableInv /\ [Next]_tableVars => TableInv'
  <2> SUFFICES ASSUME TableInv, [Next]_tableVars PROVE TableInv'
    OBVIOUS
  <2>1. ASSUME NEW t \in Threads, NEW s \in Sockets, Allocate(t, s) PROVE TableInv'
    BY <2>1, AllocatePreserves
  <2>2. ASSUME NEW t \in Threads, NEW v \in Locals, NEW s \in Sockets, Acquire(t, v, s)
        PROVE  TableInv'
    BY <2>2, AcquirePreserves
  <2>3. ASSUME NEW t \in Threads, NEW s \in Sockets, MayFree(t, s), FreeBegin(t, s)
        PROVE  TableInv'
    BY <2>3, FreeBeginPreserves
  <2>4. ASSUME NEW t \in Threads, NEW v \in Locals, Release(t, v) PROVE TableInv'
    BY <2>4, ReleasePreserves
  <2>5. ASSUME NEW t \in Threads, FreeSteps(t) PROVE TableInv'
    BY <2>5, FreeWakePreserves, TeardownPreserves, ReclaimPreserves DEF FreeSteps
  <2>b. CASE Broadcast
    BY <2>b, BroadcastPreserves
  <2>6. CASE UNCHANGED tableVars
    <3>1. \A q : Holders(q)' = Holders(q) /\ BeingDestroyed(q)' = BeingDestroyed(q)
      BY <2>6 DEF tableVars, Holders, BeingDestroyed
    <3> QED BY <2>6, <3>1 DEF tableVars, TableInv, TypeOK, RefcountExact, NoUseAfterFree,
                              OneFreer, NoLostWakeup, FreePhaseMatches
  <2> QED BY <2>1, <2>2, <2>3, <2>4, <2>5, <2>b, <2>6 DEF Next
<1> QED BY <1>1, <1>2, PTL DEF Spec

\* Every variable of the table keeps its type.
THEOREM TypeCorrect == Spec => []TypeOK
<1>1. TableInv => TypeOK
  BY DEF TableInv
<1> QED BY <1>1, TableInvariant, PTL

\* The reference count of every entry is exactly the number of pointers to it
\* that threads hold, so chitcpd_release_socket's assertion cannot fail.
THEOREM RefcountCorrect == Spec => []RefcountExact
<1>1. TableInv => RefcountExact
  BY DEF TableInv
<1> QED BY <1>1, TableInvariant, PTL

\* No thread holds a pointer to an entry that is being destroyed or is
\* available for another socket: the promise of chisocketentry_t.refcount.
THEOREM FreedEntriesUnused == Spec => []NoUseAfterFree
<1>1. TableInv => NoUseAfterFree
  BY DEF TableInv
<1> QED BY <1>1, TableInvariant, PTL

\* chitcpd_free_socket_entry has one caller at a time for an entry, and never
\* sleeps on a condition that already holds.
THEOREM FreeIsExclusive == Spec => [](OneFreer /\ NoLostWakeup)
<1>1. TableInv => OneFreer /\ NoLostWakeup
  BY DEF TableInv
<1> QED BY <1>1, TableInvariant, PTL

\* A socket that is being freed is not returned by any lookup: no step adds a
\* holder to an entry that is marked freeing.
THEOREM FreeingNotReturned == Spec => NoNewReferences
<1> DEFINE Shrinks == \A s \in Sockets :
                 freeing[s] => {p \in Pointers : ptr'[p] = s} \subseteq Holders(s)
<1>1. TypeOK /\ [Next]_tableVars => [Shrinks]_tableVars
  <2> SUFFICES ASSUME TypeOK, Next PROVE Shrinks
    OBVIOUS
  <2>1. CASE ptr' = ptr
    BY <2>1 DEF Holders
  <2>2. ASSUME NEW t \in Threads, NEW v \in Locals, NEW s \in Sockets, Acquire(t, v, s)
        PROVE  Shrinks
    BY <2>2 DEF Acquire, InUse, Holders, TypeOK
  <2>3. ASSUME NEW t \in Threads, NEW v \in Locals, Release(t, v)
        PROVE  Shrinks
    <3>1. ptr' = [ptr EXCEPT ![<<t, v>>] = NULL]
      BY <2>3 DEF Release
    <3> QED BY <3>1, NullIsNoSocket DEF Holders, TypeOK
  <2>4. Next => \/ ptr' = ptr
                \/ \E t \in Threads : \E v \in Locals : \E s \in Sockets : Acquire(t, v, s)
                \/ \E t \in Threads : \E v \in Locals : Release(t, v)
    BY DEF Next, FreeSteps, Allocate, FreeBegin, FreeWake, Teardown, Reclaim, Broadcast
  <2> QED BY <2>1, <2>2, <2>3, <2>4
<1> QED BY <1>1, TypeCorrect, PTL DEF Spec, NoNewReferences
=============================================================================
