----------------------------- MODULE Locks_proofs -----------------------------
(***************************************************************************)
(* Proofs about Locks: however the commands meet, no threads wait for each *)
(* other in a circle, for any number of threads.                           *)
(***************************************************************************)
EXTENDS Locks, SequenceTheorems, FiniteSetTheorems, TLAPS

LEMMA WantedShared ==
  ASSUME NEW e
  PROVE  /\ Wanted(e).shared \in BOOLEAN
         /\ Wanted(e).file \in Paths \cup {Source} => ~Wanted(e).shared
  BY DEF Wanted, Paths, Source, Maintenance

LEMMA NamespaceIsNat ==
  ASSUME NEW paths \in SUBSET Paths
  PROVE  Cardinality(paths) \in Nat
<1>1. IsFiniteSet({"config"} \cup {"owner"}) /\ IsFiniteSet({"creation"} \cup {"record"})
  BY FS_Singleton, FS_Union
<1>2. IsFiniteSet(Paths)
  <2>1. Paths = ({"config"} \cup {"owner"}) \cup ({"creation"} \cup {"record"})
    BY DEF Paths
  <2> QED
    BY <1>1, <2>1, FS_Union
<1> QED
  BY <1>2, FS_Subset, FS_CardinalityType

\* The entry a thread is at.
LEMMA NextEntry ==
  ASSUME RoutinesOrdered, LocksInv, NEW t \in Threads, todo[t] # <<>>
  PROVE  /\ routine[t] \in DOMAIN Routines
         /\ \E k \in 1 .. Len(Routines[routine[t]]) :
              LET entries == Routines[routine[t]]
              IN /\ At(t, k)
                 /\ Head(todo[t]) = entries[k]
                 /\ Tail(todo[t]) = SubSeq(entries, k + 1, Len(entries))
                 /\ Len(todo[t]) = Len(entries) - k + 1
<1> DEFINE entries == Routines[routine[t]]
<1>1. routine[t] # Idle /\ routine[t] \in DOMAIN Routines
  BY DEF LocksInv, ThreadsOK, Placed
<1>2. entries \in Seq(STRING) /\ Len(entries) \in Nat
  BY <1>1, LenProperties DEF RoutinesOrdered
<1>3. PICK k \in 1 .. Len(entries) + 1 : At(t, k)
  BY <1>1 DEF LocksInv, Placed
<1>4. todo[t] = SubSeq(entries, k, Len(entries))
  BY <1>3 DEF At
<1>5. k # Len(entries) + 1
  BY <1>2, <1>4, SubSeqEmpty
<1>6. k \in 1 .. Len(entries)
  BY <1>2, <1>5
<1>7. Head(todo[t]) = entries[k] /\ Tail(todo[t]) = SubSeq(entries, k + 1, Len(entries))
  BY <1>2, <1>4, <1>6, HeadTailOfSubSeq
<1>8. Len(todo[t]) = Len(entries) - k + 1
  BY <1>2, <1>4, <1>6, SubSeqProperties, ElementOfSeq
<1> QED
  BY <1>1, <1>3, <1>6, <1>7, <1>8

\* What the scopes of a thread and their shapes say of a lock is the same.
LEMMA AgainHere ==
  ASSUME NEW t \in Threads, NEW want, NEW shapes \in Seq(Shapes), Matches(stack[t], shapes),
         stack[t] \in Seq(Scopes)
  PROVE  Again(shapes, want) <=>
           /\ want.file \notin Accounts
           /\ \E scope \in Taken(t) : scope.file = want.file /\ ~scope.shared
<1>1. DOMAIN stack[t] = DOMAIN shapes
  BY LenProperties DEF Matches
<1> QED
  BY <1>1 DEF Again, Taken, In, Matches

\* Who is in the source lock or a private path has it for himself, and who has
\* maintenance for himself has the source lock.
LEMMA ScopesOfRoutine ==
  ASSUME RoutinesOrdered, LocksInv, NEW t \in Threads, todo[t] # <<>>, NEW s \in Taken(t)
  PROVE  /\ s.file \in Paths \cup {Source} => ~s.shared
         /\ s.file = Maintenance /\ ~s.shared => Holds(t, Source)
<1> DEFINE shapes == Opened[routine[t]]
<1>1. PICK k \in 1 .. Len(Routines[routine[t]]) : At(t, k) /\ routine[t] \in DOMAIN Routines
  BY NextEntry
<1>2. ShapesOK(shapes[k])
  BY <1>1 DEF RoutinesOrdered
<1>3. stack[t] \in Seq(Scopes) /\ Matches(stack[t], shapes[k]) /\ shapes[k] \in Seq(Shapes)
  BY <1>1, <1>2 DEF LocksInv, ThreadsOK, At, ShapesOK
<1>4. DOMAIN stack[t] = DOMAIN shapes[k]
  BY <1>3, LenProperties DEF Matches
<1>5. PICK i \in DOMAIN stack[t] : s = stack[t][i] /\ s.taken
  BY DEF Taken, In
<1> QED
  BY <1>2, <1>3, <1>4, <1>5 DEF ShapesOK, Matches, Holds, Taken, In

\* The scopes after one more.
LEMMA AppendMatches ==
  ASSUME NEW scopes \in Seq(Scopes), NEW shapes \in Seq(Shapes), Matches(scopes, shapes),
         NEW scope \in Scopes, NEW shape \in Shapes,
         scope.file = shape.file, scope.shared = shape.shared, scope.taken = shape.taken
  PROVE  Matches(Append(scopes, scope), Append(shapes, shape))
<1>1. /\ DOMAIN Append(scopes, scope) = 1 .. Len(scopes) + 1
      /\ Len(Append(scopes, scope)) = Len(scopes) + 1
      /\ Len(Append(shapes, shape)) = Len(shapes) + 1
  BY AppendProperties, LenProperties
<1>2. Len(scopes) = Len(shapes) /\ Len(scopes) \in Nat /\ DOMAIN scopes = 1 .. Len(scopes)
  BY LenProperties DEF Matches
<1>3. ASSUME NEW i \in 1 .. Len(scopes) + 1
      PROVE  /\ Append(scopes, scope)[i].file = Append(shapes, shape)[i].file
             /\ Append(scopes, scope)[i].shared = Append(shapes, shape)[i].shared
             /\ Append(scopes, scope)[i].taken = Append(shapes, shape)[i].taken
  <2>1. CASE i = Len(scopes) + 1
    BY <1>2, <2>1, AppendProperties
  <2>2. CASE i \in 1 .. Len(scopes)
    BY <1>2, <2>2, AppendProperties DEF Matches
  <2> QED
    BY <1>2, <1>3, <2>1, <2>2
<1> QED
  BY <1>1, <1>2, <1>3 DEF Matches

\* ... and after one less.
LEMMA FrontMatches ==
  ASSUME NEW scopes \in Seq(Scopes), NEW shapes \in Seq(Shapes), Matches(scopes, shapes),
         shapes # <<>>
  PROVE  /\ Front(scopes) \in Seq(Scopes)
         /\ Matches(Front(scopes), Front(shapes))
         /\ \A i \in DOMAIN Front(scopes) : i \in DOMAIN scopes /\ Front(scopes)[i] = scopes[i]
<1>1. Len(scopes) = Len(shapes) /\ Len(scopes) \in Nat /\ Len(scopes) # 0 /\ DOMAIN scopes = 1 .. Len(scopes)
  BY LenProperties, EmptySeq DEF Matches
<1>2. /\ Front(scopes) \in Seq(Scopes) /\ Len(Front(scopes)) = Len(scopes) - 1
      /\ \A i \in 1 .. Len(scopes) - 1 : Front(scopes)[i] = scopes[i]
  BY <1>1, SubSeqProperties, ElementOfSeq DEF Front
<1>3. /\ Len(Front(shapes)) = Len(scopes) - 1
      /\ \A i \in 1 .. Len(scopes) - 1 : Front(shapes)[i] = shapes[i]
  BY <1>1, SubSeqProperties, ElementOfSeq DEF Front
<1>4. DOMAIN Front(scopes) = 1 .. Len(scopes) - 1
  BY <1>2, LenProperties
<1>5. \A i \in DOMAIN Front(scopes) :
        i \in DOMAIN scopes /\ Front(scopes)[i] = scopes[i] /\ Front(shapes)[i] = shapes[i]
  BY <1>1, <1>2, <1>3, <1>4
<1>6. \A i \in DOMAIN scopes : /\ scopes[i].file = shapes[i].file
                               /\ scopes[i].shared = shapes[i].shared
                               /\ scopes[i].taken = shapes[i].taken
  BY DEF Matches
<1>7. Matches(Front(scopes), Front(shapes))
  BY <1>2, <1>3, <1>5, <1>6 DEF Matches
<1> QED
  BY <1>2, <1>5, <1>7

-----------------------------------------------------------------------------
(* The steps of a thread *)

\* A thread enters the next scope; others of its scopes may get new times.
LEMMA EntersNext ==
  ASSUME RoutinesOrdered, LocksInv, NEW t \in Threads, todo[t] # <<>>, Head(todo[t]) # Leave,
         NEW base \in Seq(Scopes), Matches(base, stack[t]), NEW scope \in Scopes,
         LET want == Wanted(Head(todo[t]))
         IN /\ scope.file = want.file /\ scope.shared = want.shared
            /\ scope.taken <=> ~ /\ want.file \notin Accounts
                                 /\ \E s \in Taken(t) : s.file = want.file /\ ~s.shared,
         stack'[t] = Append(base, scope), todo'[t] = Tail(todo[t]), routine'[t] = routine[t]
  PROVE  Placed(t)' /\ stack'[t] \in Seq(Scopes) /\ todo'[t] \in Seq(STRING)
<1> DEFINE entries == Routines[routine[t]]
           shapes  == Opened[routine[t]]
           want    == Wanted(Head(todo[t]))
           shape   == [file |-> want.file, shared |-> want.shared, taken |-> scope.taken]
<1>1. PICK k \in 1 .. Len(entries) :
        /\ At(t, k) /\ Head(todo[t]) = entries[k] /\ routine[t] \in DOMAIN Routines
        /\ Tail(todo[t]) = SubSeq(entries, k + 1, Len(entries))
  BY NextEntry
<1>2. /\ ShapesOK(shapes[k]) /\ shapes[k + 1] = Entered(shapes[k], want)
      /\ want.file \in Files /\ want.shared \in BOOLEAN
      /\ entries \in Seq(STRING) /\ routine[t] # Idle
  BY <1>1, WantedShared DEF RoutinesOrdered
<1>3. stack[t] \in Seq(Scopes) /\ Matches(stack[t], shapes[k]) /\ shapes[k] \in Seq(Shapes)
  BY <1>1, <1>2 DEF LocksInv, ThreadsOK, At, ShapesOK
<1>4. scope.taken = ~Again(shapes[k], want)
  <2>1. Again(shapes[k], want) <=> /\ want.file \notin Accounts
                                   /\ \E s \in Taken(t) : s.file = want.file /\ ~s.shared
    BY <1>3, AgainHere
  <2>2. scope.taken \in BOOLEAN /\ Again(shapes[k], want) \in BOOLEAN
    BY DEF Scopes, Again
  <2> QED
    BY <2>1, <2>2
<1>5. shapes[k + 1] = Append(shapes[k], shape)
  BY <1>2, <1>4 DEF Entered
<1>6. shape \in Shapes
  BY <1>2 DEF Shapes, Scopes
<1>7. Matches(base, shapes[k])
  <2>1. DOMAIN base = DOMAIN stack[t]
    BY <1>3, LenProperties DEF Matches
  <2> QED
    BY <1>3, <2>1 DEF Matches
<1>8. Matches(stack'[t], shapes[k + 1])
  BY <1>3, <1>5, <1>6, <1>7, AppendMatches
<1>9. k + 1 \in 1 .. Len(entries) + 1
  BY <1>1, <1>2, LenProperties
<1>10. At(t, k + 1)'
  BY <1>1, <1>8 DEF At
<1>11. Placed(t)'
  BY <1>2, <1>9, <1>10 DEF Placed
<1>12. stack'[t] \in Seq(Scopes)
  BY AppendProperties
<1>13. todo'[t] \in Seq(STRING)
  BY HeadTailProperties DEF LocksInv, ThreadsOK
<1> QED
  BY <1>11, <1>12, <1>13

\* It leaves the innermost, and with the last one the routine.
LEMMA LeavesLast ==
  ASSUME RoutinesOrdered, LocksInv, NEW t \in Threads, todo[t] # <<>>, Head(todo[t]) = Leave,
         request[t] = Nothing, request'[t] = Nothing,
         stack'[t] = Front(stack[t]), todo'[t] = Tail(todo[t]),
         routine'[t] = IF Len(todo[t]) = 1 THEN Idle ELSE routine[t]
  PROVE  /\ Placed(t)' /\ stack'[t] \in Seq(Scopes) /\ todo'[t] \in Seq(STRING)
         /\ Taken(t)' \subseteq Taken(t)
<1> DEFINE entries == Routines[routine[t]]
           shapes  == Opened[routine[t]]
<1>1. PICK k \in 1 .. Len(entries) :
        /\ At(t, k) /\ Head(todo[t]) = entries[k] /\ routine[t] \in DOMAIN Routines
        /\ Tail(todo[t]) = SubSeq(entries, k + 1, Len(entries))
        /\ Len(todo[t]) = Len(entries) - k + 1
  BY NextEntry
<1>2. /\ ShapesOK(shapes[k]) /\ shapes[k] # <<>> /\ shapes[k + 1] = Front(shapes[k])
      /\ shapes[Len(entries) + 1] = <<>>
      /\ entries \in Seq(STRING) /\ routine[t] # Idle
  BY <1>1 DEF RoutinesOrdered
<1>3. stack[t] \in Seq(Scopes) /\ Matches(stack[t], shapes[k]) /\ shapes[k] \in Seq(Shapes)
  BY <1>1, <1>2 DEF LocksInv, ThreadsOK, At, ShapesOK
<1>4. stack'[t] \in Seq(Scopes) /\ Matches(stack'[t], shapes[k + 1])
  BY <1>2, <1>3, FrontMatches
<1>5. Taken(t)' \subseteq Taken(t)
  BY <1>2, <1>3, FrontMatches DEF Taken, In
<1>6. todo'[t] \in Seq(STRING)
  BY HeadTailProperties DEF LocksInv, ThreadsOK
<1>7. Len(entries) \in Nat /\ Len(todo[t]) = Len(entries) - k + 1
  BY <1>1, <1>2, LenProperties
<1>8. CASE Len(todo[t]) = 1
  <2>1. k = Len(entries)
    <3>1. \A n \in Nat : \A i \in 1 .. n : n - i + 1 = 1 => i = n
      OBVIOUS
    <3> QED
      BY <1>7, <1>8, <3>1
  <2>2. todo'[t] = <<>>
    BY <1>1, <1>7, <2>1, SubSeqEmpty
  <2>3. Len(stack'[t]) = 0
    BY <1>2, <1>4, <2>1, EmptySeq DEF Matches
  <2>4. stack'[t] = <<>>
    BY <1>4, <2>3, EmptySeq
  <2> QED
    BY <1>4, <1>5, <1>6, <1>8, <2>2, <2>4 DEF Placed
<1>9. CASE Len(todo[t]) # 1
  <2>1. At(t, k + 1)'
    BY <1>1, <1>4, <1>9 DEF At
  <2>2. k + 1 \in 1 .. Len(entries) + 1
    BY <1>1, <1>7
  <2> QED
    BY <1>2, <1>4, <1>5, <1>6, <1>9, <2>1, <2>2 DEF Placed
<1> QED
  BY <1>8, <1>9

\* It starts a routine.
LEMMA StartsFirst ==
  ASSUME RoutinesOrdered, LocksInv, NEW t \in Threads, NEW r \in DOMAIN Routines,
         routine[t] = Idle, routine'[t] = r, todo'[t] = Routines[r], stack'[t] = stack[t]
  PROVE  Placed(t)' /\ todo'[t] \in Seq(STRING)
<1>1. /\ stack[t] = <<>> /\ r # Idle /\ Routines[r] \in Seq(STRING)
      /\ Opened[r][1] = <<>>
  BY DEF LocksInv, Placed, RoutinesOrdered
<1>2. Matches(<<>>, <<>>)
  BY DEF Matches
<1>3. At(t, 1)'
  BY <1>1, <1>2, SubSeqFull DEF At
<1>4. 1 \in 1 .. Len(Routines[r]) + 1
  BY <1>1, LenProperties
<1> QED
  BY <1>1, <1>3, <1>4 DEF Placed

\* What one thread does leaves the others as they are.
LEMMA OthersStay ==
  ASSUME LocksInv, NEW t \in Threads, ThreadsOK', Placed(t)', RequestIsNext(t)',
         \A u \in Threads \ {t} : /\ routine'[u] = routine[u] /\ todo'[u] = todo[u]
                                  /\ stack'[u] = stack[u] /\ request'[u] = request[u],
         \A a \in Taken(t)' :
           \/ \E b \in Taken(t) : b.file = a.file /\ b.shared = a.shared
           \/ \A u \in Threads \ {t} : \A c \in Taken(u) : c.file = a.file => a.shared /\ c.shared
  PROVE  LocksInv'
<1>1. ASSUME NEW u \in Threads \ {t}
      PROVE  /\ Taken(u)' = Taken(u) /\ Placed(u)' /\ RequestIsNext(u)'
  <2>1. Taken(u)' = Taken(u)
    BY DEF Taken, In
  <2>2. \A k : At(u, k)' <=> At(u, k)
    BY DEF At
  <2>3. Placed(u)'
    BY <2>2 DEF Placed, LocksInv
  <2>4. \A file : Holds(u, file)' <=> Holds(u, file)
    BY <2>1 DEF Holds
  <2>5. RequestIsNext(u)'
    BY <2>4 DEF RequestIsNext, LocksInv
  <2> QED
    BY <2>1, <2>3, <2>5
<1>2. ASSUME NEW u \in Threads \ {t}, NEW a \in Taken(t)', NEW c \in Taken(u)', a.file = c.file
      PROVE  a.shared /\ c.shared
  <2>1. c \in Taken(u)
    BY <1>1, <1>2
  <2>2. CASE \E b \in Taken(t) : b.file = a.file /\ b.shared = a.shared
    BY <1>2, <2>1, <2>2 DEF LocksInv, Exclusion
  <2> QED
    BY <1>2, <2>1, <2>2
<1>3. ASSUME NEW u \in Threads \ {t}, NEW w \in Threads \ {t}, u # w,
             NEW a \in Taken(u)', NEW c \in Taken(w)', a.file = c.file
      PROVE  a.shared /\ c.shared
  BY <1>1, <1>3 DEF LocksInv, Exclusion
<1>4. Exclusion'
  BY <1>2, <1>3 DEF Exclusion
<1> QED
  BY <1>1, <1>4 DEF LocksInv

\* The locks it has then.
LEMMA TakenAfter ==
  ASSUME NEW t \in Threads, NEW base \in Seq(Scopes), NEW scope \in Scopes,
         stack'[t] = Append(base, scope), NEW a \in Taken(t)'
  PROVE  (\E i \in DOMAIN base : a = base[i] /\ a.taken) \/ (a = scope /\ scope.taken)
<1>1. PICK i \in DOMAIN Append(base, scope) : a = Append(base, scope)[i] /\ a.taken
  BY DEF Taken, In
<1>2. i \in 1 .. Len(base) + 1 /\ Len(base) \in Nat /\ DOMAIN base = 1 .. Len(base)
  BY AppendProperties, LenProperties
<1>3. CASE i = Len(base) + 1
  BY <1>1, <1>3, AppendProperties
<1>4. CASE i \in 1 .. Len(base)
  BY <1>1, <1>2, <1>4, AppendProperties
<1> QED
  BY <1>2, <1>3, <1>4

LEMMA MatchesItself ==
  ASSUME NEW scopes
  PROVE  Matches(scopes, scopes)
  BY DEF Matches

LEMMA FailPreserves ==
  ASSUME LocksInv, NEW t \in Threads, Fail(t), UNCHANGED known
  PROVE  LocksInv'
<1>1. /\ routine' = [routine EXCEPT ![t] = Idle] /\ todo' = [todo EXCEPT ![t] = <<>>]
      /\ stack' = [stack EXCEPT ![t] = <<>>] /\ request' = [request EXCEPT ![t] = Nothing]
  BY DEF Fail
<1>2. ThreadsOK'
  BY <1>1, EmptySeq DEF LocksInv, ThreadsOK
<1>3. routine'[t] = Idle /\ todo'[t] = <<>> /\ stack'[t] = <<>> /\ request'[t] = Nothing
  BY <1>1 DEF LocksInv, ThreadsOK
<1>4. Placed(t)' /\ RequestIsNext(t)'
  BY <1>3 DEF Placed, RequestIsNext
<1>5. Taken(t)' = {}
  BY <1>3 DEF Taken, In
<1>6. \A u \in Threads \ {t} : /\ routine'[u] = routine[u] /\ todo'[u] = todo[u]
                               /\ stack'[u] = stack[u] /\ request'[u] = request[u]
  BY <1>1 DEF LocksInv, ThreadsOK
<1> QED
  BY <1>2, <1>4, <1>5, <1>6, OthersStay

\* A scope of a lock that the thread has, or of one that nobody else has.
LEMMA PushPreserves ==
  ASSUME RoutinesOrdered, LocksInv, NEW t \in Threads, Coming(t),
         LET want == Wanted(Head(todo[t])) IN want.file \in Files,
         NEW taken \in BOOLEAN, NEW seen \in Nat,
         LET want == Wanted(Head(todo[t]))
         IN /\ Push(t, want.file, want.shared, taken, seen)
            /\ taken <=> ~ /\ want.file \notin Accounts
                           /\ \E s \in Taken(t) : s.file = want.file /\ ~s.shared
            /\ taken => \A u \in Threads \ {t} : \A c \in Taken(u) :
                          c.file = want.file => want.shared /\ c.shared,
         UNCHANGED <<routine, request, known>>
  PROVE  LocksInv'
<1> DEFINE want  == Wanted(Head(todo[t]))
           scope == [file |-> want.file, shared |-> want.shared, taken |-> taken, seen |-> seen]
<1>1. scope \in Scopes
  BY WantedShared DEF Scopes
<1>2. stack[t] \in Seq(Scopes) /\ Matches(stack[t], stack[t])
  BY MatchesItself DEF LocksInv, ThreadsOK
<1>3. /\ stack' = [stack EXCEPT ![t] = Append(stack[t], scope)]
      /\ todo' = [todo EXCEPT ![t] = Tail(todo[t])]
  BY DEF Push
<1>4. /\ stack'[t] = Append(stack[t], scope) /\ todo'[t] = Tail(todo[t])
      /\ routine'[t] = routine[t] /\ request'[t] = Nothing
      /\ \A u \in Threads \ {t} : /\ routine'[u] = routine[u] /\ todo'[u] = todo[u]
                                  /\ stack'[u] = stack[u] /\ request'[u] = request[u]
  BY <1>3 DEF LocksInv, ThreadsOK, Coming
<1>5. todo[t] # <<>> /\ Head(todo[t]) # Leave
  BY DEF Coming
<1>6. Placed(t)' /\ stack'[t] \in Seq(Scopes) /\ todo'[t] \in Seq(STRING)
  <2> HIDE DEF scope
  <2>1. scope.file = want.file /\ scope.shared = want.shared /\ scope.taken = taken
    BY DEF scope
  <2> QED
    BY <1>1, <1>2, <1>4, <1>5, <2>1, EntersNext
<1>7. ThreadsOK'
  BY <1>3, <1>4, <1>6 DEF LocksInv, ThreadsOK
<1>8. RequestIsNext(t)'
  BY <1>4 DEF RequestIsNext
<1>9. ASSUME NEW a \in Taken(t)'
      PROVE  \/ \E b \in Taken(t) : b.file = a.file /\ b.shared = a.shared
             \/ \A u \in Threads \ {t} : \A c \in Taken(u) : c.file = a.file => a.shared /\ c.shared
  <2>1. CASE \E i \in DOMAIN stack[t] : a = stack[t][i] /\ a.taken
    BY <2>1 DEF Taken, In
  <2>2. CASE a = scope /\ scope.taken
    BY <2>2
  <2> QED
    BY <1>1, <1>2, <1>4, <2>1, <2>2, TakenAfter
<1> QED
  BY <1>4, <1>6, <1>7, <1>8, <1>9, OthersStay

\* A private path is taken: the paths that the thread is in may get new times.
LEMMA PathPreserves ==
  ASSUME RoutinesOrdered, LocksInv, NEW t \in Threads, request[t] # Nothing, ~Blocked(t),
         todo' = [todo EXCEPT ![t] = Tail(@)],
         stack' = [stack EXCEPT ![t] = Append(
             [i \in DOMAIN @ |-> IF request[t].made /\ @[i].file \in Paths /\ @[i].taken
                                 THEN [@[i] EXCEPT !.seen = request[t].seen] ELSE @[i]],
             [file |-> request[t].file, shared |-> FALSE, taken |-> TRUE, seen |-> request[t].seen])],
         request' = [request EXCEPT ![t] = Nothing], UNCHANGED <<routine, known>>
  PROVE  LocksInv'
<1> DEFINE want  == Wanted(Head(todo[t]))
           scope == [file |-> request[t].file, shared |-> FALSE, taken |-> TRUE, seen |-> request[t].seen]
           Dated(s) == IF request[t].made /\ s.file \in Paths /\ s.taken
                       THEN [s EXCEPT !.seen = request[t].seen] ELSE s
           base  == [i \in DOMAIN stack[t] |-> Dated(stack[t][i])]
<1>1. /\ request[t] \in Requests /\ todo[t] # <<>> /\ Head(todo[t]) # Leave
      /\ want.file = request[t].file /\ ~Holds(t, request[t].file)
  BY DEF LocksInv, ThreadsOK, RequestIsNext
<1>2. want.file \in Paths /\ request[t].seen \in Nat /\ want.shared = FALSE
  BY <1>1, WantedShared DEF Requests
<1>3. scope \in Scopes
  BY <1>1, <1>2 DEF Scopes, Files
<1>4. stack[t] \in Seq(Scopes) /\ DOMAIN stack[t] = 1 .. Len(stack[t]) /\ Len(stack[t]) \in Nat
  BY LenProperties DEF LocksInv, ThreadsOK
<1>5. ASSUME NEW s \in Scopes
      PROVE  /\ Dated(s) \in Scopes /\ Dated(s).file = s.file /\ Dated(s).shared = s.shared
             /\ Dated(s).taken = s.taken
  BY <1>2 DEF Scopes
<1>6. \A i \in DOMAIN stack[t] : stack[t][i] \in Scopes
  BY <1>4, ElementOfSeq
<1>7. base \in Seq(Scopes) /\ Len(base) = Len(stack[t]) /\ DOMAIN base = DOMAIN stack[t]
  <2> HIDE DEF Dated
  <2>1. \A i \in 1 .. Len(stack[t]) : Dated(stack[t][i]) \in Scopes
    BY <1>4, <1>5, <1>6
  <2> QED
    BY <1>4, <2>1
<1>8. Matches(base, stack[t])
  <2> HIDE DEF Dated
  <2> QED
    BY <1>5, <1>6, <1>7 DEF Matches
<1>9. /\ stack'[t] = Append(base, scope) /\ todo'[t] = Tail(todo[t])
      /\ routine'[t] = routine[t] /\ request'[t] = Nothing
      /\ \A u \in Threads \ {t} : /\ routine'[u] = routine[u] /\ todo'[u] = todo[u]
                                  /\ stack'[u] = stack[u] /\ request'[u] = request[u]
  BY DEF LocksInv, ThreadsOK
<1> HIDE DEF base
<1>10. Placed(t)' /\ stack'[t] \in Seq(Scopes) /\ todo'[t] \in Seq(STRING)
  <2>1. \A s \in Taken(t) : s.file # want.file
    BY <1>1 DEF Holds
  <2>2. scope.file = want.file /\ scope.shared = want.shared /\ scope.taken = TRUE
    BY <1>1, <1>2
  <2> HIDE DEF scope
  <2> QED
    BY <1>1, <1>3, <1>7, <1>8, <1>9, <2>1, <2>2, EntersNext
<1>11. ThreadsOK'
  BY <1>9, <1>10 DEF LocksInv, ThreadsOK
<1>12. RequestIsNext(t)'
  BY <1>9 DEF RequestIsNext
<1>13. ASSUME NEW a \in Taken(t)'
       PROVE  \/ \E b \in Taken(t) : b.file = a.file /\ b.shared = a.shared
              \/ \A u \in Threads \ {t} : \A c \in Taken(u) : c.file = a.file => a.shared /\ c.shared
  <2>1. ASSUME NEW i \in DOMAIN base, a = base[i], a.taken
        PROVE  \E b \in Taken(t) : b.file = a.file /\ b.shared = a.shared
    <3>1. a = Dated(stack[t][i]) /\ i \in DOMAIN stack[t]
      BY <1>7, <2>1 DEF base
    <3>2. stack[t][i] \in Taken(t) /\ stack[t][i].file = a.file /\ stack[t][i].shared = a.shared
      <4> HIDE DEF Dated
      <4> QED
        BY <1>5, <1>6, <2>1, <3>1 DEF Taken, In
    <3> QED
      BY <3>2
  <2>2. CASE a = scope
    <3>1. \A u \in Threads : \A c \in Taken(u) : c.file # want.file
      BY <1>1, <1>2 DEF Blocked, Blocks, Waits
    <3> QED
      BY <1>1, <2>2, <3>1
  <2> HIDE DEF scope
  <2>3. (\E i \in DOMAIN base : a = base[i] /\ a.taken) \/ (a = scope /\ scope.taken)
    BY <1>3, <1>7, <1>9, TakenAfter
  <2> QED
    BY <2>1, <2>2, <2>3
<1> QED
  BY <1>9, <1>10, <1>11, <1>12, <1>13, OthersStay

-----------------------------------------------------------------------------
(* The invariant *)

LEMMA LocksInvInit == Init => LocksInv
<1> SUFFICES ASSUME Init PROVE LocksInv
  OBVIOUS
<1>1. ThreadsOK
  BY EmptySeq DEF Init, ThreadsOK
<1>2. \A t \in Threads : Placed(t) /\ RequestIsNext(t) /\ Taken(t) = {}
  BY DEF Init, Placed, RequestIsNext, Taken, In
<1> QED
  BY <1>1, <1>2 DEF LocksInv, Exclusion

LEMMA LocksInvPreserved ==
  ASSUME RoutinesOrdered, LocksInv, [Next]_lockVars
  PROVE  LocksInv'
<1>1. ASSUME NEW t \in Threads, Start(t)
      PROVE  LocksInv'
  <2>1. PICK r \in DOMAIN Routines :
          routine' = [routine EXCEPT ![t] = r] /\ todo' = [todo EXCEPT ![t] = Routines[r]]
    BY <1>1 DEF Start
  <2>2. /\ routine[t] = Idle /\ request[t] = Nothing /\ UNCHANGED <<stack, request, known>>
        /\ routine'[t] = r /\ todo'[t] = Routines[r]
        /\ \A u \in Threads \ {t} : /\ routine'[u] = routine[u] /\ todo'[u] = todo[u]
                                    /\ stack'[u] = stack[u] /\ request'[u] = request[u]
    BY <1>1, <2>1 DEF Start, LocksInv, ThreadsOK, Placed
  <2>3. Placed(t)' /\ todo'[t] \in Seq(STRING)
    BY <2>2, StartsFirst
  <2>4. ThreadsOK'
    BY <2>1, <2>2, <2>3 DEF LocksInv, ThreadsOK
  <2>5. RequestIsNext(t)' /\ Taken(t)' = Taken(t)
    BY <2>2 DEF RequestIsNext, Taken, In
  <2> QED
    BY <2>2, <2>3, <2>4, <2>5, OthersStay
<1>2. ASSUME NEW t \in Threads, EnterAgain(t)
      PROVE  LocksInv'
  <2> DEFINE want == Wanted(Head(todo[t]))
  <2>1. /\ want.file \in Files /\ want.file \notin Accounts
        /\ \E s \in Taken(t) : s.file = want.file /\ ~s.shared
    BY <1>2 DEF EnterAgain, Files, Accounts, Source, Maintenance
  <2>2. /\ Coming(t) /\ Push(t, want.file, want.shared, FALSE, 0)
        /\ UNCHANGED <<routine, request, known>>
    BY <1>2 DEF EnterAgain
  <2> QED
    BY <2>1, <2>2, PushPreserves
<1>3. ASSUME NEW t \in Threads, ReenterPath(t)
      PROVE  LocksInv'
  <2> DEFINE want == Wanted(Head(todo[t]))
  <2>1. PICK s \in Taken(t) :
          /\ s.file = want.file /\ want.file \in Paths
          /\ \/ s.seen = Namespace /\ Push(t, want.file, FALSE, FALSE, s.seen)
                /\ UNCHANGED <<routine, request>>
             \/ s.seen # Namespace /\ Fail(t)
    BY <1>3 DEF ReenterPath
  <2>2. CASE Fail(t)
    BY <1>3, <2>2, FailPreserves DEF ReenterPath
  <2>3. CASE Push(t, want.file, FALSE, FALSE, s.seen) /\ UNCHANGED <<routine, request>>
    <3>1. want.file \in Files /\ want.file \notin Accounts /\ want.shared = FALSE
      BY <2>1, WantedShared DEF Files, Accounts, Paths
    <3>2. s \in Scopes
      BY ElementOfSeq, LenProperties DEF Taken, In, LocksInv, ThreadsOK
    <3>3. s.seen \in Nat
      BY <3>2 DEF Scopes
    <3>4. ~s.shared
      BY <1>3, <2>1, ScopesOfRoutine DEF ReenterPath, Coming
    <3>5. Coming(t) /\ Push(t, want.file, want.shared, FALSE, s.seen) /\ UNCHANGED <<routine, request, known>>
      BY <1>3, <2>3, <3>1 DEF ReenterPath
    <3>6. FALSE <=> ~ /\ want.file \notin Accounts
                      /\ \E a \in Taken(t) : a.file = want.file /\ ~a.shared
      BY <2>1, <3>1, <3>4
    <3> QED
      BY <3>1, <3>3, <3>5, <3>6, PushPreserves
  <2> QED
    BY <2>1, <2>2, <2>3
<1>4. ASSUME NEW t \in Threads, Open(t)
      PROVE  LocksInv'
  <2> DEFINE want == Wanted(Head(todo[t]))
  <2>1. CASE Fail(t) /\ UNCHANGED known
    BY <2>1, FailPreserves
  <2>2. CASE /\ known' = known \cup {want.file}
             /\ request' = [request EXCEPT ![t] = [file |-> want.file, made |-> known' # known,
                                                   seen |-> Cardinality(known')]]
             /\ UNCHANGED <<routine, todo, stack>>
    <3> DEFINE opened == [file |-> want.file, made |-> known' # known, seen |-> Cardinality(known')]
    <3>1. Coming(t) /\ want.file \in Paths /\ ~Holds(t, want.file)
      BY <1>4 DEF Open
    <3>2. known' \subseteq Paths /\ Cardinality(known') \in Nat
      BY <2>2, <3>1, NamespaceIsNat DEF LocksInv, ThreadsOK
    <3>3. opened \in Requests
      BY <3>1, <3>2 DEF Requests
    <3>4. request' = [request EXCEPT ![t] = opened]
      BY <2>2
    <3>5. opened.file = want.file
      OBVIOUS
    <3> HIDE DEF opened
    <3>6. ThreadsOK'
      BY <2>2, <3>2, <3>3, <3>4 DEF LocksInv, ThreadsOK
    <3>7. /\ request'[t] = opened
          /\ \A u \in Threads \ {t} : request'[u] = request[u]
      BY <3>4 DEF LocksInv, ThreadsOK
    <3>8. Taken(t)' = Taken(t)
      BY <2>2 DEF Taken, In
    <3>9. RequestIsNext(t)'
      BY <2>2, <3>1, <3>5, <3>7, <3>8 DEF RequestIsNext, Coming, Holds
    <3>10. Placed(t)'
      <4>1. routine[t] # Idle
        BY <3>1 DEF LocksInv, Placed, Coming
      <4>2. \A k : At(t, k)' <=> At(t, k)
        BY <2>2 DEF At
      <4> QED
        BY <2>2, <4>1, <4>2 DEF Placed, LocksInv
    <3> QED
      BY <2>2, <3>6, <3>7, <3>8, <3>9, <3>10, OthersStay
  <2> QED
    BY <1>4, <2>1, <2>2 DEF Open
<1>5. ASSUME NEW t \in Threads, Acquire(t)
      PROVE  LocksInv'
  <2> DEFINE want == Wanted(Head(todo[t]))
  <2>1. /\ Coming(t) /\ want.file \notin Paths
        /\ want.file \in Accounts \/ ~\E s \in Taken(t) : s.file = want.file /\ ~s.shared
        /\ Push(t, want.file, want.shared, TRUE, 0) /\ UNCHANGED <<routine, request, known>>
    BY <1>5 DEF Acquire, Waits
  <2>2. \A u \in Threads : \A c \in Taken(u) : c.file = want.file => c.shared /\ want.shared
    BY <1>5 DEF Acquire, Blocked, Blocks
  <2>3. want.file \in Files
    BY <2>1, NextEntry DEF Coming, RoutinesOrdered
  <2> QED
    BY <2>1, <2>2, <2>3, PushPreserves
<1>6. ASSUME NEW t \in Threads, AcquirePath(t)
      PROVE  LocksInv'
  BY <1>6, PathPreserves, FailPreserves DEF AcquirePath
<1>7. ASSUME NEW t \in Threads, TimeOut(t) \/ Die(t)
      PROVE  LocksInv'
  BY <1>7, FailPreserves DEF TimeOut, Die
<1>8. ASSUME NEW t \in Threads, Exit(t)
      PROVE  LocksInv'
  <2>1. /\ request[t] = Nothing /\ todo[t] # <<>> /\ Head(todo[t]) = Leave
        /\ stack' = [stack EXCEPT ![t] = Front(stack[t])]
        /\ todo' = [todo EXCEPT ![t] = Tail(todo[t])]
        /\ routine' = [routine EXCEPT ![t] = IF Len(todo[t]) = 1 THEN Idle ELSE routine[t]]
        /\ UNCHANGED <<request, known>>
    BY <1>8 DEF Exit
  <2>2. /\ stack'[t] = Front(stack[t]) /\ todo'[t] = Tail(todo[t]) /\ request'[t] = Nothing
        /\ routine'[t] = IF Len(todo[t]) = 1 THEN Idle ELSE routine[t]
        /\ \A u \in Threads \ {t} : /\ routine'[u] = routine[u] /\ todo'[u] = todo[u]
                                    /\ stack'[u] = stack[u] /\ request'[u] = request[u]
    BY <2>1 DEF LocksInv, ThreadsOK
  <2>3. /\ Placed(t)' /\ stack'[t] \in Seq(Scopes) /\ todo'[t] \in Seq(STRING)
        /\ Taken(t)' \subseteq Taken(t)
    BY <2>1, <2>2, LeavesLast
  <2>4. ThreadsOK'
    BY <2>1, <2>3 DEF LocksInv, ThreadsOK
  <2>5. RequestIsNext(t)'
    BY <2>2 DEF RequestIsNext
  <2> QED
    BY <2>2, <2>3, <2>4, <2>5, OthersStay
<1>9. CASE UNCHANGED lockVars
  <2>1. UNCHANGED <<routine, todo, stack, request, known>>
    BY <1>9 DEF lockVars
  <2>2. \A t \in Threads : Taken(t)' = Taken(t) /\ (Placed(t)' <=> Placed(t))
    BY <2>1 DEF Taken, In, Placed, At
  <2> QED
    BY <2>1, <2>2 DEF LocksInv, ThreadsOK, Exclusion, RequestIsNext, Holds
<1> QED
  BY <1>1, <1>2, <1>3, <1>4, <1>5, <1>6, <1>7, <1>8, <1>9 DEF Next

-----------------------------------------------------------------------------
(* The order *)

LEMMA WaiterHasEntry ==
  ASSUME LocksInv, NEW t \in Threads, Waits(t)
  PROVE  /\ todo[t] # <<>> /\ Head(todo[t]) # Leave
         /\ ~ /\ Wanted(Head(todo[t])).file \notin Accounts
              /\ \E s \in Taken(t) : s.file = Wanted(Head(todo[t])).file /\ ~s.shared
  BY DEF LocksInv, RequestIsNext, Waits, Coming, Holds

\* Who is held up by one who waits himself has only locks before the one he waits for.
LEMMA WaitsInOrder ==
  ASSUME RoutinesOrdered, LocksInv, NEW t \in Threads, NEW u \in Threads, Waits(u), Blocks(u, t)
  PROVE  LET want == Wanted(Head(todo[t]))
         IN /\ Rank(want.file) \in 1 .. Len(Order)
            /\ \A s \in Taken(t) : Rank(s.file) < Rank(want.file)
<1> DEFINE want   == Wanted(Head(todo[t]))
           shapes == Opened[routine[t]]
<1>1. Waits(t) /\ todo[t] # <<>> /\ Head(todo[t]) # Leave
  BY WaiterHasEntry DEF Blocks
<1>2. PICK k \in 1 .. Len(Routines[routine[t]]) :
        /\ At(t, k) /\ Head(todo[t]) = Routines[routine[t]][k] /\ routine[t] \in DOMAIN Routines
  BY <1>1, NextEntry
<1>3. /\ ShapesOK(shapes[k]) /\ InOrder(shapes[k], want)
      /\ Rank(want.file) \in 1 .. Len(Order)
  BY <1>1, <1>2 DEF RoutinesOrdered
<1>4. stack[t] \in Seq(Scopes) /\ Matches(stack[t], shapes[k]) /\ shapes[k] \in Seq(Shapes)
  BY <1>2, <1>3 DEF LocksInv, ThreadsOK, At, ShapesOK
<1>5. DOMAIN stack[t] = DOMAIN shapes[k]
  BY <1>4, LenProperties DEF Matches
<1>6. ~Again(shapes[k], want)
  BY <1>1, <1>4, AgainHere, WaiterHasEntry
<1>7. ~ /\ want.file = Maintenance /\ want.shared
        /\ \E i \in DOMAIN shapes[k] : shapes[k][i].taken /\ shapes[k][i].file = Source
  <2> SUFFICES ASSUME want.file = Maintenance, want.shared,
                      NEW i \in DOMAIN shapes[k], shapes[k][i].taken, shapes[k][i].file = Source
               PROVE  FALSE
    OBVIOUS
  <2>1. PICK s \in Taken(u) : s.file = Maintenance /\ ~s.shared
    BY DEF Blocks
  <2>2. stack[t][i] \in Taken(t) /\ stack[t][i].file = Source
    BY <1>4, <1>5 DEF Taken, In, Matches
  <2>3. u # t
    <3>1. Maintenance \notin Accounts
      BY DEF Maintenance, Accounts
    <3> QED
      BY <1>1, <2>1, <3>1, WaiterHasEntry
  <2>4. Holds(u, Source)
    BY <2>1, WaiterHasEntry, ScopesOfRoutine
  <2>5. PICK a \in Taken(u) : a.file = Source
    BY <2>4 DEF Holds
  <2>6. ~a.shared
    BY <2>5, WaiterHasEntry, ScopesOfRoutine
  <2> QED
    BY <2>2, <2>3, <2>5, <2>6 DEF LocksInv, Exclusion
<1>8. \A i \in DOMAIN shapes[k] : shapes[k][i].taken => Rank(shapes[k][i].file) < Rank(want.file)
  BY <1>3, <1>6, <1>7 DEF InOrder
<1>9. \A s \in Taken(t) : Rank(s.file) < Rank(want.file)
  BY <1>4, <1>5, <1>8 DEF Taken, In, Matches
<1> QED
  BY <1>3, <1>9

LEMMA LocksInvNoCircle == RoutinesOrdered /\ LocksInv => NoCircularWait
<1> SUFFICES ASSUME RoutinesOrdered, LocksInv, NEW waiters \in SUBSET Threads, waiters # {},
                    \A t \in waiters : \E u \in waiters : Blocks(u, t)
             PROVE  FALSE
  BY DEF NoCircularWait
<1> DEFINE Level(t) == Rank(Wanted(Head(todo[t])).file)
<1>1. ASSUME NEW t \in waiters
      PROVE  Level(t) \in 1 .. 9 /\ \E u \in waiters : Level(t) < Level(u)
  <2>1. PICK u \in waiters : Blocks(u, t)
    OBVIOUS
  <2>2. PICK w \in waiters : Blocks(w, u)
    OBVIOUS
  <2>3. Waits(u) /\ Waits(w)
    BY <2>2 DEF Blocks
  <2>4. \A s \in Taken(u) : Rank(s.file) < Level(u)
    BY <2>2, <2>3, WaitsInOrder
  <2>5. \E s \in Taken(u) : Rank(s.file) = Level(t)
    BY <2>1 DEF Blocks
  <2>6. Level(t) \in 1 .. Len(Order) /\ Len(Order) = 9
    BY <2>1, <2>3, WaitsInOrder DEF Order
  <2> QED
    BY <2>4, <2>5, <2>6
<1> HIDE DEF Level
<1>2. ASSUME NEW n \in 1 .. 9, \E t \in waiters : Level(t) >= n
      PROVE  \E t \in waiters : Level(t) >= n + 1
  <2>1. PICK t \in waiters : Level(t) >= n
    BY <1>2
  <2>2. PICK u \in waiters : Level(t) < Level(u)
    BY <1>1
  <2>3. Level(t) \in 1 .. 9 /\ Level(u) \in 1 .. 9
    BY <1>1
  <2> QED
    BY <2>1, <2>2, <2>3
<1>3. \E t \in waiters : Level(t) >= 1
  BY <1>1
<1>4. (\E t \in waiters : Level(t) >= 4) /\ (\E t \in waiters : Level(t) >= 7)
  <2>1. \E t \in waiters : Level(t) >= 2
    BY <1>2, <1>3
  <2>2. \E t \in waiters : Level(t) >= 3
    BY <1>2, <2>1
  <2>3. \E t \in waiters : Level(t) >= 4
    BY <1>2, <2>2
  <2>4. \E t \in waiters : Level(t) >= 5
    BY <1>2, <2>3
  <2>5. \E t \in waiters : Level(t) >= 6
    BY <1>2, <2>4
  <2> QED
    BY <1>2, <2>3, <2>5
<1>5. \E t \in waiters : Level(t) >= 9
  <2>1. \E t \in waiters : Level(t) >= 8
    BY <1>2, <1>4
  <2> QED
    BY <1>2, <2>1
<1>6. PICK t \in waiters : Level(t) >= 9
  BY <1>5
<1>7. Level(t) \in 1 .. 9 /\ \E u \in waiters : Level(u) \in 1 .. 9 /\ Level(t) < Level(u)
  BY <1>1
<1> QED
  BY <1>6, <1>7

\* A scope more: the thread has, or has made, the file of its path.
LEMMA PushExists ==
  ASSUME LocksInv, PathsExist, NEW t \in Threads, NEW scope \in Scopes,
         stack' = [stack EXCEPT ![t] = Append(@, scope)],
         scope.file \in Paths => scope.file \in known,
         UNCHANGED <<request, known>>
  PROVE  PathsExist'
<1>1. stack \in [Threads -> Seq(Scopes)]
  BY DEF LocksInv, ThreadsOK
<1>2. \A u \in Threads \ {t} : stack'[u] = stack[u]
  BY <1>1
<1>3. ASSUME NEW i \in DOMAIN stack'[t], stack'[t][i].file \in Paths
      PROVE  stack'[t][i].file \in known
  <2>1. stack'[t] = Append(stack[t], scope) /\ stack[t] \in Seq(Scopes)
    BY <1>1
  <2>2. i \in 1 .. Len(stack[t]) + 1 /\ Len(stack[t]) \in Nat /\ DOMAIN stack[t] = 1 .. Len(stack[t])
    BY <1>3, <2>1, AppendProperties, LenProperties
  <2>3. CASE i = Len(stack[t]) + 1
    BY <1>3, <2>1, <2>3, AppendProperties
  <2>4. CASE i # Len(stack[t]) + 1
    <3>1. i \in 1 .. Len(stack[t])
      BY <2>2, <2>4
    <3>2. stack'[t][i] = stack[t][i]
      BY <2>1, <3>1, AppendProperties
    <3> QED
      BY <1>3, <2>2, <3>1, <3>2 DEF PathsExist
  <2> QED
    BY <2>3, <2>4
<1> QED
  BY <1>2, <1>3 DEF PathsExist

\* A command that ends leaves all its paths.
LEMMA FailExists ==
  ASSUME LocksInv, PathsExist, NEW t \in Threads, Fail(t), UNCHANGED known
  PROVE  PathsExist'
<1>1. stack \in [Threads -> Seq(Scopes)] /\ request \in [Threads -> {Nothing} \cup Requests]
  BY DEF LocksInv, ThreadsOK
<1>2. stack'[t] = <<>> /\ request'[t] = Nothing
  BY <1>1 DEF Fail
<1>3. \A u \in Threads \ {t} : stack'[u] = stack[u] /\ request'[u] = request[u]
  BY <1>1 DEF Fail
<1>4. DOMAIN stack'[t] = {}
  BY <1>2
<1> QED
  BY <1>2, <1>3, <1>4 DEF PathsExist

\* A path is held or waited for only when its lock file exists.
LEMMA PathsExistPreserved ==
  ASSUME RoutinesOrdered, LocksInv, LocksInv', PathsExist, [Next]_lockVars
  PROVE  PathsExist'
<1>1. /\ stack \in [Threads -> Seq(Scopes)] /\ request \in [Threads -> {Nothing} \cup Requests]
      /\ stack' \in [Threads -> Seq(Scopes)] /\ known \in SUBSET Paths
  BY DEF LocksInv, ThreadsOK
<1>2. ASSUME NEW t \in Threads, NEW file, NEW shared, NEW taken, NEW seen,
             Push(t, file, shared, taken, seen), UNCHANGED <<request, known>>,
             file \in Paths => file \in known
      PROVE  PathsExist'
  <2> DEFINE scope == [file |-> file, shared |-> shared, taken |-> taken, seen |-> seen]
  <2>1. stack' = [stack EXCEPT ![t] = Append(@, scope)] /\ scope.file = file
    BY <1>2 DEF Push
  <2>2. scope \in Scopes
    <3>1. stack'[t] = Append(stack[t], scope) /\ stack'[t] \in Seq(Scopes)
      BY <1>1, <2>1
    <3>2. Len(stack[t]) + 1 \in DOMAIN stack'[t] /\ stack'[t][Len(stack[t]) + 1] = scope
      <4>1. Len(stack[t]) \in Nat /\ Len(stack'[t]) = Len(stack[t]) + 1
        BY <1>1, <3>1
      <4> QED
        BY <1>1, <3>1, <4>1
    <3> QED
      BY <3>1, <3>2
  <2> QED
    BY <1>2, <2>1, <2>2, PushExists
<1>3. ASSUME NEW t \in Threads, Start(t)
      PROVE  PathsExist'
  BY <1>3 DEF Start, PathsExist
<1>4. ASSUME NEW t \in Threads, EnterAgain(t)
      PROVE  PathsExist'
  <2>1. Source \notin Paths /\ Maintenance \notin Paths
    BY DEF Source, Maintenance, Paths
  <2> QED
    BY <1>2, <1>4, <2>1 DEF EnterAgain
<1>5. ASSUME NEW t \in Threads, ReenterPath(t)
      PROVE  PathsExist'
  <2> DEFINE want == Wanted(Head(todo[t]))
  <2>1. PICK scope \in Taken(t) :
          /\ scope.file = want.file /\ want.file \in Paths
          /\ \/ scope.seen = Namespace /\ Push(t, want.file, FALSE, FALSE, scope.seen)
                /\ UNCHANGED <<routine, request>>
             \/ scope.seen # Namespace /\ Fail(t)
    BY <1>5 DEF ReenterPath
  <2>2. want.file \in known
    BY <2>1 DEF Taken, In, PathsExist
  <2>3. UNCHANGED known
    BY <1>5 DEF ReenterPath
  <2> HIDE DEF want
  <2> QED
    BY <1>2, <2>1, <2>2, <2>3, FailExists
<1>6. ASSUME NEW t \in Threads, Open(t)
      PROVE  PathsExist'
  <2> DEFINE want == Wanted(Head(todo[t]))
  <2>1. CASE /\ known' = known \cup {want.file}
             /\ \E made, seen : request' = [request EXCEPT ![t] =
                  [file |-> want.file, made |-> made, seen |-> seen]]
             /\ UNCHANGED stack
    BY <1>1, <2>1 DEF PathsExist
  <2>2. CASE Fail(t) /\ UNCHANGED known
    BY <2>2, FailExists
  <2> QED
    BY <1>6, <2>1, <2>2 DEF Open
<1>7. ASSUME NEW t \in Threads, Acquire(t)
      PROVE  PathsExist'
  <2>1. Wanted(Head(todo[t])).file \notin Paths
    BY <1>7 DEF Acquire, Waits
  <2> QED
    BY <1>2, <1>7, <2>1 DEF Acquire
<1>8. ASSUME NEW t \in Threads, AcquirePath(t)
      PROVE  PathsExist'
  <2> DEFINE want == request[t]
             scope == [file |-> want.file, shared |-> FALSE, taken |-> TRUE, seen |-> want.seen]
             base == [i \in DOMAIN stack[t] |->
                        IF want.made /\ stack[t][i].file \in Paths /\ stack[t][i].taken
                        THEN [stack[t][i] EXCEPT !.seen = want.seen] ELSE stack[t][i]]
  <2>1. CASE stack' = [stack EXCEPT ![t] = Append(base, scope)]
             /\ request' = [request EXCEPT ![t] = Nothing] /\ UNCHANGED known
    <3>1. /\ want \in Requests /\ want.file \in known
      BY <1>1, <1>8 DEF AcquirePath, PathsExist
    <3>2. ASSUME NEW i \in DOMAIN stack[t]
          PROVE  /\ stack[t][i] \in Scopes /\ base[i] \in Scopes
                 /\ base[i].file = stack[t][i].file
      <4> DEFINE at == stack[t][i]
      <4>1. at \in Scopes /\ base[i] = IF want.made /\ at.file \in Paths /\ at.taken
                                       THEN [at EXCEPT !.seen = want.seen] ELSE at
        BY <1>1
      <4>2. want.seen \in Nat
        BY <3>1 DEF Requests
      <4> HIDE DEF at, base
      <4>3. [at EXCEPT !.seen = want.seen] \in Scopes
            /\ [at EXCEPT !.seen = want.seen].file = at.file
        BY <4>1, <4>2 DEF Scopes
      <4>4. base[i] \in Scopes /\ base[i].file = at.file
        BY <4>1, <4>3
      <4> QED
        BY <4>1, <4>4 DEF at
    <3>3. base \in Seq(Scopes) /\ DOMAIN base = DOMAIN stack[t] /\ scope.file = want.file
          /\ scope \in Scopes
      <4>1. Len(stack[t]) \in Nat /\ DOMAIN stack[t] = 1 .. Len(stack[t])
        BY <1>1
      <4>2. scope \in Scopes /\ scope.file = want.file
        BY <3>1 DEF Scopes, Requests, Files
      <4>3. base \in [1 .. Len(stack[t]) -> Scopes]
        BY <3>2, <4>1
      <4> HIDE DEF base
      <4>4. base \in Seq(Scopes) /\ DOMAIN base = 1 .. Len(stack[t])
        BY <4>1, <4>3
      <4> QED
        BY <4>1, <4>2, <4>4
    <3>4. stack'[t] = Append(base, scope)
          /\ \A u \in Threads \ {t} : stack'[u] = stack[u] /\ request'[u] = request[u]
      BY <1>1, <2>1
    <3> HIDE DEF base, scope
    <3>5. ASSUME NEW i \in DOMAIN stack'[t], stack'[t][i].file \in Paths
          PROVE  stack'[t][i].file \in known
      <4>1. i \in 1 .. Len(base) + 1 /\ Len(base) \in Nat /\ DOMAIN base = 1 .. Len(base)
        BY <3>3, <3>4, <3>5, AppendProperties, LenProperties
      <4>2. CASE i = Len(base) + 1
        BY <3>1, <3>3, <3>4, <4>2, AppendProperties
      <4>3. CASE i # Len(base) + 1
        <5>1. i \in 1 .. Len(base)
          BY <4>1, <4>3
        <5>2. stack'[t][i] = base[i]
          BY <3>3, <3>4, <5>1, AppendProperties
        <5> QED
          BY <3>2, <3>3, <3>5, <4>1, <5>1, <5>2 DEF PathsExist
      <4> QED
        BY <4>2, <4>3
    <3>6. request'[t] = Nothing
      BY <1>1, <2>1
    <3> QED
      BY <2>1, <3>4, <3>5, <3>6 DEF PathsExist
  <2>2. CASE Fail(t) /\ UNCHANGED known
    BY <2>2, FailExists
  <2> QED
    BY <1>8, <2>1, <2>2 DEF AcquirePath
<1>9. ASSUME NEW t \in Threads, TimeOut(t) \/ Die(t)
      PROVE  PathsExist'
  BY <1>9, FailExists DEF TimeOut, Die
<1>10. ASSUME NEW t \in Threads, Exit(t)
       PROVE  PathsExist'
  <2>1. /\ stack'[t] = Front(stack[t]) /\ UNCHANGED <<request, known>>
        /\ \A u \in Threads \ {t} : stack'[u] = stack[u]
    BY <1>1, <1>10 DEF Exit
  <2>2. \A i \in DOMAIN stack'[t] : i \in DOMAIN stack[t] /\ stack'[t][i] = stack[t][i]
    <3>1. Len(stack[t]) \in Nat /\ stack[t] \in Seq(Scopes)
      BY <1>1
    <3>2. stack'[t] = SubSeq(stack[t], 1, Len(stack[t]) - 1)
      BY <2>1 DEF Front
    <3> QED
      BY <3>1, <3>2
  <2> QED
    BY <2>1, <2>2 DEF PathsExist
<1>11. CASE UNCHANGED lockVars
  BY <1>11 DEF lockVars, PathsExist
<1> QED
  BY <1>3, <1>4, <1>5, <1>6, <1>7, <1>8, <1>9, <1>10, <1>11 DEF Next

\* At first no path is held.
LEMMA PathsExistInit == Init => PathsExist
  BY DEF Init, PathsExist

\* The types, and that a path is held only when its file exists.
LEMMA LocksInvTypes ==
  ASSUME LocksInv, PathsExist
  PROVE  TypeOK
<1>1. known \subseteq Paths
  BY DEF LocksInv, ThreadsOK
<1>2. ASSUME NEW t \in Threads
      PROVE  /\ routine[t] \in {Idle} \cup DOMAIN Routines
             /\ routine[t] = Idle => stack[t] = <<>> /\ request[t] = Nothing
  BY DEF LocksInv, ThreadsOK, Placed
<1>3. ASSUME NEW t \in Threads, NEW scope \in In(t)
      PROVE  scope.file \in Files /\ (scope.file \in Paths => scope.file \in known)
  <2>1. PICK i \in DOMAIN stack[t] : scope = stack[t][i]
    BY DEF In
  <2>2. stack[t] \in Seq(Scopes)
    BY DEF LocksInv, ThreadsOK
  <2>3. scope \in Scopes
    BY <2>1, <2>2
  <2> QED
    BY <2>1, <2>3 DEF Scopes, PathsExist
<1> QED
  BY <1>1, <1>2, <1>3 DEF TypeOK

-----------------------------------------------------------------------------

\* account_lock.py, source_lock.py, private_io.py: any number of threads, each in any of
\* the commands.
THEOREM NoCircularWaitCorrect ==
  ASSUME RoutinesOrdered
  PROVE  Spec => []NoCircularWait
<1>1. Init => LocksInv
  BY LocksInvInit
<1>2. LocksInv /\ [Next]_lockVars => LocksInv'
  BY LocksInvPreserved
<1>3. LocksInv => NoCircularWait
  BY LocksInvNoCircle
<1> QED
  BY <1>1, <1>2, <1>3, PTL DEF Spec

\* flock: no two threads are in one lock unless both share it.
THEOREM ExclusionCorrect ==
  ASSUME RoutinesOrdered
  PROVE  Spec => []Exclusion
<1>1. Init => LocksInv
  BY LocksInvInit
<1>2. LocksInv /\ [Next]_lockVars => LocksInv'
  BY LocksInvPreserved
<1>3. LocksInv => Exclusion
  BY DEF LocksInv
<1> QED
  BY <1>1, <1>2, <1>3, PTL DEF Spec
=============================================================================
