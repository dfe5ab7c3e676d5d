-------------------------- MODULE MCSystem_proofs --------------------------
(***************************************************************************)
(* What the proofs about the parts say of the system that MCSystem checks: *)
(* a behaviour of it is one of the part that its initial state chooses.    *)
(***************************************************************************)
EXTENDS MCSystem, MCStores_proofs, MCClients_proofs, SequenceTheorems

\* A step is one of the part, and the part stays.
LEMMA PartStays ==
  ASSUME [Next]_places
  PROVE  part' = part
  BY DEF Next, places, WriteMoves, PoolMoves, EvidenceMoves, MaintainMoves,
     ReleaseMoves, ServiceMoves, DeleteMoves, MigrateMoves, LockingMoves,
     QuarantineMoves, PageMoves, BridgeMoves, SyncMoves, RefreshMoves, AuxMoves,
     CacheMoves, CallMoves, WatchdogMoves, FetchMoves, ChoiceMoves, GoogleMoves

\* The initial states of the parts that the theorems are about.
LEMMA PartInits ==
  ASSUME Init
  PROVE  /\ part = "write" => Write!Init
         /\ part = "pool" => Pool!Init
         /\ part = "evidence" => Evidence!Init
         /\ part = "locks" => Locking!Init
         /\ part = "sync" => Sync!Init
         /\ part = "maintain" => Maintain!Init
         /\ part = "delete" => Delete!Init
         /\ part = "quarantine" => Quarantine!Init
         /\ part = "call" => Call!Init
         /\ part = "release" => Release!Init
         /\ part = "migrate" => Migrate!Init
         /\ part = "page" => Page!Init
         /\ part = "bridge" => Bridge!Init
         /\ part = "watchdog" => Watchdog!Init
         /\ part = "cache" => Cache!Init
         /\ part = "fetch" => Fetch!Init
         /\ part = "samples" => Choice!Init
         /\ part = "service" => Service!Init
         /\ part = "refresh" => Refresh!Init
         /\ part = "aux" => Aux!Init
         /\ part = "google" => Google!Init
  BY DEF Init, WriteInit, PoolInit, EvidenceInit, MaintainInit, ReleaseInit,
     ServiceInit, DeleteInit, MigrateInit, LockingInit, QuarantineInit,
     PageInit, BridgeInit, SyncInit, RefreshInit, AuxInit, CacheInit, CallInit,
     WatchdogInit, FetchInit, ChoiceInit, GoogleInit

\* Their steps.
LEMMA PartMoves ==
  ASSUME Next
  PROVE  /\ part = "write" => Write!Next
         /\ part = "pool" => Pool!Next
         /\ part = "evidence" => Evidence!Next
         /\ part = "locks" => Locking!Next
         /\ part = "sync" => Sync!Next
         /\ part = "maintain" => Maintain!Next
         /\ part = "delete" => Delete!Next
         /\ part = "quarantine" => Quarantine!Next
         /\ part = "call" => Call!Next
         /\ part = "release" => Release!Next
         /\ part = "migrate" => Migrate!Next
         /\ part = "page" => Page!Next
         /\ part = "bridge" => Bridge!Next
         /\ part = "watchdog" => Watchdog!Next
         /\ part = "cache" => Cache!Next
         /\ part = "fetch" => Fetch!Next
         /\ part = "samples" => Choice!Next
         /\ part = "service" => Service!Next
         /\ part = "refresh" => Refresh!Next
         /\ part = "aux" => Aux!Next
         /\ part = "google" => Google!Next
  BY DEF Next, WriteMoves, PoolMoves, EvidenceMoves, MaintainMoves,
     ReleaseMoves, ServiceMoves, DeleteMoves, MigrateMoves, LockingMoves,
     QuarantineMoves, PageMoves, BridgeMoves, SyncMoves, RefreshMoves, AuxMoves,
     CacheMoves, CallMoves, WatchdogMoves, FetchMoves, ChoiceMoves, GoogleMoves

\* Their stuttering.
LEMMA PartStutters ==
  ASSUME UNCHANGED places
  PROVE  /\ UNCHANGED Write!vars
         /\ UNCHANGED Pool!poolVars
         /\ UNCHANGED Evidence!evidenceVars
         /\ UNCHANGED Locking!lockVars
         /\ UNCHANGED Sync!authVars
         /\ UNCHANGED Maintain!maintenanceVars
         /\ UNCHANGED Delete!deleteVars
         /\ UNCHANGED Quarantine!quarantineVars
         /\ UNCHANGED Call!vars
         /\ UNCHANGED Google!vars
         /\ UNCHANGED Release!installVars
         /\ UNCHANGED Service!serviceVars
         /\ UNCHANGED Migrate!vars
         /\ UNCHANGED Page!pageVars
         /\ UNCHANGED Bridge!bridgeVars
         /\ UNCHANGED Watchdog!vars
         /\ UNCHANGED Cache!vars
         /\ UNCHANGED Fetch!vars
         /\ UNCHANGED Choice!vars
         /\ UNCHANGED Refresh!refreshVars
         /\ UNCHANGED Aux!auxVars
  BY DEF places, Write!vars, Pool!poolVars, Evidence!evidenceVars, Locking!lockVars,
     Sync!authVars, Sync!loginVars, Sync!serverVars, Maintain!maintenanceVars,
     Delete!deleteVars, Quarantine!quarantineVars, Quarantine!runVars, Call!vars,
     Google!vars, Release!installVars, Service!serviceVars, Migrate!vars, Migrate!disk,
     Migrate!ghosts, Page!pageVars, Page!hookVars, Page!scriptVars, Bridge!bridgeVars,
     Bridge!serverVars, Bridge!tokenVars, Bridge!writerVars, Watchdog!vars, Cache!vars,
     Fetch!vars, Choice!vars, Refresh!refreshVars, Refresh!failures, Refresh!settings,
     Aux!auxVars, Aux!queueVars, Aux!otherVars

-----------------------------------------------------------------------------
(***************************************************************************)
(* The applet's fetches: a callback is a row of steps, and an exception    *)
(* goes to the first handler in it.                                        *)
(***************************************************************************)
\* The steps a callback is made of.
LEMMA RefreshSteps ==
  \A x \in Refresh!Actions, f \in BOOLEAN :
    /\ Refresh!To(x, f) \in Refresh!Steps /\ Refresh!To(x, f).do = x
       /\ Refresh!To(x, f).flag = f
    /\ Refresh!Do(x) \in Refresh!Steps /\ Refresh!Do(x).do = x
  BY DEF Refresh!To, Refresh!Do, Refresh!Steps

\* Two agendas in a row.
LEMMA RefreshRow ==
  ASSUME NEW new \in Seq(Refresh!Steps), NEW rest \in Seq(Refresh!Steps)
  PROVE  /\ new \o rest \in Seq(Refresh!Steps)
            /\ Len(new \o rest) = Len(new) + Len(rest)
         /\ \A i \in 1 .. Len(new) : (new \o rest)[i] = new[i]
         /\ \A i \in 1 .. Len(rest) : (new \o rest)[Len(new) + i] = rest[i]
  OBVIOUS

LEMMA RefreshPair ==
  ASSUME NEW a \in Refresh!Steps, NEW b \in Refresh!Steps
  PROVE  <<a>> \o <<>> = <<a>> /\ <<a>> \o <<b>> = <<a, b>>
<1> DEFINE s == <<a>>
           t == <<b>>
           both == <<a, b>>
           row == s \o t
<1>1. /\ s \in Seq(Refresh!Steps) /\ Len(s) = 1 /\ s[1] = a
      /\ t \in Seq(Refresh!Steps) /\ Len(t) = 1 /\ t[1] = b
      /\ both \in Seq(Refresh!Steps) /\ Len(both) = 2 /\ both[1] = a /\ both[2] = b
  OBVIOUS
<1>2. <<a>> \o <<>> = <<a>>
  BY <1>1, ConcatEmptySeq
<1> HIDE DEF s, t, both
<1>3. /\ row \in Seq(Refresh!Steps) /\ Len(row) = Len(s) + Len(t)
      /\ \A i \in 1 .. Len(s) : row[i] = s[i]
      /\ \A i \in 1 .. Len(t) : row[Len(s) + i] = t[i]
  BY <1>1, RefreshRow
<1> HIDE DEF row
<1>4. Len(row) = 2 /\ row[1] = a /\ row[2] = b
  BY <1>1, <1>3
<1>5. \A i \in 1 .. Len(row) : row[i] = both[i]
  BY <1>1, <1>4
<1>6. row = both
  BY <1>1, <1>3, <1>4, <1>5, SeqEqual
<1> QED
  BY <1>2, <1>6 DEF row, s, t, both

\* What is put in front of a guarded rest is guarded, and drains if one of both does.
LEMMA RefreshPut ==
  ASSUME NEW new \in Seq(Refresh!Steps), NEW rest \in Seq(Refresh!Steps),
         Refresh!Guards(rest)
  PROVE  /\ new \o rest \in Seq(Refresh!Steps) /\ Refresh!Guards(new \o rest)
         /\ Refresh!Drains(rest) \/ Refresh!Drains(new) => Refresh!Drains(new \o rest)
         /\ new = <<>> => new \o rest = rest
         /\ new # <<>> => (new \o rest)[1] = new[1]
         /\ new # <<>> /\ Refresh!Behind(new)
            /\ Refresh!AllLater(rest) => Refresh!AllLater(Tail(new \o rest))
<1> DEFINE all == new \o rest
<1>1. /\ all \in Seq(Refresh!Steps) /\ Len(all) = Len(new) + Len(rest)
      /\ \A i \in 1 .. Len(new) : all[i] = new[i]
      /\ \A i \in 1 .. Len(rest) : all[Len(new) + i] = rest[i]
  OBVIOUS
<1>2. rest # <<>> /\ Len(rest) \in Nat /\ Len(rest) >= 1 /\ Len(new) \in Nat
  BY DEF Refresh!Guards
<1>3. Refresh!Guards(all)
  BY <1>1, <1>2 DEF Refresh!Guards
<1>4. Refresh!Drains(rest) \/ Refresh!Drains(new) => Refresh!Drains(all)
  <2>1. ASSUME Refresh!Drains(rest)
        PROVE  Refresh!Drains(all)
    <3>1. PICK i \in 1 .. Len(rest) : rest[i].do = "drain"
      BY <2>1 DEF Refresh!Drains
    <3>2. Len(new) + i \in 1 .. Len(all) /\ all[Len(new) + i].do = "drain"
      BY <1>1, <1>2, <3>1
    <3> QED
      BY <1>1, <3>2 DEF Refresh!Drains
  <2>2. ASSUME Refresh!Drains(new)
        PROVE  Refresh!Drains(all)
    <3>1. PICK i \in 1 .. Len(new) : new[i].do = "drain"
      BY <2>2 DEF Refresh!Drains
    <3>2. i \in 1 .. Len(all) /\ all[i].do = "drain"
      BY <1>1, <1>2, <3>1
    <3> QED
      BY <1>1, <3>2 DEF Refresh!Drains
  <2> QED
    BY <2>1, <2>2
<1>5. ASSUME new # <<>>
      PROVE  all[1] = new[1] /\ (Refresh!Behind(new)
             /\ Refresh!AllLater(rest) => Refresh!AllLater(Tail(all)))
  <2>1. Len(new) >= 1 /\ all # <<>> /\ Len(all) >= 1
    BY <1>1, <1>2, <1>5
  <2>2. /\ Tail(all) \in Seq(Refresh!Steps) /\ Len(Tail(all)) = Len(all) - 1
        /\ \A i \in 1 .. Len(Tail(all)) : Tail(all)[i] = all[i + 1]
    BY <1>1, <2>1
  <2>4. ASSUME Refresh!Behind(new), Refresh!AllLater(rest),
               NEW i \in 1 .. Len(Tail(all))
        PROVE  Tail(all)[i].do \in Refresh!Later
    <3>1. CASE i + 1 <= Len(new)
      <4>1. i + 1 \in DOMAIN new /\ i + 1 # 1 /\ Tail(all)[i] = new[i + 1]
        BY <1>1, <1>2, <2>1, <2>2, <3>1
      <4> QED
        BY <2>4, <4>1 DEF Refresh!Behind
    <3>2. CASE i + 1 > Len(new)
      <4> DEFINE j == i + 1 - Len(new)
      <4>1. j \in 1 .. Len(rest) /\ i + 1 = Len(new) + j
        BY <1>1, <1>2, <2>2, <3>2
      <4> HIDE DEF j
      <4>2. Tail(all)[i] = rest[j]
        BY <1>1, <2>2, <4>1
      <4> QED
        BY <2>4, <4>1, <4>2 DEF Refresh!AllLater
    <3> QED
      BY <1>2, <2>2, <3>1, <3>2
  <2> QED
    BY <1>1, <2>1, <2>2, <2>4 DEF Refresh!AllLater
<1>6. new = <<>> => all = rest
  OBVIOUS
<1> QED
  BY <1>1, <1>3, <1>4, <1>5, <1>6

\* An exception goes to a handler, which leaves what drains in place.
LEMMA RefreshThrown ==
  ASSUME NEW steps \in Seq(Refresh!Steps), Refresh!Guards(steps),
         Refresh!AllLater(steps)
  PROVE  LET left == Refresh!Thrown(steps)
         IN
           /\ left \in Seq(Refresh!Steps)
           /\ left # <<>>
           /\ Refresh!AllLater(Tail(left))
           /\ (left \in {<<Refresh!Do("internal")>>, <<Refresh!Do("safe")>>}
              \/ Refresh!Guards(left))
           /\ left[1].do \in {"internal", "safe", "reset", "finallyOnce", "drain"}
           /\ (Refresh!Drains(steps) => Refresh!Drains(left))
<1> DEFINE n == Len(steps)
           stops == {i \in 1 .. n : steps[i].do \in Refresh!Handlers}
           IsFirst(i) == /\ steps[i].do \in Refresh!Handlers
                         /\ \A j \in 1 .. (i - 1) : steps[j].do \notin Refresh!Handlers
<1>1. n \in Nat /\ n >= 1 /\ DOMAIN steps = 1 .. n
  BY DEF Refresh!Guards
<1>2. n \in stops
  BY <1>1 DEF Refresh!Guards, Refresh!Handlers
<1>3. PICK least \in stops : \A j \in stops : least <= j
  <2>1. stops \in SUBSET Nat /\ stops # {}
    BY <1>1, <1>2
  <2> QED
    BY <2>1, HasFirst
<1>4. IsFirst(least)
  <2>1. ASSUME NEW j \in 1 .. (least - 1)
        PROVE  steps[j].do \notin Refresh!Handlers
    <3>1. j \in 1 .. n /\ ~(least <= j)
      BY <1>1, <1>3
    <3> QED
      BY <1>3, <3>1
  <2> QED
    BY <1>3, <2>1
<1> DEFINE first == CHOOSE i \in DOMAIN steps : IsFirst(i)
<1>5. first \in 1 .. n /\ IsFirst(first)
  BY <1>1, <1>3, <1>4
<1> DEFINE outer == SubSeq(steps, first + 1, n)
<1> HIDE DEF first
<1>17. first \in Nat /\ 1 <= first /\ first <= n
  BY <1>1, <1>5
<1>18. \A a, b \in Nat : 1 <= b /\ b <= a =>
         /\ b + (a - b) = a /\ (a - b = 0 <=> a = b)
         /\ a # b => a - b \in 1 .. (a - b)
  OBVIOUS
<1>6. /\ outer \in Seq(Refresh!Steps) /\ Len(outer) = n - first
      /\ \A i \in 1 .. (n - first) : outer[i] = steps[first + i]
  <2>1. n \in Nat /\ first \in Nat /\ 1 <= first /\ first <= n /\ n = Len(steps)
    BY <1>1, <1>17
  <2> HIDE DEF n
  <2>2. outer \in Seq(Refresh!Steps) /\ Len(outer) = n - first
    BY <2>1
  <2>3. ASSUME NEW i \in 1 .. (n - first)
        PROVE  outer[i] = steps[first + i]
    BY <2>1, <2>3
  <2> QED
    BY <2>2, <2>3
<1>7. steps[first] \in Refresh!Steps /\ steps[first].do \in Refresh!Later
  BY <1>1, <1>5 DEF Refresh!AllLater
<1>8. Refresh!Thrown(steps) = CASE steps[first].do = "guard" -> <<Refresh!Do("internal")>> \o outer
                        [] steps[first].do = "boot" -> <<Refresh!Do("safe")>> \o outer
                        [] steps[first].do = "catch" -> <<Refresh!Do("reset"),
                        Refresh!Do("throw")>> \o outer
                        [] OTHER -> <<steps[first], Refresh!Do("throw")>> \o outer
  BY DEF Refresh!Thrown, first
<1> HIDE DEF outer
<1>9. Refresh!AllLater(outer)
  <2>1. ASSUME NEW i \in 1 .. (n - first)
        PROVE  outer[i].do \in Refresh!Later
    <3>1. first + i \in 1 .. n
      BY <1>1, <1>5
    <3> QED
      BY <1>1, <1>6, <3>1 DEF Refresh!AllLater
  <2> QED
    BY <1>6, <2>1 DEF Refresh!AllLater
<1>10. outer = <<>> \/ Refresh!Guards(outer)
  <2>1. CASE first = n
    BY <1>1, <1>6, <2>1
  <2>2. CASE first # n
    <3>1. n - first \in 1 .. (n - first) /\ first + (n - first) = n
      BY <1>1, <1>17, <1>18, <2>2
    <3>2. outer[Len(outer)] = steps[n] /\ outer # <<>>
      BY <1>6, <3>1
    <3> QED
      BY <3>2 DEF Refresh!Guards
  <2> QED
    BY <2>1, <2>2
<1>11. Refresh!Drains(steps) => steps[first].do = "drain" \/ Refresh!Drains(outer)
  <2>1. ASSUME NEW i \in 1 .. n, steps[i].do = "drain"
        PROVE  steps[first].do = "drain" \/ Refresh!Drains(outer)
    <3>1. steps[i].do \in Refresh!Handlers
      BY <2>1 DEF Refresh!Handlers
    <3>2. ~(i < first)
      <4>1. SUFFICES ASSUME i < first
                     PROVE  FALSE
        BY <1>1, <1>5
      <4>2. i \in 1 .. (first - 1)
        BY <1>1, <1>5, <4>1
      <4> QED
        BY <1>5, <3>1, <4>2
    <3>3. CASE i = first
      BY <2>1, <3>3
    <3>4. CASE i # first
      <4>1. i - first \in 1 .. (n - first) /\ first + (i - first) = i
        BY <1>1, <1>5, <3>2, <3>4
      <4>2. outer[i - first].do = "drain" /\ i - first \in DOMAIN outer
        BY <1>6, <2>1, <4>1
      <4> QED
        BY <4>2 DEF Refresh!Drains
    <3> QED
      BY <3>3, <3>4
  <2> QED
    BY <1>1, <2>1 DEF Refresh!Drains
<1>12. n >= first /\ (first = n => outer = <<>>) /\ (outer = <<>> => first = n)
  <2>1. Len(outer) = 0 <=> outer = <<>>
    BY <1>6
  <2>2. Len(outer) = 0 <=> first = n
    <3>1. n - first = 0 <=> n = first
      BY <1>1, <1>17, <1>18
    <3>2. Len(outer) = n - first
      BY <1>6
    <3> QED
      BY <3>1, <3>2
  <2>3. n >= first
    BY <1>1, <1>17
  <2> QED
    BY <2>1, <2>2, <2>3
<1>13. steps[n].do \in {"guard", "boot"}
  BY DEF Refresh!Guards
<1>14. CASE steps[first].do \in {"guard", "boot"}
  <2>1. PICK x \in {"internal", "safe"} :
               Refresh!Thrown(steps) = <<Refresh!Do(x)>> \o outer
    BY <1>8, <1>14
  <2>2. x \in Refresh!Actions /\ Refresh!Do(x) \in Refresh!Steps
        /\ Refresh!Do(x).do = x
    BY RefreshSteps DEF Refresh!Actions
  <2> DEFINE new == <<Refresh!Do(x)>>
  <2>3. new \in Seq(Refresh!Steps) /\ Tail(new) = <<>> /\ new # <<>>
        /\ new[1] = Refresh!Do(x)
    BY <2>2
  <2>4. Refresh!AllLater(Tail(new)) /\ Refresh!Behind(new)
    BY <2>3 DEF Refresh!AllLater, Refresh!Behind
  <2>5. CASE outer = <<>>
    <3>1. Refresh!Thrown(steps) = <<Refresh!Do(x)>>
      BY <2>1, <2>3, <2>5
    <3>2. ~Refresh!Drains(outer)
      BY <2>5 DEF Refresh!Drains
    <3> QED
      BY <1>11, <1>14, <2>2, <2>3, <2>4, <3>1, <3>2
  <2>6. CASE Refresh!Guards(outer)
    <3> HIDE DEF new
    <3>2. Refresh!Thrown(steps) = new \o outer
      BY <2>1 DEF new
    <3>1. LET left == Refresh!Thrown(steps)
          IN
            /\ left \in Seq(Refresh!Steps)
            /\ Refresh!Guards(left)
            /\ left[1] = Refresh!Do(x)
            /\ Refresh!AllLater(Tail(left))
            /\ (Refresh!Drains(outer) => Refresh!Drains(left))
      BY <1>6, <1>9, <2>3, <2>4, <2>6, <3>2, RefreshPut
    <3> QED
      BY <1>11, <1>14, <2>2, <3>1 DEF Refresh!Guards
  <2> QED
    BY <1>10, <2>5, <2>6
<1>15. CASE steps[first].do \notin {"guard", "boot"}
  <2>1. Refresh!Guards(outer)
    BY <1>10, <1>12, <1>13, <1>15
  <2>2. steps[first].do \in {"finallyOnce", "drain", "catch"}
    BY <1>5, <1>7, <1>15 DEF Refresh!Later, Refresh!Handlers
  <2>3. PICK x \in Refresh!Steps :
          /\ Refresh!Thrown(steps) = <<x, Refresh!Do("throw")>> \o outer
          /\ x.do \in {"reset", "finallyOnce", "drain"}
          /\ (steps[first].do = "drain" => x.do = "drain")
    <3>1. Refresh!Do("reset") \in Refresh!Steps /\ Refresh!Do("reset").do = "reset"
      BY RefreshSteps DEF Refresh!Actions
    <3>2. CASE steps[first].do = "catch"
      BY <1>8, <3>1, <3>2
    <3>3. CASE steps[first].do \in {"finallyOnce", "drain"}
      BY <1>7, <1>8, <3>3
    <3> QED
      BY <2>2, <3>2, <3>3
  <2> DEFINE new == <<x, Refresh!Do("throw")>>
  <2>4. Refresh!Do("throw") \in Refresh!Steps /\ Refresh!Do("throw").do = "throw"
    BY RefreshSteps DEF Refresh!Actions
  <2>5. /\ new \in Seq(Refresh!Steps) /\ new # <<>> /\ new[1] = x
           /\ new[2] = Refresh!Do("throw")
        /\ DOMAIN new = 1 .. 2
    BY <2>4
  <2>6. Refresh!Behind(new) /\ (x.do = "drain" => Refresh!Drains(new))
    BY <2>4, <2>5 DEF Refresh!Behind, Refresh!Later, Refresh!Drains
  <2> HIDE DEF new
  <2>7. LET left == Refresh!Thrown(steps)
        IN
          /\ left \in Seq(Refresh!Steps)
          /\ Refresh!Guards(left)
          /\ left[1] = x
          /\ Refresh!AllLater(Tail(left))
          /\ (Refresh!Drains(outer) \/ Refresh!Drains(new) => Refresh!Drains(left))
    <3>1. Refresh!Thrown(steps) = new \o outer
      BY <2>3 DEF new
    <3> QED
      BY <1>6, <1>9, <2>1, <2>5, <2>6, <3>1, RefreshPut
  <2> QED
    BY <1>11, <2>3, <2>6, <2>7 DEF Refresh!Guards
<1> QED
  BY <1>14, <1>15

\* What follows the running step.
LEMMA RefreshRest ==
  ASSUME Refresh!RefreshInv, v10 # <<>>
  PROVE  /\ Refresh!Rest \in Seq(Refresh!Steps) /\ Head(v10) \in Refresh!Steps
         /\ ~Refresh!At("show") => Refresh!AllLater(Refresh!Rest)
            /\ (Refresh!Rest = <<>> \/ Refresh!Guards(Refresh!Rest))
         /\ Head(v10).do \notin {"guard", "boot", "internal", "safe"}
            => Refresh!Guards(Refresh!Rest)
         /\ Refresh!Drains(v10) /\ ~Refresh!At("drain") => Refresh!Drains(Refresh!Rest)
<1>1. /\ v10 \in Seq(Refresh!Steps) /\ Len(v10) \in Nat /\ Len(v10) >= 1
      /\ Refresh!Rest \in Seq(Refresh!Steps) /\ Len(Refresh!Rest) = Len(v10) - 1
      /\ DOMAIN Refresh!Rest = 1 .. Len(Refresh!Rest) /\ DOMAIN v10 = 1 .. Len(v10)
      /\ \A i \in 1 .. Len(Refresh!Rest) : Refresh!Rest[i] = v10[i + 1]
      /\ Head(v10) = v10[1] /\ Head(v10) \in Refresh!Steps
  BY DEF Refresh!RefreshInv, Refresh!ValuesOK, Refresh!Rest
<1>2. Refresh!Guards(v10) /\ Len(v10) > 1 => Refresh!Guards(Refresh!Rest)
  <2>1. SUFFICES ASSUME Refresh!Guards(v10), Len(v10) > 1
                 PROVE  Refresh!Guards(Refresh!Rest)
    OBVIOUS
  <2>2. Len(Refresh!Rest) \in 1 .. Len(Refresh!Rest)
        /\ Len(Refresh!Rest) + 1 = Len(v10) /\ Refresh!Rest # <<>>
    BY <1>1, <2>1
  <2>3. Refresh!Rest[Len(Refresh!Rest)] = v10[Len(v10)]
    BY <1>1, <2>2
  <2> QED
    BY <2>1, <2>2, <2>3 DEF Refresh!Guards
<1>3. Len(v10) = 1 => Refresh!Rest = <<>>
  <2>1. Len(Refresh!Rest) = 0 => Refresh!Rest = <<>>
    BY <1>1
  <2> QED
    BY <1>1, <2>1
<1>4. Refresh!Drains(v10) /\ ~Refresh!At("drain") => Refresh!Drains(Refresh!Rest)
  <2>1. ASSUME NEW i \in 1 .. Len(v10), v10[i].do = "drain", ~Refresh!At("drain")
        PROVE  Refresh!Drains(Refresh!Rest)
    <3>1. i # 1
      BY <1>1, <2>1 DEF Refresh!At
    <3> DEFINE k == i - 1
    <3>2. k \in 1 .. Len(Refresh!Rest) /\ k + 1 = i
      BY <1>1, <3>1
    <3> HIDE DEF k
    <3>3. Refresh!Rest[k].do = "drain"
      BY <1>1, <2>1, <3>2
    <3> QED
      BY <1>1, <3>2, <3>3 DEF Refresh!Drains
  <2> QED
    BY <1>1, <2>1 DEF Refresh!Drains
<1>5. Refresh!AllLater(<<>>)
  BY DEF Refresh!AllLater
<1>6. CASE v10 \in {<<Refresh!Do("internal")>>, <<Refresh!Do("safe")>>}
  <2>2. Refresh!Do("internal").do = "internal" /\ Refresh!Do("safe").do = "safe"
    BY DEF Refresh!Do, Refresh!To
  <2>1. Head(v10).do \in {"internal", "safe"} /\ Len(v10) = 1
    BY <1>6, <2>2
  <2> QED
    BY <1>1, <1>3, <1>4, <1>5, <2>1
<1>7. CASE Refresh!Guards(v10)
  <2>1. Len(v10) = 1 => Head(v10).do \in {"guard", "boot"}
    BY <1>1, <1>7 DEF Refresh!Guards
  <2>2. ~Refresh!At("show") => Refresh!AllLater(Refresh!Rest)
    <3>1. CASE Refresh!AllLater(Refresh!Rest)
      BY <3>1
    <3>2. CASE Refresh!At("show")
      BY <3>2
    <3>3. CASE v10 \in {<<Refresh!Do("internal")>>, <<Refresh!Do("safe")>>}
      BY <1>6, <3>3
    <3> QED
      BY <3>1, <3>2, <3>3 DEF Refresh!RefreshInv, Refresh!AgendaEnds
  <2>3. Len(v10) = 1 \/ Len(v10) > 1
    BY <1>1
  <2>4. CASE Len(v10) = 1
    BY <1>1, <1>3, <1>4, <2>1, <2>2, <2>4
  <2>5. CASE Len(v10) > 1
    BY <1>1, <1>2, <1>4, <1>7, <2>2, <2>5
  <2> QED
    BY <2>3, <2>4, <2>5
<1> QED
  BY <1>6, <1>7 DEF Refresh!RefreshInv, Refresh!AgendaEnds

LEMMA RefreshContinues ==
  ASSUME Refresh!RefreshInv, v10 # <<>>, ~Refresh!At("show"), Refresh!Continue
  PROVE  /\ v10' \in Seq(Refresh!Steps) /\ Refresh!AgendaEnds'
         /\ v10' # <<>> => Head(v10').do \in Refresh!Later
         /\ Refresh!Drains(v10) /\ ~Refresh!At("drain") => Refresh!Drains(v10')
<1>1. /\ v10' \in Seq(Refresh!Steps) /\ Refresh!AllLater(v10') /\ (v10' = <<>>
         \/ Refresh!Guards(v10'))
      /\ Refresh!Drains(v10) /\ ~Refresh!At("drain") => Refresh!Drains(v10')
  BY RefreshRest DEF Refresh!Continue
<1>2. ASSUME v10' # <<>>
      PROVE  Head(v10').do \in Refresh!Later /\ Refresh!AllLater(Tail(v10'))
  <2>1. /\ Head(v10') = v10'[1] /\ 1 \in DOMAIN v10'
        /\ DOMAIN Tail(v10') = 1 .. Len(Tail(v10'))
        /\ \A i \in 1 .. Len(Tail(v10')) : i + 1 \in DOMAIN v10'
           /\ Tail(v10')[i] = v10'[i + 1]
    BY <1>1, <1>2
  <2> QED
    BY <1>1, <2>1 DEF Refresh!AllLater
<1>3. Refresh!AgendaEnds'
  BY <1>1, <1>2 DEF Refresh!AgendaEnds, Refresh!Rest, Refresh!At, Refresh!Later
<1> QED
  BY <1>1, <1>2, <1>3

LEMMA RefreshPuts ==
  ASSUME Refresh!RefreshInv, v10 # <<>>, Refresh!Plain(Head(v10).do),
         NEW new \in Seq(Refresh!Steps), new # <<>>, new[1].do # "show",
         Refresh!Behind(new),
         v10' = new \o Refresh!Rest
  PROVE  /\ v10' \in Seq(Refresh!Steps) /\ Refresh!AgendaEnds' /\ v10' # <<>>
         /\ Head(v10') = new[1]
         /\ Refresh!Drains(new) \/ (Refresh!Drains(v10)
            /\ ~Refresh!At("drain")) => Refresh!Drains(v10')
<1>1. /\ Refresh!Rest \in Seq(Refresh!Steps) /\ Refresh!Guards(Refresh!Rest)
         /\ Refresh!AllLater(Refresh!Rest)
      /\ Refresh!Drains(v10) /\ ~Refresh!At("drain") => Refresh!Drains(Refresh!Rest)
  BY RefreshRest DEF Refresh!Plain, Refresh!At
<1>2. /\ v10' \in Seq(Refresh!Steps) /\ Refresh!Guards(v10')
         /\ Refresh!AllLater(Tail(v10'))
      /\ v10'[1] = new[1] /\ (Refresh!Drains(Refresh!Rest)
         \/ Refresh!Drains(new) => Refresh!Drains(v10'))
  BY <1>1, RefreshPut
<1>3. v10' # <<>> /\ Head(v10') = v10'[1]
  BY <1>2 DEF Refresh!Guards
<1>4. Refresh!AgendaEnds'
  BY <1>2, <1>3 DEF Refresh!AgendaEnds, Refresh!Rest, Refresh!At
<1> QED
  BY <1>1, <1>2, <1>3, <1>4

LEMMA RefreshThrows ==
  ASSUME Refresh!RefreshInv, v10 # <<>>, Refresh!Plain(Head(v10).do),
         v10' = Refresh!Thrown(Refresh!Rest)
  PROVE  /\ v10' \in Seq(Refresh!Steps) /\ Refresh!AgendaEnds' /\ v10' # <<>>
         /\ Head(v10').do \in {"internal", "safe", "reset", "finallyOnce", "drain"}
         /\ Refresh!Drains(v10) /\ ~Refresh!At("drain") => Refresh!Drains(v10')
<1>1. /\ Refresh!Rest \in Seq(Refresh!Steps) /\ Refresh!Guards(Refresh!Rest)
         /\ Refresh!AllLater(Refresh!Rest)
      /\ Refresh!Drains(v10) /\ ~Refresh!At("drain") => Refresh!Drains(Refresh!Rest)
  BY RefreshRest DEF Refresh!Plain, Refresh!At
<1>2. /\ v10' \in Seq(Refresh!Steps) /\ v10' # <<>> /\ Refresh!AllLater(Tail(v10'))
      /\ v10' \in {<<Refresh!Do("internal")>>, <<Refresh!Do("safe")>>}
         \/ Refresh!Guards(v10')
      /\ v10'[1].do \in {"internal", "safe", "reset", "finallyOnce", "drain"}
      /\ Refresh!Drains(Refresh!Rest) => Refresh!Drains(v10')
  BY <1>1, RefreshThrown
<1>3. Head(v10') = v10'[1]
  BY <1>2
<1>4. Refresh!AgendaEnds'
  BY <1>2, <1>3 DEF Refresh!AgendaEnds, Refresh!Rest, Refresh!At
<1> QED
  BY <1>1, <1>2, <1>3, <1>4

\* A callback that begins.
LEMMA RefreshCalls ==
  ASSUME NEW steps \in Seq(Refresh!Steps), steps # <<>>, steps[1].do # "show",
         Refresh!Behind(steps), Refresh!Guarded(steps)
  PROVE  /\ v10' \in Seq(Refresh!Steps) /\ Refresh!AgendaEnds' /\ v10' # <<>>
         /\ Head(v10') = steps[1] /\ (Refresh!Drains(steps) => Refresh!Drains(v10'))
<1> DEFINE guard == <<Refresh!Do("guard")>>
<1>1. /\ Refresh!Do("guard") \in Refresh!Steps /\ Refresh!Do("guard").do = "guard"
         /\ "guard" \in Refresh!Later
  BY RefreshSteps DEF Refresh!Actions, Refresh!Handlers, Refresh!Later
<1>2. /\ guard \in Seq(Refresh!Steps) /\ Len(guard) = 1 /\ DOMAIN guard = {1}
      /\ guard[1] = Refresh!Do("guard") /\ guard # <<>>
  BY <1>1
<1>3. Refresh!Guards(guard) /\ Refresh!AllLater(guard)
  BY <1>1, <1>2 DEF Refresh!Guards, Refresh!AllLater
<1> HIDE DEF guard
<1>4. v10' = steps \o guard
  BY DEF Refresh!Guarded, guard
<1>5. /\ v10' \in Seq(Refresh!Steps) /\ Refresh!Guards(v10')
         /\ Refresh!AllLater(Tail(v10'))
      /\ v10'[1] = steps[1] /\ (Refresh!Drains(steps) => Refresh!Drains(v10'))
  BY <1>2, <1>3, <1>4, RefreshPut
<1>6. v10' # <<>> /\ Head(v10') = v10'[1]
  BY <1>5 DEF Refresh!Guards
<1>7. Refresh!AgendaEnds'
  BY <1>5, <1>6 DEF Refresh!AgendaEnds, Refresh!Rest, Refresh!At
<1> QED
  BY <1>5, <1>6, <1>7

\* A step that leaves the values alone, and was not what they waited for.
LEMMA RefreshKept ==
  ASSUME Refresh!RefreshInv, v10 # <<>>, UNCHANGED <<v1, v3, v4, v5>>,
         v2' \in BOOLEAN, v10' \in Seq(Refresh!Steps), Refresh!AgendaEnds',
         Head(v10).do \notin {"once", "reset", "show", "spawnOnce", "load", "drain"},
         v10' # <<>> =>
           Head(v10').do \notin {"show", "spawnOnce", "latest", "finallyLatest"},
         Refresh!Drains(v10) => Refresh!Drains(v10')
  PROVE  Refresh!RefreshInv'
<1>1. Refresh!ValuesOK' /\ Refresh!HeadsOK'
  BY DEF Refresh!RefreshInv, Refresh!ValuesOK, Refresh!HeadsOK, Refresh!At
<1>2. Refresh!RefreshIsReal'
  BY DEF Refresh!RefreshInv, Refresh!RefreshIsReal, Refresh!At
<1>3. Refresh!WaitsAreDue'
  BY DEF Refresh!RefreshInv, Refresh!WaitsAreDue, Refresh!At
<1>4. Refresh!Stopped'
  BY DEF Refresh!RefreshInv, Refresh!Stopped
<1> QED
  BY <1>1, <1>2, <1>3, <1>4 DEF Refresh!RefreshInv

\* The applet stops refreshing.
LEMMA RefreshStops ==
  ASSUME Refresh!RefreshInv,
         Refresh!At("timer") \/ Refresh!At("internal") \/ Refresh!At("safe"),
         Refresh!Continue, Refresh!EnterSafeMode,
         v2' \in BOOLEAN
  PROVE  Refresh!RefreshInv'
<1>1. /\ v10 # <<>> /\ ~Refresh!At("show") /\ ~Refresh!At("drain")
         /\ v10' \in Seq(Refresh!Steps) /\ Refresh!AgendaEnds'
      /\ v10' # <<>> => Head(v10').do \in Refresh!Later
      /\ Refresh!Drains(v10) => Refresh!Drains(v10')
  BY RefreshContinues DEF Refresh!At
<1>2. v10' # <<>> =>
        Head(v10').do \notin {"show", "spawnOnce", "latest", "finallyLatest"}
  BY <1>1 DEF Refresh!Later
<1>3. CASE v5 = "works"
  <2>1. /\ v5' = "safe" /\ v3' = FALSE /\ v4' = Refresh!NoWaits /\ v1' = "none"
    BY <1>3 DEF Refresh!EnterSafeMode
  <2>2. Refresh!NoWaits
        \in [cache : BOOLEAN, cacheAfter : BOOLEAN, fresh : BOOLEAN, reactivation : BOOLEAN]
    BY DEF Refresh!NoWaits
  <2>3. Refresh!ValuesOK'
    BY <1>1, <2>1, <2>2 DEF Refresh!ValuesOK
  <2>4. Refresh!HeadsOK'
    BY <1>2 DEF Refresh!HeadsOK, Refresh!At
  <2>5. Refresh!Stopped'
    BY <2>1 DEF Refresh!Stopped, Refresh!NoWaits
  <2> QED
    BY <1>1, <2>1, <2>3, <2>4, <2>5 DEF Refresh!RefreshInv, Refresh!RefreshIsReal,
       Refresh!WaitsAreDue
<1>4. CASE v5 # "works"
  BY <1>1, <1>2, <1>4, RefreshKept DEF Refresh!EnterSafeMode, Refresh!At
<1> QED
  BY <1>3, <1>4

\* A command is started, or its answer follows at once.
LEMMA RefreshSpawns ==
  ASSUME Refresh!RefreshInv, NEW command \in {"latest", "once"}, NEW flag \in BOOLEAN,
         v10 # <<>>, Refresh!Plain(Head(v10).do), Refresh!SpawnUsageCommand(command,
         flag)
  PROVE  /\ v10' \in Seq(Refresh!Steps) /\ Refresh!AgendaEnds' /\ v2' \in BOOLEAN
         /\ \/ /\ v1' = command
               /\ v10' # <<>> => Head(v10').do \in Refresh!Later
            \/ /\ v1' = v1 /\ v10' # <<>> /\ Head(v10').do = command
               /\ Refresh!Drains(v10')
<1>1. command \in Refresh!Actions /\ "drain" \in Refresh!Actions
      /\ "guard" \in Refresh!Actions
  BY DEF Refresh!Actions, Refresh!Handlers
<1>2. CASE v1' = command /\ v10' = Refresh!Rest /\ v2' = (command = "latest" /\ flag)
  BY <1>2, RefreshContinues DEF Refresh!Continue, Refresh!Plain, Refresh!At
<1>3. ASSUME NEW late \in BOOLEAN, UNCHANGED <<v1, v2>>,
             \/ v10' = Refresh!CallbackOf(command, late) \o Refresh!Rest
             \/ v10' = Refresh!CallbackOf(command, late) \o <<Refresh!Do("guard")>> \o Refresh!Rest
      PROVE  /\ v10' \in Seq(Refresh!Steps) /\ Refresh!AgendaEnds' /\ v2' \in BOOLEAN
             /\ v1' = v1 /\ v10' # <<>> /\ Head(v10').do = command
             /\ Refresh!Drains(v10')
  <2>1. /\ Refresh!To(command, late) \in Refresh!Steps
           /\ Refresh!To(command, late).do = command
        /\ Refresh!Do("drain") \in Refresh!Steps /\ Refresh!Do("drain").do = "drain"
        /\ Refresh!Do("guard") \in Refresh!Steps /\ Refresh!Do("guard").do = "guard"
    BY <1>1, RefreshSteps
  <2> DEFINE two == Refresh!CallbackOf(command, late)
             end == <<Refresh!Do("guard")>>
  <2>2. /\ two \in Seq(Refresh!Steps) /\ DOMAIN two = 1 .. 2 /\ Len(two) = 2
        /\ end \in Seq(Refresh!Steps) /\ Len(end) = 1
    BY <2>1 DEF Refresh!CallbackOf
  <2>7. two[1].do = command /\ two[2].do = "drain" /\ end[1].do = "guard"
    BY <2>1 DEF Refresh!CallbackOf
  <2>3. PICK new \in {two, two \o end} : v10' = new \o Refresh!Rest
    BY <1>3
  <2> HIDE DEF two, end
  <2>4. /\ new \in Seq(Refresh!Steps) /\ new # <<>> /\ new[1].do = command
        /\ Refresh!Drains(new) /\ Refresh!Behind(new) /\ new[1].do # "show"
    <3>1. /\ two \o end \in Seq(Refresh!Steps) /\ DOMAIN (two \o end) = 1 .. 3
          /\ (two \o end)[1] = two[1] /\ (two \o end)[2] = two[2]
             /\ (two \o end)[3] = end[1]
      <4>1. /\ two \o end \in Seq(Refresh!Steps)
               /\ Len(two \o end) = Len(two) + Len(end)
            /\ \A i \in 1 .. Len(two) : (two \o end)[i] = two[i]
            /\ \A i \in 1 .. Len(end) : (two \o end)[Len(two) + i] = end[i]
        BY <2>2, RefreshRow
      <4>2. /\ Len(two \o end) = 3 /\ (two \o end)[Len(two) + 1] = end[1]
            /\ Len(two) = 2
        BY <2>2, <4>1
      <4>3. Len(two) + 1 = 3
        BY <4>2
      <4>4. (two \o end)[1] = two[1] /\ (two \o end)[2] = two[2]
        BY <4>1, <4>2
      <4> QED
        BY <4>1, <4>2, <4>3, <4>4
    <3>2. CASE new = two
      BY <2>2, <2>7, <3>2 DEF Refresh!Drains, Refresh!Behind, Refresh!Later
    <3>3. CASE new = two \o end
      BY <2>2, <2>7, <3>1, <3>3 DEF Refresh!Drains, Refresh!Behind, Refresh!Later
    <3> QED
      BY <2>3, <3>2, <3>3
  <2>5. /\ v10' \in Seq(Refresh!Steps) /\ Refresh!AgendaEnds' /\ v10' # <<>>
        /\ Head(v10') = new[1] /\ Refresh!Drains(v10')
    BY <2>3, <2>4, RefreshPuts
  <2>6. v2' \in BOOLEAN
    BY <1>3 DEF Refresh!RefreshInv, Refresh!ValuesOK
  <2> QED
    BY <1>3, <2>4, <2>5, <2>6
<1>4. (command = "latest" /\ flag) \in BOOLEAN
  OBVIOUS
<1>5. CASE /\ \E late \in {command = "latest" /\ flag} :
                \/ v10' = Refresh!CallbackOf(command, late) \o Refresh!Rest
                \/ v10' = Refresh!CallbackOf(command, late) \o <<Refresh!Do("guard")>> \o Refresh!Rest
           /\ UNCHANGED <<v1, v2>>
  BY <1>3, <1>4, <1>5
<1> QED
  BY <1>2, <1>5 DEF Refresh!SpawnUsageCommand

\* A refresh begins: it is shown, then `once' is started, and what throws is caught.
LEMMA RefreshOpens ==
  ASSUME Refresh!RefreshInv, v10 # <<>>, Refresh!Plain(Head(v10).do),
         v10' = <<Refresh!Do("show"), Refresh!Do("spawnOnce"),
         Refresh!Do("catch")>> \o Refresh!Rest
  PROVE  v10' \in Seq(Refresh!Steps) /\ Refresh!AgendaEnds' /\ v10' # <<>>
         /\ Head(v10').do = "show"
<1> DEFINE new == <<Refresh!Do("show"), Refresh!Do("spawnOnce"), Refresh!Do("catch")>>
<1>1. /\ Refresh!Rest \in Seq(Refresh!Steps) /\ Refresh!Guards(Refresh!Rest)
         /\ Refresh!AllLater(Refresh!Rest)
  BY RefreshRest DEF Refresh!Plain, Refresh!At
<1>2. /\ Refresh!Do("show") \in Refresh!Steps /\ Refresh!Do("show").do = "show"
      /\ Refresh!Do("spawnOnce") \in Refresh!Steps
         /\ Refresh!Do("spawnOnce").do = "spawnOnce"
      /\ Refresh!Do("catch") \in Refresh!Steps /\ Refresh!Do("catch").do = "catch"
  BY RefreshSteps DEF Refresh!Actions, Refresh!Handlers
<1>3. new \in Seq(Refresh!Steps) /\ Len(new) = 3 /\ DOMAIN new = 1 .. 3 /\ new # <<>>
  BY <1>2
<1>4. new[1].do = "show" /\ new[2].do = "spawnOnce" /\ new[3].do = "catch"
  BY <1>2
<1> HIDE DEF new
<1>5. v10' = new \o Refresh!Rest
  BY DEF new
<1>6. /\ v10' \in Seq(Refresh!Steps) /\ Len(v10') = Len(new) + Len(Refresh!Rest)
      /\ \A i \in 1 .. Len(new) : v10'[i] = new[i]
      /\ \A i \in 1 .. Len(Refresh!Rest) : v10'[Len(new) + i] = Refresh!Rest[i]
  BY <1>1, <1>3, <1>5, RefreshRow
<1>12. Refresh!Guards(v10')
  BY <1>1, <1>3, <1>5, RefreshPut
<1>7. /\ Len(Refresh!Rest) \in Nat /\ Len(Refresh!Rest) >= 1
         /\ Len(v10') = Len(Refresh!Rest) + 3
      /\ DOMAIN v10' = 1 .. Len(v10') /\ DOMAIN Refresh!Rest = 1 .. Len(Refresh!Rest)
  BY <1>1, <1>3, <1>6 DEF Refresh!Guards
<1>8. /\ v10'[1] = new[1] /\ v10'[2] = new[2] /\ v10'[3] = new[3]
      /\ \A i \in 1 .. Len(Refresh!Rest) : v10'[3 + i] = Refresh!Rest[i]
  BY <1>3, <1>6
<1>9. v10' # <<>> /\ Len(v10') > 2 /\ Head(v10') = v10'[1]
  BY <1>6, <1>7
<1>10. ASSUME NEW i \in DOMAIN v10', i > 2
       PROVE  v10'[i].do \in Refresh!Later
  <2>1. CASE i = 3
    BY <1>4, <1>8, <2>1 DEF Refresh!Later
  <2>2. CASE i # 3
    <3> DEFINE k == i - 3
    <3>1. k \in 1 .. Len(Refresh!Rest) /\ 3 + k = i
      BY <1>7, <1>10, <2>2
    <3> HIDE DEF k
    <3>2. v10'[i] = Refresh!Rest[k] /\ k \in DOMAIN Refresh!Rest
      BY <1>7, <1>8, <3>1
    <3> QED
      BY <1>1, <3>2 DEF Refresh!AllLater
  <2> QED
    BY <2>1, <2>2
<1>11. Refresh!AgendaEnds'
  BY <1>4, <1>8, <1>9, <1>10, <1>12 DEF Refresh!AgendaEnds, Refresh!At
<1> QED
  BY <1>4, <1>6, <1>8, <1>9, <1>11

\* The refresh that is shown goes on, or its handler takes it back.
LEMMA RefreshShows ==
  ASSUME Refresh!RefreshInv, Refresh!Show
  PROVE  Refresh!RefreshInv'
<1>1. /\ v10 # <<>> /\ Head(v10).do = "show"
         /\ v10' \in {Refresh!Rest, Refresh!Thrown(Refresh!Rest)}
      /\ UNCHANGED <<v1, v2, v3, v4, v5>>
  BY DEF Refresh!Show, Refresh!At, Refresh!MayThrow
<1>2. Refresh!Do("internal").do = "internal" /\ Refresh!Do("safe").do = "safe"
      /\ Head(v10) = v10[1]
  BY <1>1 DEF Refresh!Do, Refresh!To, Refresh!RefreshInv, Refresh!ValuesOK
<1>3. v10 \notin {<<Refresh!Do("internal")>>, <<Refresh!Do("safe")>>}
  BY <1>1, <1>2
<1>4. v10 \in Seq(Refresh!Steps) /\ Refresh!Guards(v10) /\ Len(v10) > 2
  BY <1>1, <1>3 DEF Refresh!RefreshInv, Refresh!ValuesOK, Refresh!AgendaEnds,
     Refresh!At
<1>5. /\ v10[2].do = "spawnOnce" /\ v10[3].do = "catch"
      /\ \A i \in DOMAIN v10 : i > 2 => v10[i].do \in Refresh!Later
  BY <1>1, <1>3 DEF Refresh!RefreshInv, Refresh!AgendaEnds, Refresh!At
<1> DEFINE n == Len(v10) - 1
<1>10. /\ Refresh!Rest \in Seq(Refresh!Steps) /\ Len(Refresh!Rest) = n
          /\ DOMAIN Refresh!Rest = 1 .. Len(Refresh!Rest)
       /\ \A i \in 1 .. Len(Refresh!Rest) : Refresh!Rest[i] = v10[i + 1]
       /\ Len(v10) \in Nat /\ DOMAIN v10 = 1 .. Len(v10)
  BY <1>1, <1>4 DEF Refresh!Rest
<1>11. n \in Nat /\ n >= 2 /\ n + 1 = Len(v10)
  BY <1>4, <1>10
<1>6. /\ Refresh!Rest \in Seq(Refresh!Steps) /\ Len(Refresh!Rest) = n
         /\ DOMAIN Refresh!Rest = 1 .. n /\ Refresh!Rest # <<>>
      /\ \A i \in 1 .. n : Refresh!Rest[i] = v10[i + 1]
      /\ Len(v10) \in Nat /\ n \in Nat /\ n >= 2 /\ n + 1 = Len(v10)
      /\ DOMAIN v10 = 1 .. Len(v10)
  BY <1>10, <1>11
<1> HIDE DEF n
<1>7. Refresh!Guards(Refresh!Rest)
  <2>1. Refresh!Rest[n] = v10[Len(v10)]
    BY <1>6
  <2> QED
    BY <1>4, <1>6, <2>1 DEF Refresh!Guards
<1>8. Refresh!Rest[1] = v10[2] /\ Refresh!Rest[2] = v10[3]
      /\ Head(Refresh!Rest) = Refresh!Rest[1]
  BY <1>6
<1>9. \A i \in 2 .. n : Refresh!Rest[i].do \in Refresh!Later
  <2>1. ASSUME NEW i \in 2 .. n
        PROVE  Refresh!Rest[i].do \in Refresh!Later
    <3>1. i + 1 \in DOMAIN v10 /\ i + 1 > 2 /\ Refresh!Rest[i] = v10[i + 1]
      BY <1>6
    <3> QED
      BY <1>5, <3>1
  <2> QED
    BY <2>1
<1>12. CASE v10' = Refresh!Rest
  <2>1. /\ v10' \in Seq(Refresh!Steps) /\ Head(v10') = v10'[1] /\ v10' # <<>>
        /\ Tail(v10') \in Seq(Refresh!Steps)
           /\ DOMAIN Tail(v10') = 1 .. Len(Tail(v10'))
        /\ Len(Tail(v10')) = n - 1
        /\ \A i \in 1 .. Len(Tail(v10')) : Tail(v10')[i] = v10'[i + 1]
    BY <1>6, <1>12
  <2>2. \A i \in 1 .. Len(Tail(v10')) : i + 1 \in 2 .. n
    BY <1>6, <2>1
  <2>3. Refresh!AllLater(Tail(v10'))
    BY <1>9, <1>12, <2>1, <2>2 DEF Refresh!AllLater
  <2>4. Head(v10').do = "spawnOnce"
    BY <1>5, <1>8, <1>12
  <2>5. Refresh!AgendaEnds'
    BY <1>7, <1>12, <2>3, <2>4 DEF Refresh!AgendaEnds, Refresh!At, Refresh!Rest
  <2>6. Refresh!Drains(v10) => Refresh!Drains(v10')
    BY <1>1, <1>12, RefreshRest DEF Refresh!At
  <2>7. Refresh!ValuesOK' /\ Refresh!HeadsOK'
    BY <1>1, <2>1, <2>4 DEF Refresh!RefreshInv, Refresh!ValuesOK, Refresh!HeadsOK,
       Refresh!At
  <2>8. Refresh!RefreshIsReal'
    BY <1>1, <2>1, <2>4 DEF Refresh!RefreshInv, Refresh!RefreshIsReal, Refresh!At
  <2>9. Refresh!WaitsAreDue'
    BY <1>1, <2>1, <2>4, <2>6 DEF Refresh!RefreshInv, Refresh!WaitsAreDue, Refresh!At
  <2>10. Refresh!Stopped'
    BY <1>1, <2>1, <2>4 DEF Refresh!RefreshInv, Refresh!Stopped, Refresh!HeadsOK,
       Refresh!At
  <2> QED
    BY <2>5, <2>7, <2>8, <2>9, <2>10 DEF Refresh!RefreshInv
<1>13. CASE v10' = Refresh!Thrown(Refresh!Rest)
  <2> DEFINE outer == SubSeq(Refresh!Rest, 3, Len(Refresh!Rest))
             new == <<Refresh!Do("reset"), Refresh!Do("throw")>>
             IsFirst(i) == /\ Refresh!Rest[i].do \in Refresh!Handlers
                           /\ \A j \in 1 .. (i - 1) :
                                Refresh!Rest[j].do \notin Refresh!Handlers
  <2>1. Refresh!Rest[1].do \notin Refresh!Handlers
        /\ Refresh!Rest[2].do \in Refresh!Handlers
    BY <1>5, <1>8 DEF Refresh!Handlers
  <2>2. 2 \in 1 .. n /\ IsFirst(2)
    <3>1. \A j \in 1 .. (2 - 1) : j = 1
      OBVIOUS
    <3> QED
      BY <1>6, <2>1, <3>1
  <2>3. \A i \in 1 .. n : IsFirst(i) => i = 2
    <3>1. ASSUME NEW i \in 1 .. n, IsFirst(i), i # 2
          PROVE  FALSE
      <4>1. i # 1
        BY <2>1, <3>1
      <4>2. 2 \in 1 .. (i - 1)
        BY <1>6, <3>1, <4>1
      <4> QED
        BY <2>1, <3>1, <4>2
    <3> QED
      BY <3>1
  <2>4. (CHOOSE i \in DOMAIN Refresh!Rest : IsFirst(i)) = 2
    BY <1>6, <2>2, <2>3
  <2>5. Refresh!Rest[2].do = "catch" /\ 2 + 1 = 3
    BY <1>5, <1>8
  <2>6. Refresh!Thrown(Refresh!Rest) = new \o outer
    BY <2>4, <2>5 DEF Refresh!Thrown
  <2>7. /\ outer \in Seq(Refresh!Steps) /\ Len(outer) = n - 2
           /\ DOMAIN outer = 1 .. Len(outer)
        /\ \A i \in 1 .. Len(outer) : outer[i] = Refresh!Rest[2 + i]
    BY <1>6
  <2>8. n > 2
    <3>1. n # 2
      BY <1>5, <1>7, <1>8, <1>6 DEF Refresh!Guards
    <3> QED
      BY <1>6, <3>1
  <2> HIDE DEF outer
  <2>9. Refresh!Guards(outer) /\ Refresh!AllLater(outer)
    <3>1. n - 2 \in 1 .. Len(outer) /\ 2 + (n - 2) = n
      BY <1>6, <2>7, <2>8
    <3>2. outer[Len(outer)] = Refresh!Rest[n] /\ outer # <<>>
      BY <2>7, <3>1
    <3>3. \A i \in 1 .. Len(outer) : 2 + i \in 2 .. n
      BY <1>6, <2>7
    <3>4. Refresh!AllLater(outer)
      BY <1>9, <2>7, <3>3 DEF Refresh!AllLater
    <3> QED
      BY <1>6, <1>7, <3>2, <3>4 DEF Refresh!Guards
  <2>10. Refresh!Do("reset") \in Refresh!Steps
         /\ Refresh!Do("throw") \in Refresh!Steps /\ Refresh!Do("reset").do = "reset"
         /\ Refresh!Do("throw").do = "throw"
    BY RefreshSteps DEF Refresh!Actions
  <2>11. new \in Seq(Refresh!Steps) /\ new # <<>> /\ DOMAIN new = 1 .. 2
    BY <2>10
  <2>12. new[1].do = "reset" /\ new[2].do = "throw"
    BY <2>10
  <2> HIDE DEF new
  <2>13. Refresh!Behind(new)
    BY <2>11, <2>12 DEF Refresh!Behind, Refresh!Later
  <2>14. /\ v10' \in Seq(Refresh!Steps) /\ Refresh!Guards(v10')
            /\ Refresh!AllLater(Tail(v10'))
         /\ v10'[1] = new[1] /\ (Refresh!Drains(outer) => Refresh!Drains(v10'))
    BY <1>13, <2>6, <2>7, <2>9, <2>11, <2>13, RefreshPut
  <2>15. v10' # <<>> /\ Head(v10') = v10'[1]
    BY <2>14 DEF Refresh!Guards
  <2>16. Head(v10').do = "reset"
    BY <2>12, <2>14, <2>15
  <2>17. Refresh!AgendaEnds'
    BY <2>14, <2>16 DEF Refresh!AgendaEnds, Refresh!At, Refresh!Rest
  <2>18. Refresh!Drains(v10) => Refresh!Drains(v10')
    <3>1. Refresh!Drains(v10) => Refresh!Drains(Refresh!Rest)
      BY <1>1, RefreshRest DEF Refresh!At
    <3>2. Refresh!Drains(Refresh!Rest) => Refresh!Drains(outer)
      <4>1. ASSUME NEW i \in 1 .. n, Refresh!Rest[i].do = "drain"
            PROVE  Refresh!Drains(outer)
        <5>1. i # 1 /\ i # 2
          BY <1>5, <1>8, <4>1
        <5> DEFINE k == i - 2
        <5>2. k \in 1 .. Len(outer) /\ 2 + k = i
          BY <1>6, <2>7, <5>1
        <5> HIDE DEF k
        <5>3. outer[k].do = "drain"
          BY <2>7, <4>1, <5>2
        <5> QED
          BY <2>7, <5>2, <5>3 DEF Refresh!Drains
      <4> QED
        BY <1>6, <4>1 DEF Refresh!Drains
    <3> QED
      BY <2>14, <3>1, <3>2
  <2>19. Refresh!ValuesOK' /\ Refresh!HeadsOK'
    BY <1>1, <2>14, <2>16 DEF Refresh!RefreshInv, Refresh!ValuesOK, Refresh!HeadsOK,
       Refresh!At
  <2>20. Refresh!RefreshIsReal'
    BY <1>1, <2>15, <2>16 DEF Refresh!RefreshInv, Refresh!RefreshIsReal, Refresh!At
  <2>21. Refresh!WaitsAreDue'
    BY <1>1, <2>16, <2>18 DEF Refresh!RefreshInv, Refresh!WaitsAreDue, Refresh!At
  <2>22. Refresh!Stopped'
    BY <1>1 DEF Refresh!RefreshInv, Refresh!Stopped, Refresh!HeadsOK, Refresh!At
  <2> QED
    BY <2>17, <2>19, <2>20, <2>21, <2>22 DEF Refresh!RefreshInv
<1> QED
  BY <1>1, <1>12, <1>13

\* The steps of the answers.
LEMMA RefreshLatest ==
  ASSUME Refresh!RefreshInv, Refresh!LatestAnswers
  PROVE  /\ Refresh!RefreshInv'
         /\ v10' # <<>> => Head(v10').do \in Refresh!Later \cup {"finallyLatest"}
<1>1. /\ v10 # <<>> /\ Head(v10).do = "latest" /\ Refresh!Plain(Head(v10).do)
      /\ UNCHANGED <<v1, v2, v3, v4, v5>>
  BY DEF Refresh!LatestAnswers, Refresh!At, Refresh!Plain
<1>2. Refresh!Flag \in BOOLEAN /\ Refresh!Drains(v10)
  BY <1>1, RefreshRest DEF Refresh!Steps, Refresh!Flag, Refresh!RefreshInv,
     Refresh!HeadsOK, Refresh!At
<1>3. v2' \in BOOLEAN
  BY <1>1 DEF Refresh!RefreshInv, Refresh!ValuesOK
<1>4. CASE v5 = "safe"
  <2>1. v10' = Refresh!Rest
    BY <1>4 DEF Refresh!LatestAnswers
  <2>2. /\ v10' \in Seq(Refresh!Steps) /\ Refresh!AgendaEnds' /\ Refresh!Drains(v10')
        /\ v10' # <<>> => Head(v10').do \in Refresh!Later
    BY <1>1, <1>2, <2>1, RefreshContinues DEF Refresh!Continue, Refresh!At
  <2> QED
    BY <1>1, <1>3, <2>2, RefreshKept DEF Refresh!Later
<1>5. CASE v5 # "safe"
  <2>1. v5 = "works"
    BY <1>1, <1>5 DEF Refresh!RefreshInv, Refresh!ValuesOK, Refresh!Stopped
  <2> DEFINE x == Refresh!To("finallyLatest", Refresh!Flag)
             new == <<x>>
             all == new \o Refresh!Rest
  <2>2. x \in Refresh!Steps /\ x.do = "finallyLatest"
    BY <1>2, RefreshSteps DEF Refresh!Actions, Refresh!Handlers
  <2>3. new \in Seq(Refresh!Steps) /\ Len(new) = 1 /\ DOMAIN new = 1 .. 1
        /\ new[1] = x /\ new # <<>>
    BY <2>2
  <2>4. Refresh!Behind(new)
    BY <2>3 DEF Refresh!Behind
  <2>5. Refresh!Rest \in Seq(Refresh!Steps) /\ Refresh!Guards(Refresh!Rest)
        /\ Refresh!AllLater(Refresh!Rest) /\ Refresh!Drains(Refresh!Rest)
    BY <1>1, <1>2, RefreshRest DEF Refresh!Plain, Refresh!At
  <2> HIDE DEF new
  <2>7. ASSUME v10' = Refresh!Thrown(all)
        PROVE  /\ v10' \in Seq(Refresh!Steps) /\ Refresh!AgendaEnds'
                  /\ Refresh!Drains(v10') /\ v10' # <<>>
               /\ Head(v10').do = "finallyLatest"
    <3> DEFINE outer == SubSeq(all, 2, Len(all))
               IsFirst(i) == /\ all[i].do \in Refresh!Handlers
                             /\ \A j \in 1 .. (i - 1) :
                                  all[j].do \notin Refresh!Handlers
    <3>1. /\ all \in Seq(Refresh!Steps) /\ Len(all) = 1 + Len(Refresh!Rest)
             /\ all[1] = x
          /\ \A i \in 1 .. Len(Refresh!Rest) : all[1 + i] = Refresh!Rest[i]
      <4>1. /\ all \in Seq(Refresh!Steps) /\ Len(all) = Len(new) + Len(Refresh!Rest)
            /\ \A i \in 1 .. Len(new) : all[i] = new[i]
            /\ \A i \in 1 .. Len(Refresh!Rest) : all[Len(new) + i] = Refresh!Rest[i]
        BY <2>3, <2>5, RefreshRow
      <4> QED
        BY <2>3, <4>1
    <3> HIDE DEF all
    <3>2. Len(Refresh!Rest) \in Nat /\ DOMAIN all = 1 .. Len(all) /\ Len(all) \in Nat
      BY <2>5, <3>1
    <3>3. 1 \in DOMAIN all /\ IsFirst(1)
      <4>1. "finallyLatest" \in Refresh!Handlers
        BY DEF Refresh!Handlers
      <4>2. \A j \in 1 .. (1 - 1) : FALSE
        OBVIOUS
      <4> QED
        BY <2>2, <3>1, <3>2, <4>1, <4>2
    <3>4. \A i \in DOMAIN all : IsFirst(i) => i = 1
      <4>1. ASSUME NEW i \in DOMAIN all, IsFirst(i), i # 1
            PROVE  FALSE
        <5>1. 1 \in 1 .. (i - 1)
          BY <3>2, <4>1
        <5> QED
          BY <3>3, <4>1, <5>1
      <4> QED
        BY <4>1
    <3>5. (CHOOSE i \in DOMAIN all : IsFirst(i)) = 1 /\ 1 + 1 = 2
      BY <3>3, <3>4
    <3>6. Refresh!Thrown(all) = <<x, Refresh!Do("throw")>> \o outer
      BY <2>2, <3>1, <3>5 DEF Refresh!Thrown
    <3>7. /\ outer \in Seq(Refresh!Steps) /\ Len(outer) = Len(Refresh!Rest)
          /\ \A i \in 1 .. Len(outer) : outer[i] = all[1 + i]
      BY <3>1, <3>2
    <3>8. outer = Refresh!Rest
      BY <2>5, <3>1, <3>7, SeqEqual
    <3> DEFINE two == <<x, Refresh!Do("throw")>>
    <3>9. Refresh!Do("throw") \in Refresh!Steps /\ Refresh!Do("throw").do = "throw"
      BY RefreshSteps DEF Refresh!Actions
    <3>10. two \in Seq(Refresh!Steps) /\ two # <<>> /\ DOMAIN two = 1 .. 2
           /\ two[1] = x
           /\ two[2] = Refresh!Do("throw")
      BY <2>2, <3>9
    <3> HIDE DEF two
    <3>11. v10' = two \o Refresh!Rest
      BY <2>7, <3>6, <3>8 DEF two
    <3>12. Refresh!Behind(two)
      BY <3>9, <3>10 DEF Refresh!Behind, Refresh!Later
    <3> QED
      BY <1>1, <1>2, <2>2, <3>10, <3>11, <3>12, RefreshPuts DEF Refresh!At
  <2>8. /\ v10' \in Seq(Refresh!Steps) /\ Refresh!AgendaEnds'
           /\ Refresh!Drains(v10') /\ v10' # <<>>
        /\ Head(v10').do = "finallyLatest"
    <3>1. v10' \in {all, Refresh!Thrown(all)}
      BY <1>5 DEF Refresh!LatestAnswers, new
    <3>2. CASE v10' = all
      BY <1>1, <1>2, <2>2, <2>3, <2>4, <3>2, RefreshPuts DEF Refresh!At
    <3>3. CASE v10' = Refresh!Thrown(all)
      BY <2>7, <3>3
    <3> QED
      BY <3>1, <3>2, <3>3
  <2>9. Refresh!ValuesOK' /\ Refresh!HeadsOK'
    BY <1>1, <1>3, <2>1, <2>8 DEF Refresh!RefreshInv, Refresh!ValuesOK,
       Refresh!HeadsOK, Refresh!At
  <2>10. Refresh!RefreshIsReal' /\ Refresh!WaitsAreDue' /\ Refresh!Stopped'
    BY <1>1, <2>1, <2>8 DEF Refresh!RefreshInv, Refresh!RefreshIsReal,
       Refresh!WaitsAreDue, Refresh!Stopped, Refresh!At
  <2> QED
    BY <2>8, <2>9, <2>10 DEF Refresh!RefreshInv
<1> QED
  BY <1>4, <1>5

\* One step in front of the rest.
LEMMA RefreshOne ==
  ASSUME Refresh!RefreshInv, v10 # <<>>, Refresh!Plain(Head(v10).do),
         NEW do \in Refresh!Actions \ {"show"}, NEW flag
         \in BOOLEAN, v10' = <<Refresh!To(do, flag)>> \o Refresh!Rest
  PROVE  /\ v10' \in Seq(Refresh!Steps) /\ Refresh!AgendaEnds' /\ v10' # <<>>
            /\ Head(v10').do = do
         /\ Refresh!Drains(v10) /\ ~Refresh!At("drain") => Refresh!Drains(v10')
<1> DEFINE new == <<Refresh!To(do, flag)>>
<1>1. Refresh!To(do, flag) \in Refresh!Steps /\ Refresh!To(do, flag).do = do
  BY RefreshSteps
<1>2. new \in Seq(Refresh!Steps) /\ new # <<>> /\ DOMAIN new = 1 .. 1
      /\ new[1] = Refresh!To(do, flag)
  BY <1>1
<1> HIDE DEF new
<1>3. Refresh!Behind(new)
  BY <1>2 DEF Refresh!Behind
<1>4. v10' = new \o Refresh!Rest
  BY DEF new
<1> QED
  BY <1>1, <1>2, <1>3, <1>4, RefreshPuts

LEMMA RefreshLoad ==
  ASSUME Refresh!RefreshInv, Refresh!LoadCached
  PROVE  Refresh!RefreshInv'
<1>1. /\ v10 # <<>> /\ Head(v10).do = "load" /\ Refresh!Plain(Head(v10).do)
      /\ UNCHANGED <<v3, v5>>
  BY DEF Refresh!LoadCached, Refresh!At, Refresh!Plain
<1>2. Refresh!Flag \in BOOLEAN
  BY <1>1, RefreshRest DEF Refresh!Steps, Refresh!Flag
<1>3. Refresh!Continue =>
      /\ v10' \in Seq(Refresh!Steps)
      /\ Refresh!AgendaEnds'
      /\ (v10' # <<>> => Head(v10').do \in Refresh!Later)
      /\ (Refresh!Drains(v10) => Refresh!Drains(v10'))
  BY <1>1, RefreshContinues DEF Refresh!At
<1>4. CASE v5 # "works" /\ Refresh!Continue /\ UNCHANGED <<v1, v2, v4>>
  <2>1. Refresh!ValuesOK' /\ Refresh!HeadsOK'
    BY <1>1, <1>3, <1>4 DEF Refresh!RefreshInv, Refresh!ValuesOK, Refresh!HeadsOK,
       Refresh!At, Refresh!Later
  <2>2. Refresh!RefreshIsReal' /\ Refresh!WaitsAreDue' /\ Refresh!Stopped'
    BY <1>1, <1>3, <1>4 DEF Refresh!RefreshInv, Refresh!RefreshIsReal,
       Refresh!WaitsAreDue, Refresh!Stopped, Refresh!At
  <2> QED
    BY <1>3, <1>4, <2>1, <2>2 DEF Refresh!RefreshInv
<1>5. CASE /\ v5 = "works" /\ (v3 \/ v1 # "none")
           /\ v4' = [v4 EXCEPT !.cache = TRUE, !.cacheAfter = IF Refresh!Flag THEN TRUE ELSE @]
           /\ Refresh!Continue /\ UNCHANGED <<v1, v2>>
  <2>1. v4'
        \in [cache : BOOLEAN, cacheAfter : BOOLEAN, fresh : BOOLEAN, reactivation : BOOLEAN]
        /\ v4'.reactivation = v4.reactivation
    BY <1>5 DEF Refresh!RefreshInv, Refresh!ValuesOK
  <2>2. v1 # "none"
    BY <1>1, <1>5 DEF Refresh!RefreshInv, Refresh!RefreshIsReal, Refresh!At
  <2>3. Refresh!ValuesOK' /\ Refresh!HeadsOK'
    BY <1>1, <1>3, <1>5, <2>1 DEF Refresh!RefreshInv, Refresh!ValuesOK,
       Refresh!HeadsOK, Refresh!At, Refresh!Later
  <2>4. Refresh!RefreshIsReal' /\ Refresh!Stopped'
    BY <1>1, <1>3, <1>5 DEF Refresh!RefreshInv, Refresh!RefreshIsReal,
       Refresh!Stopped, Refresh!At
  <2>5. Refresh!WaitsAreDue'
    BY <1>1, <1>3, <1>5, <2>1, <2>2 DEF Refresh!RefreshInv, Refresh!WaitsAreDue,
       Refresh!At
  <2> QED
    BY <1>3, <1>5, <2>3, <2>4, <2>5 DEF Refresh!RefreshInv
<1>6. CASE /\ v5 = "works" /\ ~v3 /\ v1 = "none"
           /\ Refresh!SpawnUsageCommand("latest", Refresh!Flag) /\ UNCHANGED v4
  <2>1. /\ v10' \in Seq(Refresh!Steps) /\ Refresh!AgendaEnds' /\ v2' \in BOOLEAN
        /\ \/ /\ v1' = "latest"
              /\ v10' # <<>> => Head(v10').do \in Refresh!Later
           \/ /\ v1' = v1 /\ v10' # <<>> /\ Head(v10').do = "latest"
              /\ Refresh!Drains(v10')
    BY <1>1, <1>2, <1>6, RefreshSpawns
  <2>2. Refresh!ValuesOK' /\ Refresh!HeadsOK'
    BY <1>1, <1>6, <2>1 DEF Refresh!RefreshInv, Refresh!ValuesOK, Refresh!HeadsOK,
       Refresh!At, Refresh!Later
  <2>3. Refresh!RefreshIsReal' /\ Refresh!Stopped'
    BY <1>1, <1>6, <2>1 DEF Refresh!RefreshInv, Refresh!RefreshIsReal,
       Refresh!Stopped, Refresh!At
  <2>4. Refresh!WaitsAreDue'
    BY <1>1, <1>6, <2>1 DEF Refresh!RefreshInv, Refresh!WaitsAreDue, Refresh!At
  <2> QED
    BY <2>1, <2>2, <2>3, <2>4 DEF Refresh!RefreshInv
<1>7. CASE v5 # "works"
  BY <1>4, <1>7 DEF Refresh!LoadCached
<1>8. CASE v5 = "works" /\ (v3 \/ v1 # "none")
  BY <1>5, <1>8 DEF Refresh!LoadCached
<1>9. CASE v5 = "works" /\ ~(v3 \/ v1 # "none")
  BY <1>6, <1>9 DEF Refresh!LoadCached
<1> QED
  BY <1>7, <1>8, <1>9

LEMMA RefreshFinallyLatest ==
  ASSUME Refresh!RefreshInv, Refresh!FinallyLatest
  PROVE  Refresh!RefreshInv'
<1>1. /\ v10 # <<>> /\ Head(v10).do = "finallyLatest" /\ Refresh!Plain(Head(v10).do)
      /\ UNCHANGED <<v1, v2, v3, v5>>
      /\ Refresh!Drains(v10) /\ v5 = "works"
  BY DEF Refresh!FinallyLatest, Refresh!At, Refresh!Plain, Refresh!RefreshInv,
     Refresh!HeadsOK
<1>2. v4'
      \in [cache : BOOLEAN, cacheAfter : BOOLEAN, fresh : BOOLEAN, reactivation : BOOLEAN]
      /\ v4'.reactivation = v4.reactivation
  BY DEF Refresh!RefreshInv, Refresh!ValuesOK, Refresh!FinallyLatest
<1>3. /\ v10' \in Seq(Refresh!Steps) /\ Refresh!AgendaEnds' /\ Refresh!Drains(v10')
      /\ v10' # <<>> => Head(v10').do \in Refresh!Later
  <2>1. CASE Refresh!Continue
    BY <1>1, <2>1, RefreshContinues DEF Refresh!At
  <2>2. CASE v10' = <<Refresh!Do("fresh"), Refresh!Do("guard")>> \o Refresh!Rest
    <3> DEFINE new == <<Refresh!Do("fresh"), Refresh!Do("guard")>>
    <3>1. /\ Refresh!Do("fresh") \in Refresh!Steps /\ Refresh!Do("fresh").do = "fresh"
          /\ Refresh!Do("guard") \in Refresh!Steps /\ Refresh!Do("guard").do = "guard"
      BY RefreshSteps DEF Refresh!Actions, Refresh!Handlers
    <3>2. /\ new \in Seq(Refresh!Steps) /\ new # <<>> /\ DOMAIN new = 1 .. 2
          /\ new[1] = Refresh!Do("fresh") /\ new[2] = Refresh!Do("guard")
      BY <3>1
    <3> HIDE DEF new
    <3>3. Refresh!Behind(new) /\ new[1].do # "show" /\ new[1].do \in Refresh!Later
      BY <3>1, <3>2 DEF Refresh!Behind, Refresh!Later
    <3>4. v10' = new \o Refresh!Rest
      BY <2>2 DEF new
    <3> QED
      BY <1>1, <3>2, <3>3, <3>4, RefreshPuts DEF Refresh!At
  <2> QED
    BY <2>1, <2>2 DEF Refresh!FinallyLatest
<1>4. Refresh!ValuesOK' /\ Refresh!HeadsOK'
  BY <1>1, <1>2, <1>3 DEF Refresh!RefreshInv, Refresh!ValuesOK, Refresh!HeadsOK,
     Refresh!At, Refresh!Later
<1>5. Refresh!RefreshIsReal' /\ Refresh!Stopped'
  BY <1>1, <1>3 DEF Refresh!RefreshInv, Refresh!RefreshIsReal, Refresh!Stopped,
     Refresh!At
<1>6. Refresh!WaitsAreDue'
  BY <1>1, <1>2, <1>3 DEF Refresh!RefreshInv, Refresh!WaitsAreDue, Refresh!At
<1> QED
  BY <1>3, <1>4, <1>5, <1>6 DEF Refresh!RefreshInv

LEMMA RefreshAsks ==
  ASSUME Refresh!RefreshInv, Refresh!RefreshFresh
  PROVE  Refresh!RefreshInv'
<1>1. /\ v10 # <<>> /\ Head(v10).do = "fresh" /\ Refresh!Plain(Head(v10).do)
      /\ UNCHANGED <<v1, v2, v5>>
  BY DEF Refresh!RefreshFresh, Refresh!At, Refresh!Plain
<1>2. Refresh!Continue =>
      /\ v10' \in Seq(Refresh!Steps)
      /\ Refresh!AgendaEnds'
      /\ (v10' # <<>> => Head(v10').do \in Refresh!Later)
      /\ (Refresh!Drains(v10) => Refresh!Drains(v10'))
  BY <1>1, RefreshContinues DEF Refresh!At
<1>3. v2' \in BOOLEAN
  BY <1>1 DEF Refresh!RefreshInv, Refresh!ValuesOK
<1>4. CASE Refresh!Continue /\ UNCHANGED <<v3, v4>>
  BY <1>1, <1>2, <1>3, <1>4, RefreshKept DEF Refresh!Later
<1>5. CASE /\ v5 = "works" /\ v1 # "none" /\ ~v3
           /\ v4' = [v4 EXCEPT !.fresh = TRUE] /\ Refresh!Continue /\ UNCHANGED v3
  <2>1. v4'
        \in [cache : BOOLEAN, cacheAfter : BOOLEAN, fresh : BOOLEAN, reactivation : BOOLEAN]
        /\ v4'.reactivation = v4.reactivation
    BY <1>5 DEF Refresh!RefreshInv, Refresh!ValuesOK
  <2>2. Refresh!ValuesOK' /\ Refresh!HeadsOK'
    BY <1>1, <1>2, <1>5, <2>1 DEF Refresh!RefreshInv, Refresh!ValuesOK,
       Refresh!HeadsOK, Refresh!At, Refresh!Later
  <2>3. Refresh!RefreshIsReal' /\ Refresh!Stopped'
    BY <1>1, <1>2, <1>5 DEF Refresh!RefreshInv, Refresh!RefreshIsReal,
       Refresh!Stopped, Refresh!At
  <2>4. Refresh!WaitsAreDue'
    BY <1>1, <1>2, <1>5, <2>1 DEF Refresh!RefreshInv, Refresh!WaitsAreDue, Refresh!At
  <2> QED
    BY <1>2, <1>5, <2>2, <2>3, <2>4 DEF Refresh!RefreshInv
<1>6. CASE v10' = <<Refresh!Do("load")>> \o Refresh!Rest /\ UNCHANGED <<v3, v4>>
  <2>1. "load" \in Refresh!Actions \ {"show"}
        /\ Refresh!Do("load") = Refresh!To("load", FALSE)
    BY DEF Refresh!Actions, Refresh!Do
  <2>2. /\ v10' \in Seq(Refresh!Steps) /\ Refresh!AgendaEnds' /\ v10' # <<>>
           /\ Head(v10').do = "load"
        /\ Refresh!Drains(v10) => Refresh!Drains(v10')
    BY <1>1, <1>6, <2>1, RefreshOne DEF Refresh!At
  <2> QED
    BY <1>1, <1>3, <1>6, <2>2, RefreshKept
<1>7. CASE /\ v5 = "works" /\ v1 = "none" /\ ~v3
           /\ v3' = TRUE /\ UNCHANGED v4
           /\ v10' = <<Refresh!Do("show"), Refresh!Do("spawnOnce"), Refresh!Do("catch")>> \o Refresh!Rest
  <2>1. v10' \in Seq(Refresh!Steps) /\ Refresh!AgendaEnds' /\ v10' # <<>>
        /\ Head(v10').do = "show"
    BY <1>1, <1>7, RefreshOpens
  <2>3. v4.cache \/ v4.fresh => Refresh!Drains(v10')
    <3>1. v4.cache \/ v4.fresh => Refresh!Drains(Refresh!Rest)
      BY <1>1, <1>7, RefreshRest DEF Refresh!RefreshInv, Refresh!WaitsAreDue,
         Refresh!At
    <3> DEFINE new == <<Refresh!Do("show"), Refresh!Do("spawnOnce"), Refresh!Do("catch")>>
    <3>2. new \in Seq(Refresh!Steps)
      <4>1. Refresh!Do("show") \in Refresh!Steps
            /\ Refresh!Do("spawnOnce") \in Refresh!Steps
               /\ Refresh!Do("catch") \in Refresh!Steps
        BY RefreshSteps DEF Refresh!Actions, Refresh!Handlers
      <4> QED
        BY <4>1
    <3>3. Refresh!Rest \in Seq(Refresh!Steps) /\ Refresh!Guards(Refresh!Rest)
      BY <1>1, RefreshRest DEF Refresh!Plain
    <3> HIDE DEF new
    <3>4. Refresh!Drains(Refresh!Rest) => Refresh!Drains(new \o Refresh!Rest)
      BY <3>2, <3>3, RefreshPut
    <3> QED
      BY <1>7, <3>1, <3>4 DEF new
  <2>4. Refresh!ValuesOK' /\ Refresh!HeadsOK'
    BY <1>1, <1>7, <2>1 DEF Refresh!RefreshInv, Refresh!ValuesOK, Refresh!HeadsOK,
       Refresh!At
  <2>5. Refresh!RefreshIsReal' /\ Refresh!Stopped'
    BY <1>1, <1>7, <2>1 DEF Refresh!RefreshInv, Refresh!RefreshIsReal,
       Refresh!Stopped, Refresh!At
  <2>6. Refresh!WaitsAreDue'
    BY <1>1, <1>7, <2>1, <2>3 DEF Refresh!RefreshInv, Refresh!WaitsAreDue, Refresh!At
  <2> QED
    BY <2>1, <2>4, <2>5, <2>6 DEF Refresh!RefreshInv
<1>8. CASE v3 \/ v5 # "works"
  BY <1>4, <1>8 DEF Refresh!RefreshFresh
<1>9. CASE ~v3 /\ v5 = "works" /\ v1 # "none"
  BY <1>5, <1>9 DEF Refresh!RefreshFresh
<1>10. CASE ~v3 /\ v5 = "works" /\ v1 = "none" /\ v8 = "open"
  BY <1>6, <1>10 DEF Refresh!RefreshFresh
<1>11. CASE ~v3 /\ v5 = "works" /\ v1 = "none" /\ v8 # "open"
  BY <1>7, <1>11 DEF Refresh!RefreshFresh
<1> QED
  BY <1>8, <1>9, <1>10, <1>11

LEMMA RefreshSpawnsOnce ==
  ASSUME Refresh!RefreshInv, Refresh!SpawnOnce
  PROVE  Refresh!RefreshInv'
<1>1. /\ v10 # <<>> /\ Head(v10).do = "spawnOnce" /\ Refresh!Plain(Head(v10).do)
      /\ UNCHANGED <<v3, v4, v5>>
      /\ Refresh!SpawnUsageCommand("once", FALSE) /\ v5 = "works" /\ v1 = "none"
  BY DEF Refresh!SpawnOnce, Refresh!At, Refresh!Plain, Refresh!RefreshInv,
     Refresh!HeadsOK
<1>2. /\ v10' \in Seq(Refresh!Steps) /\ Refresh!AgendaEnds' /\ v2' \in BOOLEAN
      /\ \/ /\ v1' = "once"
            /\ v10' # <<>> => Head(v10').do \in Refresh!Later
         \/ /\ v1' = v1 /\ v10' # <<>> /\ Head(v10').do = "once"
            /\ Refresh!Drains(v10')
  BY <1>1, RefreshSpawns
<1>3. Refresh!ValuesOK' /\ Refresh!HeadsOK'
  BY <1>1, <1>2 DEF Refresh!RefreshInv, Refresh!ValuesOK, Refresh!HeadsOK, Refresh!At,
     Refresh!Later
<1>4. Refresh!RefreshIsReal' /\ Refresh!Stopped'
  BY <1>1, <1>2 DEF Refresh!RefreshInv, Refresh!RefreshIsReal, Refresh!Stopped,
     Refresh!At
<1>5. Refresh!WaitsAreDue'
  BY <1>1, <1>2 DEF Refresh!RefreshInv, Refresh!WaitsAreDue, Refresh!At
<1> QED
  BY <1>2, <1>3, <1>4, <1>5 DEF Refresh!RefreshInv

LEMMA RefreshOnce ==
  ASSUME Refresh!RefreshInv, Refresh!OnceAnswers
  PROVE  Refresh!RefreshInv'
<1>1. /\ v10 # <<>> /\ Head(v10).do = "once" /\ Refresh!Plain(Head(v10).do)
      /\ UNCHANGED <<v1, v2, v5>> /\ v3' = FALSE
      /\ v4' = [v4 EXCEPT !.reactivation = FALSE]
  BY DEF Refresh!OnceAnswers, Refresh!At, Refresh!Plain
<1>2. Refresh!Flag \in BOOLEAN /\ v4.reactivation \in BOOLEAN
  BY <1>1, RefreshRest DEF Refresh!Steps, Refresh!Flag, Refresh!RefreshInv,
     Refresh!ValuesOK
<1>3. /\ v4'
         \in [cache : BOOLEAN, cacheAfter : BOOLEAN, fresh : BOOLEAN, reactivation : BOOLEAN]
      /\ v4'.reactivation = FALSE /\ v4'.cache = v4.cache /\ v4'.fresh = v4.fresh
  BY <1>1 DEF Refresh!RefreshInv, Refresh!ValuesOK
<1> DEFINE new == <<Refresh!To("settle", Refresh!Flag), Refresh!To("finallyOnce", v4.reactivation)>>
<1>4. /\ Refresh!To("settle", Refresh!Flag) \in Refresh!Steps
         /\ Refresh!To("settle", Refresh!Flag).do = "settle"
      /\ Refresh!To("finallyOnce", v4.reactivation) \in Refresh!Steps
      /\ Refresh!To("finallyOnce", v4.reactivation).do = "finallyOnce"
  BY <1>2, RefreshSteps DEF Refresh!Actions, Refresh!Handlers
<1>5. new \in Seq(Refresh!Steps) /\ new # <<>> /\ DOMAIN new = 1 .. 2
  BY <1>4
<1>6. new[1].do = "settle" /\ new[2].do = "finallyOnce"
  BY <1>4
<1> HIDE DEF new
<1>7. Refresh!Behind(new)
  BY <1>5, <1>6 DEF Refresh!Behind, Refresh!Later
<1>8. v10' = new \o Refresh!Rest
  BY DEF Refresh!OnceAnswers, new
<1>9. /\ v10' \in Seq(Refresh!Steps) /\ Refresh!AgendaEnds' /\ v10' # <<>>
         /\ Head(v10').do = "settle"
      /\ Refresh!Drains(v10) => Refresh!Drains(v10')
  BY <1>1, <1>5, <1>6, <1>7, <1>8, RefreshPuts DEF Refresh!At
<1>10. Refresh!ValuesOK' /\ Refresh!HeadsOK'
  BY <1>1, <1>3, <1>9 DEF Refresh!RefreshInv, Refresh!ValuesOK, Refresh!HeadsOK,
     Refresh!At
<1>11. Refresh!RefreshIsReal' /\ Refresh!Stopped'
  BY <1>1, <1>3, <1>9 DEF Refresh!RefreshInv, Refresh!RefreshIsReal, Refresh!Stopped
<1>12. Refresh!WaitsAreDue'
  BY <1>1, <1>3, <1>9 DEF Refresh!RefreshInv, Refresh!WaitsAreDue, Refresh!At
<1> QED
  BY <1>9, <1>10, <1>11, <1>12 DEF Refresh!RefreshInv

\* The steps that leave the values alone.
LEMMA RefreshPasses ==
  ASSUME Refresh!RefreshInv,
         Refresh!Settle \/ Refresh!FinallyOnce \/ Refresh!Rethrow
         \/ Refresh!LeaveHandler
  PROVE  Refresh!RefreshInv'
<1>1. /\ v10 # <<>> /\ v2' \in BOOLEAN
      /\ UNCHANGED <<v1, v3, v4, v5>>
  BY DEF Refresh!Settle, Refresh!FinallyOnce, Refresh!Rethrow, Refresh!LeaveHandler,
     Refresh!At, Refresh!RefreshInv, Refresh!ValuesOK
<1>2. Head(v10).do \in {"settle", "finallyOnce", "throw", "catch", "guard", "boot"}
  BY DEF Refresh!Settle, Refresh!FinallyOnce, Refresh!Rethrow, Refresh!LeaveHandler,
     Refresh!At
<1>3. CASE Refresh!Continue
  <2>1. /\ v10' \in Seq(Refresh!Steps) /\ Refresh!AgendaEnds'
        /\ v10' # <<>> => Head(v10').do \in Refresh!Later
        /\ Refresh!Drains(v10) => Refresh!Drains(v10')
    BY <1>1, <1>2, <1>3, RefreshContinues DEF Refresh!At
  <2> QED
    BY <1>1, <1>2, <2>1, RefreshKept DEF Refresh!Later
<1>4. CASE v10' = Refresh!Thrown(Refresh!Rest) /\ Head(v10).do \in {"settle", "throw"}
  <2>1. /\ v10' \in Seq(Refresh!Steps) /\ Refresh!AgendaEnds' /\ v10' # <<>>
        /\ Head(v10').do \in {"internal", "safe", "reset", "finallyOnce", "drain"}
        /\ Refresh!Drains(v10) => Refresh!Drains(v10')
    BY <1>1, <1>4, RefreshThrows DEF Refresh!At, Refresh!Plain
  <2> QED
    BY <1>1, <1>4, <2>1, RefreshKept
<1>5. CASE v10' = <<Refresh!Do("fresh")>> \o Refresh!Rest
           /\ Head(v10).do = "finallyOnce"
  <2>1. "fresh" \in Refresh!Actions \ {"show"}
        /\ Refresh!Do("fresh") = Refresh!To("fresh", FALSE)
    BY DEF Refresh!Actions, Refresh!Do
  <2>2. /\ v10' \in Seq(Refresh!Steps) /\ Refresh!AgendaEnds' /\ v10' # <<>>
           /\ Head(v10').do = "fresh"
        /\ Refresh!Drains(v10) => Refresh!Drains(v10')
    BY <1>1, <1>5, <2>1, RefreshOne DEF Refresh!At, Refresh!Plain
  <2> QED
    BY <1>1, <1>5, <2>2, RefreshKept
<1>6. CASE v10' = <<>> \o Refresh!Rest
  <2>1. <<>> \o Refresh!Rest = Refresh!Rest
    BY <1>1, RefreshRest
  <2> QED
    BY <1>3, <1>6, <2>1 DEF Refresh!Continue
<1>7. CASE Refresh!Settle
  BY <1>3, <1>4, <1>7 DEF Refresh!Settle, Refresh!MayThrow, Refresh!Continue,
     Refresh!At
<1>8. CASE Refresh!FinallyOnce
  BY <1>5, <1>6, <1>8 DEF Refresh!FinallyOnce, Refresh!At
<1>9. CASE Refresh!Rethrow
  BY <1>4, <1>9 DEF Refresh!Rethrow, Refresh!At
<1>10. CASE Refresh!LeaveHandler
  BY <1>3, <1>10 DEF Refresh!LeaveHandler
<1> QED
  BY <1>7, <1>8, <1>9, <1>10

LEMMA RefreshDrain ==
  ASSUME Refresh!RefreshInv, Refresh!Drain
  PROVE  Refresh!RefreshInv'
<1>1. /\ v10 # <<>> /\ Head(v10).do = "drain" /\ Refresh!Plain(Head(v10).do)
      /\ UNCHANGED <<v1, v2, v3, v5>>
  BY DEF Refresh!Drain, Refresh!At, Refresh!Plain
<1>2. Refresh!Continue =>
      /\ v10' \in Seq(Refresh!Steps)
      /\ Refresh!AgendaEnds'
      /\ (v10' # <<>> => Head(v10').do \in Refresh!Later)
  BY <1>1, RefreshContinues DEF Refresh!At
<1>3. v4.cacheAfter \in BOOLEAN
  BY DEF Refresh!RefreshInv, Refresh!ValuesOK
<1>4. v3 => v1 = "once"
  BY <1>1 DEF Refresh!RefreshInv, Refresh!RefreshIsReal, Refresh!At
<1>5. CASE Refresh!Continue /\ UNCHANGED v4
  <2>1. v5 = "works" => v1 # "none" \/ (~v4.cache /\ ~v4.fresh)
    BY <1>1, <1>4, <1>5 DEF Refresh!Drain, Refresh!DrainPrimaryRequests,
       Refresh!DrainOnlyFresh, Refresh!RefreshInv, Refresh!ValuesOK
  <2>2. Refresh!ValuesOK' /\ Refresh!HeadsOK'
    BY <1>1, <1>2, <1>5 DEF Refresh!RefreshInv, Refresh!ValuesOK, Refresh!HeadsOK,
       Refresh!At, Refresh!Later
  <2>3. Refresh!RefreshIsReal' /\ Refresh!Stopped'
    BY <1>1, <1>2, <1>4, <1>5 DEF Refresh!RefreshInv, Refresh!RefreshIsReal,
       Refresh!Stopped, Refresh!At
  <2>4. Refresh!WaitsAreDue'
    BY <1>1, <1>2, <1>5, <2>1 DEF Refresh!RefreshInv, Refresh!WaitsAreDue, Refresh!At
  <2> QED
    BY <1>2, <1>5, <2>2, <2>3, <2>4 DEF Refresh!RefreshInv
<1>6. CASE /\ v5 = "works" /\ ~v3 /\ v1 = "none" /\ v4.cache
           /\ v4' = [v4 EXCEPT !.cache = FALSE, !.cacheAfter = FALSE]
           /\ v10' = <<Refresh!To("load", v4.cacheAfter)>> \o Refresh!Rest
  <2>1. "load" \in Refresh!Actions \ {"show"}
    BY DEF Refresh!Actions
  <2>2. v10' \in Seq(Refresh!Steps) /\ Refresh!AgendaEnds' /\ v10' # <<>>
        /\ Head(v10').do = "load"
    BY <1>1, <1>3, <1>6, <2>1, RefreshOne
  <2>3. v4'
        \in [cache : BOOLEAN, cacheAfter : BOOLEAN, fresh : BOOLEAN, reactivation : BOOLEAN]
        /\ v4'.reactivation = v4.reactivation
    BY <1>6 DEF Refresh!RefreshInv, Refresh!ValuesOK
  <2>4. Refresh!ValuesOK' /\ Refresh!HeadsOK'
    BY <1>1, <1>6, <2>2, <2>3 DEF Refresh!RefreshInv, Refresh!ValuesOK,
       Refresh!HeadsOK, Refresh!At
  <2>5. Refresh!RefreshIsReal' /\ Refresh!Stopped'
    BY <1>1, <1>6, <2>2 DEF Refresh!RefreshInv, Refresh!RefreshIsReal,
       Refresh!Stopped, Refresh!At
  <2>6. Refresh!WaitsAreDue'
    BY <1>1, <1>6, <2>2, <2>3 DEF Refresh!RefreshInv, Refresh!WaitsAreDue, Refresh!At
  <2> QED
    BY <2>2, <2>4, <2>5, <2>6 DEF Refresh!RefreshInv
<1>7. CASE /\ v5 = "works" /\ ~v3 /\ v1 = "none" /\ ~v4.cache
           /\ v4' = [v4 EXCEPT !.fresh = FALSE]
              /\ v10' = <<Refresh!Do("fresh")>> \o Refresh!Rest
  <2>1. "fresh" \in Refresh!Actions \ {"show"}
        /\ Refresh!Do("fresh") = Refresh!To("fresh", FALSE)
    BY DEF Refresh!Actions, Refresh!Do
  <2>2. v10' \in Seq(Refresh!Steps) /\ Refresh!AgendaEnds' /\ v10' # <<>>
        /\ Head(v10').do = "fresh"
    BY <1>1, <1>7, <2>1, RefreshOne
  <2>3. v4'
        \in [cache : BOOLEAN, cacheAfter : BOOLEAN, fresh : BOOLEAN, reactivation : BOOLEAN]
        /\ v4'.reactivation = v4.reactivation /\ v4'.cache = v4.cache
        /\ v4'.fresh = FALSE
    BY <1>7 DEF Refresh!RefreshInv, Refresh!ValuesOK
  <2>4. Refresh!ValuesOK' /\ Refresh!HeadsOK'
    BY <1>1, <1>7, <2>2, <2>3 DEF Refresh!RefreshInv, Refresh!ValuesOK,
       Refresh!HeadsOK, Refresh!At
  <2>5. Refresh!RefreshIsReal' /\ Refresh!Stopped'
    BY <1>1, <1>7, <2>2 DEF Refresh!RefreshInv, Refresh!RefreshIsReal,
       Refresh!Stopped, Refresh!At
  <2>6. Refresh!WaitsAreDue'
    BY <1>1, <1>7, <2>2, <2>3 DEF Refresh!RefreshInv, Refresh!WaitsAreDue, Refresh!At
  <2> QED
    BY <2>2, <2>4, <2>5, <2>6 DEF Refresh!RefreshInv
<1>8. CASE v5 # "works" \/ v3 \/ v1 # "none"
  BY <1>5, <1>8 DEF Refresh!Drain
<1>9. CASE v5 = "works" /\ ~v3 /\ v1 = "none"
  <2>1. Refresh!DrainPrimaryRequests
    BY <1>9 DEF Refresh!Drain
  <2>2. CASE v4.cache
    BY <1>6, <1>9, <2>1, <2>2 DEF Refresh!DrainPrimaryRequests
  <2>3. CASE ~v4.cache
    BY <1>5, <1>7, <1>9, <2>1, <2>3 DEF Refresh!DrainPrimaryRequests,
       Refresh!DrainOnlyFresh
  <2> QED
    BY <2>2, <2>3
<1> QED
  BY <1>8, <1>9

LEMMA RefreshGivesUp ==
  ASSUME Refresh!RefreshInv,
         Refresh!ScheduleTimer \/ Refresh!RecordInternalFailure \/ Refresh!StartFails
  PROVE  Refresh!RefreshInv'
<1>1. /\ Refresh!At("timer") \/ Refresh!At("internal") \/ Refresh!At("safe")
      /\ Refresh!Continue /\ v2' \in BOOLEAN
      /\ Refresh!EnterSafeMode \/ UNCHANGED <<v1, v3, v4, v5>>
  BY DEF Refresh!ScheduleTimer, Refresh!RecordInternalFailure, Refresh!StartFails,
     Refresh!RefreshInv, Refresh!ValuesOK
<1>2. CASE Refresh!EnterSafeMode
  BY <1>1, <1>2, RefreshStops
<1>3. CASE UNCHANGED <<v1, v3, v4, v5>>
  <2>1. /\ v10 # <<>> /\ v10' \in Seq(Refresh!Steps) /\ Refresh!AgendaEnds'
        /\ v10' # <<>> => Head(v10').do \in Refresh!Later
        /\ Refresh!Drains(v10) => Refresh!Drains(v10')
    BY <1>1, RefreshContinues DEF Refresh!At
  <2> QED
    BY <1>1, <1>3, <2>1, RefreshKept DEF Refresh!Later, Refresh!At
<1> QED
  BY <1>1, <1>2, <1>3

LEMMA RefreshResets ==
  ASSUME Refresh!RefreshInv, Refresh!CatchFresh
  PROVE  Refresh!RefreshInv'
<1>1. /\ v10 # <<>> /\ Head(v10).do = "reset" /\ Refresh!Continue
      /\ UNCHANGED <<v1, v2, v4, v5>> /\ v3' = FALSE
  BY DEF Refresh!CatchFresh, Refresh!At
<1>2. /\ v10' \in Seq(Refresh!Steps) /\ Refresh!AgendaEnds'
      /\ v10' # <<>> => Head(v10').do \in Refresh!Later
      /\ Refresh!Drains(v10) => Refresh!Drains(v10')
  BY <1>1, RefreshContinues DEF Refresh!At
<1>3. Refresh!ValuesOK' /\ Refresh!HeadsOK'
  BY <1>1, <1>2 DEF Refresh!RefreshInv, Refresh!ValuesOK, Refresh!HeadsOK, Refresh!At,
     Refresh!Later
<1>4. Refresh!RefreshIsReal' /\ Refresh!Stopped'
  BY <1>1, <1>2 DEF Refresh!RefreshInv, Refresh!RefreshIsReal, Refresh!Stopped,
     Refresh!At
<1>5. Refresh!WaitsAreDue'
  BY <1>1, <1>2 DEF Refresh!RefreshInv, Refresh!WaitsAreDue, Refresh!At
<1> QED
  BY <1>2, <1>3, <1>4, <1>5 DEF Refresh!RefreshInv

\* What starts a callback.
LEMMA RefreshBegins ==
  ASSUME Refresh!RefreshInv, Refresh!Idle, UNCHANGED <<v1, v2, v3, v4, v5>>,
         NEW do
         \in Refresh!Actions \ {"show", "spawnOnce", "latest", "finallyLatest"}, NEW flag \in BOOLEAN,
         \/ Refresh!Guarded(<<Refresh!To(do, flag)>>)
            \/ Refresh!Guarded(<<Refresh!To(do, flag), Refresh!Do("fresh")>>)
  PROVE  Refresh!RefreshInv'
<1>1. /\ Refresh!To(do, flag) \in Refresh!Steps /\ Refresh!To(do, flag).do = do
      /\ Refresh!Do("fresh") \in Refresh!Steps /\ Refresh!Do("fresh").do = "fresh"
  BY RefreshSteps DEF Refresh!Actions
<1>2. PICK new
           \in {<<Refresh!To(do, flag)>>, <<Refresh!To(do, flag), Refresh!Do("fresh")>>} : Refresh!Guarded(new)
  OBVIOUS
<1>3. /\ new \in Seq(Refresh!Steps) /\ new # <<>> /\ new[1] = Refresh!To(do, flag)
      /\ \A i \in DOMAIN new : i # 1 => new[i] = Refresh!Do("fresh")
  <2>1. CASE new = <<Refresh!To(do, flag)>>
    BY <1>1, <2>1
  <2>2. CASE new = <<Refresh!To(do, flag), Refresh!Do("fresh")>>
    BY <1>1, <2>2
  <2> QED
    BY <1>2, <2>1, <2>2
<1>4. Refresh!Behind(new)
  BY <1>1, <1>3 DEF Refresh!Behind, Refresh!Later
<1>5. /\ v10' \in Seq(Refresh!Steps) /\ Refresh!AgendaEnds' /\ v10' # <<>>
         /\ Head(v10').do = do
  BY <1>1, <1>2, <1>3, <1>4, RefreshCalls
<1>6. v10 = <<>> /\ v5 # "removed" /\ ~Refresh!Drains(v10)
  BY DEF Refresh!Idle, Refresh!Drains
<1>7. Refresh!ValuesOK' /\ Refresh!HeadsOK'
  BY <1>5 DEF Refresh!RefreshInv, Refresh!ValuesOK, Refresh!HeadsOK, Refresh!At
<1>8. Refresh!RefreshIsReal' /\ Refresh!Stopped'
  BY <1>5, <1>6 DEF Refresh!RefreshInv, Refresh!RefreshIsReal, Refresh!Stopped,
     Refresh!At
<1>9. Refresh!WaitsAreDue'
  BY <1>5, <1>6 DEF Refresh!RefreshInv, Refresh!WaitsAreDue, Refresh!At
<1> QED
  BY <1>5, <1>7, <1>8, <1>9 DEF Refresh!RefreshInv

LEMMA RefreshAnswered ==
  ASSUME Refresh!RefreshInv, Refresh!PrimaryAnswers
  PROVE  Refresh!RefreshInv'
<1>1. /\ Refresh!Idle /\ v1 \in {"latest", "once"} /\ v1' = "none"
      /\ UNCHANGED <<v2, v3, v4, v5>>
  BY DEF Refresh!PrimaryAnswers, Refresh!RefreshInv, Refresh!ValuesOK
<1>2. PICK flag \in BOOLEAN : Refresh!Guarded(Refresh!CallbackOf(v1, flag))
  <2>1. PICK ok \in BOOLEAN :
               Refresh!Guarded(Refresh!CallbackOf(v1,
               IF v1 = "latest" THEN v2 ELSE ok))
    BY DEF Refresh!PrimaryAnswers
  <2>2. v2 \in BOOLEAN
    BY DEF Refresh!RefreshInv, Refresh!ValuesOK
  <2>3. CASE v1 = "latest"
    BY <2>1, <2>2, <2>3
  <2>4. CASE v1 # "latest"
    BY <2>1, <2>4
  <2> QED
    BY <2>3, <2>4
<1> DEFINE new == Refresh!CallbackOf(v1, flag)
<1>3. /\ Refresh!To(v1, flag) \in Refresh!Steps /\ Refresh!To(v1, flag).do = v1
      /\ Refresh!Do("drain") \in Refresh!Steps /\ Refresh!Do("drain").do = "drain"
  BY <1>1, RefreshSteps DEF Refresh!Actions, Refresh!Handlers
<1>4. /\ new \in Seq(Refresh!Steps) /\ new # <<>> /\ DOMAIN new = 1 .. 2
      /\ new[1] = Refresh!To(v1, flag) /\ new[2] = Refresh!Do("drain")
  BY <1>3 DEF Refresh!CallbackOf
<1> HIDE DEF new
<1>5. Refresh!Behind(new) /\ Refresh!Drains(new)
  BY <1>3, <1>4 DEF Refresh!Behind, Refresh!Later, Refresh!Drains
<1>6. new[1].do # "show"
  BY <1>1, <1>3, <1>4
<1>7. Refresh!Guarded(new)
  BY <1>2 DEF new
<1>8. /\ v10' \in Seq(Refresh!Steps) /\ Refresh!AgendaEnds' /\ v10' # <<>>
         /\ Head(v10').do = v1
      /\ Refresh!Drains(v10')
  BY <1>3, <1>4, <1>5, <1>6, <1>7, RefreshCalls
<1>9. v10 = <<>> /\ v5 # "removed"
  BY <1>1 DEF Refresh!Idle
<1>10. Refresh!ValuesOK' /\ Refresh!HeadsOK'
  BY <1>1, <1>8 DEF Refresh!RefreshInv, Refresh!ValuesOK, Refresh!HeadsOK, Refresh!At
<1>11. Refresh!RefreshIsReal' /\ Refresh!Stopped'
  BY <1>1, <1>8, <1>9 DEF Refresh!RefreshInv, Refresh!RefreshIsReal, Refresh!Stopped,
     Refresh!At
<1>12. Refresh!WaitsAreDue'
  BY <1>1, <1>8, <1>9 DEF Refresh!RefreshInv, Refresh!WaitsAreDue, Refresh!At
<1> QED
  BY <1>8, <1>10, <1>11, <1>12 DEF Refresh!RefreshInv

LEMMA RefreshRemembers ==
  ASSUME Refresh!RefreshInv, Refresh!BackendMismatch \/ Refresh!Reactivated
  PROVE  Refresh!RefreshInv'
<1>1. /\ Refresh!Idle /\ v10 = <<>> /\ v5 = "works"
      /\ UNCHANGED <<v1, v2, v3, v5>>
  BY DEF Refresh!BackendMismatch, Refresh!Reactivated, Refresh!Idle
<1>2. CASE /\ v3 /\ UNCHANGED v10
           /\ \/ v4' = [v4 EXCEPT !.fresh = TRUE]
              \/ v4' = [v4 EXCEPT !.reactivation = TRUE]
  <2>1. v4'
        \in [cache : BOOLEAN, cacheAfter : BOOLEAN, fresh : BOOLEAN, reactivation : BOOLEAN]
    BY <1>2 DEF Refresh!RefreshInv, Refresh!ValuesOK
  <2>2. v1 = "once"
    BY <1>1, <1>2 DEF Refresh!RefreshInv, Refresh!RefreshIsReal, Refresh!At
  <2>3. Refresh!ValuesOK' /\ Refresh!HeadsOK' /\ Refresh!AgendaEnds'
    BY <1>1, <1>2, <2>1 DEF Refresh!RefreshInv, Refresh!ValuesOK, Refresh!HeadsOK,
       Refresh!AgendaEnds, Refresh!At
  <2>4. Refresh!RefreshIsReal' /\ Refresh!WaitsAreDue' /\ Refresh!Stopped'
    BY <1>1, <1>2, <2>2 DEF Refresh!RefreshIsReal, Refresh!WaitsAreDue,
       Refresh!Stopped
  <2> QED
    BY <2>3, <2>4 DEF Refresh!RefreshInv
<1>3. CASE Refresh!Guarded(<<Refresh!Do("fresh")>>) /\ UNCHANGED v4
  <2>1. "fresh" \in Refresh!Actions \ {"show", "spawnOnce", "latest", "finallyLatest"}
        /\ Refresh!Do("fresh") = Refresh!To("fresh", FALSE)
    BY DEF Refresh!Actions, Refresh!Do
  <2> QED
    BY <1>1, <1>3, <2>1, RefreshBegins
<1> QED
  BY <1>2, <1>3 DEF Refresh!BackendMismatch, Refresh!Reactivated

LEMMA RefreshStarts ==
  ASSUME Refresh!RefreshInv,
         Refresh!Refresh \/ Refresh!RefreshAsked \/ Refresh!CommandChanged
         \/ Refresh!OwnerChanges
  PROVE  Refresh!RefreshInv'
<1>1. Refresh!Idle /\ UNCHANGED <<v1, v2, v3, v4, v5>>
  BY DEF Refresh!Refresh, Refresh!RefreshAsked, Refresh!CommandChanged,
     Refresh!OwnerChanges
<1>2. /\ {"fresh", "load", "timer"} \subseteq Refresh!Actions \ {"show", "spawnOnce", "latest", "finallyLatest"}
      /\ \A do : Refresh!Do(do) = Refresh!To(do, FALSE)
  BY DEF Refresh!Actions, Refresh!Do
<1>3. CASE \E do \in {"fresh", "load", "timer"}, flag \in BOOLEAN :
             Refresh!Guarded(<<Refresh!To(do,
             flag)>>) \/ Refresh!Guarded(<<Refresh!To(do, flag), Refresh!Do("fresh")>>)
  BY <1>1, <1>2, <1>3, RefreshBegins
<1>4. CASE Refresh!Refresh
  <2>1. Refresh!Guarded(<<Refresh!To("fresh", FALSE)>>)
        \/ Refresh!Guarded(<<Refresh!To("load", FALSE)>>)
    BY <1>2, <1>4 DEF Refresh!Refresh
  <2> QED
    BY <1>3, <2>1
<1>5. CASE Refresh!RefreshAsked
  BY <1>2, <1>3, <1>5 DEF Refresh!RefreshAsked
<1>6. CASE Refresh!CommandChanged
  BY <1>3, <1>6 DEF Refresh!CommandChanged
<1>7. CASE Refresh!OwnerChanges
  <2>1. PICK first \in BOOLEAN :
               Refresh!Guarded(<<Refresh!Do("timer")>> \o IF first THEN <<Refresh!Do("fresh")>> ELSE <<>>)
    BY <1>7 DEF Refresh!OwnerChanges
  <2>2. /\ <<Refresh!Do("timer")>> \o <<>> = <<Refresh!Do("timer")>>
        /\ <<Refresh!Do("timer")>> \o <<Refresh!Do("fresh")>> = <<Refresh!Do("timer"), Refresh!Do("fresh")>>
    <3>1. Refresh!Do("timer") \in Refresh!Steps
          /\ Refresh!Do("fresh") \in Refresh!Steps
      BY RefreshSteps DEF Refresh!Actions
    <3> QED
      BY <3>1, RefreshPair
  <2>3. Refresh!Guarded(<<Refresh!To("timer", FALSE)>>)
        \/ Refresh!Guarded(<<Refresh!To("timer", FALSE), Refresh!Do("fresh")>>)
    BY <1>2, <2>1, <2>2
  <2> QED
    BY <1>3, <2>3
<1> QED
  BY <1>4, <1>5, <1>6, <1>7

LEMMA RefreshRetries ==
  ASSUME Refresh!RefreshInv, Refresh!LeaveSafeModeAndRetry
  PROVE  Refresh!RefreshInv'
<1>1. /\ v10 = <<>> /\ v5 = "safe" /\ v5' = "works"
      /\ Refresh!Guarded(<<Refresh!Do("timer"), Refresh!Do("fresh")>>)
      /\ UNCHANGED <<v1, v2, v3, v4>>
  BY DEF Refresh!LeaveSafeModeAndRetry, Refresh!Idle
<1> DEFINE new == <<Refresh!Do("timer"), Refresh!Do("fresh")>>
<1>2. /\ Refresh!Do("timer") \in Refresh!Steps /\ Refresh!Do("timer").do = "timer"
      /\ Refresh!Do("fresh") \in Refresh!Steps /\ Refresh!Do("fresh").do = "fresh"
  BY RefreshSteps DEF Refresh!Actions
<1>3. /\ new \in Seq(Refresh!Steps) /\ new # <<>> /\ DOMAIN new = 1 .. 2
      /\ new[1] = Refresh!Do("timer") /\ new[2] = Refresh!Do("fresh")
  BY <1>2
<1> HIDE DEF new
<1>4. Refresh!Behind(new) /\ new[1].do = "timer" /\ Refresh!Guarded(new)
  BY <1>1, <1>2, <1>3 DEF Refresh!Behind, Refresh!Later, new
<1>5. /\ v10' \in Seq(Refresh!Steps) /\ Refresh!AgendaEnds' /\ v10' # <<>>
         /\ Head(v10').do = "timer"
  BY <1>3, <1>4, RefreshCalls
<1>6. Refresh!ValuesOK' /\ Refresh!HeadsOK'
  BY <1>1, <1>5 DEF Refresh!RefreshInv, Refresh!ValuesOK, Refresh!HeadsOK, Refresh!At
<1>7. Refresh!RefreshIsReal' /\ Refresh!WaitsAreDue' /\ Refresh!Stopped'
  BY <1>1, <1>5 DEF Refresh!RefreshInv, Refresh!RefreshIsReal, Refresh!WaitsAreDue,
     Refresh!Stopped
<1> QED
  BY <1>5, <1>6, <1>7 DEF Refresh!RefreshInv

LEMMA RefreshEnds ==
  ASSUME Refresh!RefreshInv,
         Refresh!OtherFailure \/ Refresh!TimePasses \/ Refresh!Removed
  PROVE  Refresh!RefreshInv'
<1>1. v10 = <<>> /\ v5 # "removed" /\ v2' = v2
  BY DEF Refresh!OtherFailure, Refresh!TimePasses, Refresh!Removed, Refresh!Idle
<1>2. CASE Refresh!OtherFailure
  <2>1. Refresh!Do("internal") \in Refresh!Steps
        /\ Refresh!Do("internal").do = "internal"
    BY RefreshSteps DEF Refresh!Actions
  <2>2. /\ v10' = <<Refresh!Do("internal")>> /\ v10' \in Seq(Refresh!Steps)
           /\ v10' # <<>>
        /\ Head(v10') = Refresh!Do("internal")
        /\ UNCHANGED <<v1, v2, v3, v4, v5>>
    BY <1>2, <2>1 DEF Refresh!OtherFailure
  <2>3. Refresh!AgendaEnds'
    BY <2>2 DEF Refresh!AgendaEnds
  <2>4. ~Refresh!Drains(v10)
    BY <1>1 DEF Refresh!Drains
  <2>5. Refresh!ValuesOK' /\ Refresh!HeadsOK'
    BY <1>1, <2>1, <2>2 DEF Refresh!RefreshInv, Refresh!ValuesOK, Refresh!HeadsOK,
       Refresh!At
  <2>6. Refresh!RefreshIsReal' /\ Refresh!WaitsAreDue' /\ Refresh!Stopped'
    BY <1>1, <2>1, <2>2, <2>4 DEF Refresh!RefreshInv, Refresh!RefreshIsReal,
       Refresh!WaitsAreDue, Refresh!Stopped, Refresh!At
  <2> QED
    BY <2>3, <2>5, <2>6 DEF Refresh!RefreshInv
<1>3. CASE Refresh!TimePasses
  BY <1>3 DEF Refresh!TimePasses, Refresh!RefreshInv, Refresh!ValuesOK,
     Refresh!AgendaEnds, Refresh!HeadsOK, Refresh!RefreshIsReal, Refresh!WaitsAreDue,
     Refresh!Stopped, Refresh!At, Refresh!Rest
<1>4. CASE Refresh!Removed
  <2>1. /\ UNCHANGED <<v2, v10>> /\ v5' = "removed" /\ v3' = FALSE
        /\ v1' = "none"
    BY <1>4 DEF Refresh!Removed
  <2>2. v4'
        \in [cache : BOOLEAN, cacheAfter : BOOLEAN, fresh : BOOLEAN, reactivation : BOOLEAN]
    BY <1>4 DEF Refresh!Removed, Refresh!NoWaits, Refresh!RefreshInv, Refresh!ValuesOK
  <2>3. Refresh!ValuesOK' /\ Refresh!AgendaEnds' /\ Refresh!HeadsOK'
    BY <1>1, <2>1, <2>2 DEF Refresh!RefreshInv, Refresh!ValuesOK, Refresh!AgendaEnds,
       Refresh!HeadsOK, Refresh!At
  <2>4. Refresh!RefreshIsReal' /\ Refresh!WaitsAreDue' /\ Refresh!Stopped'
    BY <1>1, <2>1 DEF Refresh!RefreshIsReal, Refresh!WaitsAreDue, Refresh!Stopped
  <2> QED
    BY <2>3, <2>4 DEF Refresh!RefreshInv
<1> QED
  BY <1>2, <1>3, <1>4

LEMMA RefreshInvInit ==
  ASSUME Refresh!Init
  PROVE  Refresh!RefreshInv
<1> DEFINE a == Refresh!Do("timer")
           b == Refresh!To("load", TRUE)
           c == Refresh!Do("boot")
           all == <<a, b, c>>
<1>1. a \in Refresh!Steps /\ b \in Refresh!Steps /\ c \in Refresh!Steps
  BY RefreshSteps DEF Refresh!Actions, Refresh!Handlers
<1>11. a.do = "timer" /\ b.do = "load" /\ c.do = "boot"
  BY DEF Refresh!Do, Refresh!To
<1>6. v10 = all
  BY DEF Refresh!Init
<1> HIDE DEF a, b, c
<1>2. all \in Seq(Refresh!Steps) /\ Len(all) = 3 /\ DOMAIN all = 1 .. 3 /\ all # <<>>
  BY <1>1
<1>12. all[1] = a /\ all[2] = b /\ all[3] = c /\ Head(all) = a
  BY <1>1
<1> HIDE DEF all
<1>3. /\ Tail(all) \in Seq(Refresh!Steps) /\ Len(Tail(all)) = 2
      /\ \A i \in 1 .. 2 : Tail(all)[i] = all[i + 1]
  <2>1. /\ Tail(all) \in Seq(Refresh!Steps) /\ Len(Tail(all)) = Len(all) - 1
        /\ \A i \in 1 .. Len(Tail(all)) : Tail(all)[i] = all[i + 1]
    BY <1>2, HeadTailProperties
  <2>2. Len(Tail(all)) = 2
    BY <1>2, <2>1
  <2> QED
    BY <2>1, <2>2
<1>13. DOMAIN Tail(all) = 1 .. 2
  <2>1. Tail(all) \in Seq(Refresh!Steps) => DOMAIN Tail(all) = 1 .. Len(Tail(all))
    BY LenProperties
  <2> QED
    BY <1>3, <2>1
<1>4. Tail(all)[1] = b /\ Tail(all)[2] = c
  <2>1. 1 \in 1 .. 2 /\ 2 \in 1 .. 2 /\ 1 + 1 = 2 /\ 2 + 1 = 3
    OBVIOUS
  <2>2. Tail(all)[1] = all[2] /\ Tail(all)[2] = all[3]
    BY <1>3, <2>1
  <2> QED
    BY <1>12, <2>2
<1>5. Refresh!AllLater(Tail(all)) /\ Refresh!Guards(all)
  <2>1. Refresh!AllLater(Tail(all))
    <3>1. \A i \in 1 .. 2 : i = 1 \/ i = 2
      OBVIOUS
    <3> QED
      BY <1>4, <1>11, <1>13, <3>1 DEF Refresh!AllLater, Refresh!Later
  <2> QED
    BY <1>2, <1>11, <1>12, <2>1 DEF Refresh!Guards
<1>7. Refresh!AgendaEnds
  BY <1>5, <1>6, <1>11, <1>12 DEF Refresh!AgendaEnds, Refresh!Rest, Refresh!At
<1>8. Refresh!ValuesOK
  BY <1>2, <1>6 DEF Refresh!Init, Refresh!ValuesOK, Refresh!NoWaits
<1>9. Refresh!HeadsOK
  BY <1>6, <1>11, <1>12 DEF Refresh!HeadsOK, Refresh!At
<1>10. Refresh!RefreshIsReal /\ Refresh!WaitsAreDue /\ Refresh!Stopped
  BY DEF Refresh!Init, Refresh!RefreshIsReal, Refresh!WaitsAreDue, Refresh!Stopped,
     Refresh!NoWaits
<1> QED
  BY <1>7, <1>8, <1>9, <1>10 DEF Refresh!RefreshInv

LEMMA RefreshInvPreserved ==
  ASSUME Refresh!RefreshInv, [Refresh!Next]_(Refresh!refreshVars)
  PROVE  Refresh!RefreshInv'
<1>1. CASE UNCHANGED Refresh!refreshVars
  BY <1>1 DEF Refresh!refreshVars, Refresh!RefreshInv, Refresh!ValuesOK,
     Refresh!AgendaEnds, Refresh!HeadsOK, Refresh!RefreshIsReal, Refresh!WaitsAreDue,
     Refresh!Stopped, Refresh!At, Refresh!Rest
<1>2. CASE Refresh!Next
  BY <1>2, RefreshLoad, RefreshLatest, RefreshFinallyLatest, RefreshAsks,
     RefreshShows, RefreshSpawnsOnce, RefreshOnce, RefreshPasses, RefreshDrain,
     RefreshGivesUp, RefreshResets, RefreshAnswered, RefreshStarts, RefreshRemembers,
     RefreshRetries, RefreshEnds DEF Refresh!Next
<1> QED
  BY <1>1, <1>2

LEMMA RefreshInvWaits ==
  ASSUME Refresh!RefreshInv
  PROVE  Refresh!NothingWaitsInVain
<1> SUFFICES ASSUME v10 = <<>>, v5 = "works"
             PROVE  /\ v3 => v1 = "once"
                    /\ v4.cache \/ v4.fresh \/ v4.reactivation => v1 # "none"
  BY DEF Refresh!NothingWaitsInVain
<1>1. ~Refresh!Drains(v10)
  BY DEF Refresh!Drains
<1> QED
  BY <1>1 DEF Refresh!RefreshInv, Refresh!RefreshIsReal, Refresh!WaitsAreDue,
     Refresh!At

-----------------------------------------------------------------------------
(* How the applet counts the answers that were refused. *)

\* What is put in front of a row comes first.
LEMMA RefreshTop ==
  ASSUME NEW new \in Seq(Refresh!Steps), NEW rest \in Seq(Refresh!Steps), new # <<>>
  PROVE  new \o rest # <<>> /\ Head(new \o rest) = new[1]
<1>1. /\ new \o rest \in Seq(Refresh!Steps) /\ Len(new \o rest) = Len(new) + Len(rest)
      /\ \A i \in 1 .. Len(new) : (new \o rest)[i] = new[i]
  BY RefreshRow
<1>2. Len(new) \in Nat /\ Len(new) >= 1 /\ Len(rest) \in Nat
  OBVIOUS
<1> QED
  BY <1>1, <1>2

\* One or two steps are put in front of a row.
LEMMA RefreshFront ==
  ASSUME NEW a \in Refresh!Steps, NEW b \in Refresh!Steps, NEW rest \in Seq(Refresh!Steps)
  PROVE  /\ <<a>> \o rest # <<>> /\ Head(<<a>> \o rest) = a
         /\ <<a, b>> \o rest # <<>> /\ Head(<<a, b>> \o rest) = a
<1>1. <<a>> \in Seq(Refresh!Steps) /\ <<a>> # <<>> /\ <<a>>[1] = a
  OBVIOUS
<1>2. <<a, b>> \in Seq(Refresh!Steps) /\ <<a, b>> # <<>> /\ <<a, b>>[1] = a
  OBVIOUS
<1> QED
  BY <1>1, <1>2, RefreshTop

\* A step that counts nothing, and after which no refresh is under way but one that
\* was before.
LEMMA RefusalsStay ==
  ASSUME Refresh!RefusalsOK, UNCHANGED <<v7, v8>>, v6' \in 0 .. 3,
         v9' \in [auto : BOOLEAN, polls : BOOLEAN], v1' \in {v1, "latest", "none"},
         v10' # <<>> => Head(v10').do \notin Refresh!UnderWay
  PROVE  Refresh!RefusalsOK'
<1>1. "once" \in Refresh!UnderWay /\ "settle" \in Refresh!UnderWay
  BY DEF Refresh!UnderWay
<1> QED
  BY <1>1 DEF Refresh!RefusalsOK, Refresh!At, Refresh!RefreshFailureLimit,
     Refresh!InternalFailureLimit

\* The steps of callbacks that leave the counts alone.
LEMMA RefusalsPass ==
  ASSUME Refresh!RefreshInv, Refresh!RefusalsOK,
         \/ Refresh!LoadCached \/ Refresh!LatestAnswers \/ Refresh!FinallyLatest
         \/ Refresh!FinallyOnce \/ Refresh!Drain \/ Refresh!Rethrow
         \/ Refresh!ScheduleTimer \/ Refresh!RecordInternalFailure \/ Refresh!StartFails
         \/ Refresh!CatchFresh \/ Refresh!LeaveHandler
  PROVE  Refresh!RefusalsOK'
<1>0. /\ UNCHANGED <<v7, v8>> /\ v6' \in 0 .. 3 /\ v9' \in [auto : BOOLEAN, polls : BOOLEAN]
      /\ v10 # <<>>
  <2>1. v6 \in 0 .. 3 /\ v9 \in [auto : BOOLEAN, polls : BOOLEAN]
    BY DEF Refresh!RefusalsOK, Refresh!InternalFailureLimit
  <2>2. UNCHANGED <<v7, v8, v9>> /\ v10 # <<>>
    BY DEF Refresh!LoadCached, Refresh!LatestAnswers, Refresh!FinallyLatest,
       Refresh!FinallyOnce, Refresh!Drain, Refresh!Rethrow, Refresh!ScheduleTimer,
       Refresh!RecordInternalFailure, Refresh!StartFails, Refresh!CatchFresh,
       Refresh!LeaveHandler, Refresh!At, Refresh!failures, Refresh!settings
  <2>3. v6' = v6 \/ v6' = IF v6 < 3 THEN v6 + 1 ELSE v6
    BY DEF Refresh!LoadCached, Refresh!LatestAnswers, Refresh!FinallyLatest,
       Refresh!FinallyOnce, Refresh!Drain, Refresh!Rethrow, Refresh!ScheduleTimer,
       Refresh!RecordInternalFailure, Refresh!StartFails, Refresh!CatchFresh,
       Refresh!LeaveHandler, Refresh!failures, Refresh!InternalFailureLimit
  <2> QED
    BY <2>1, <2>2, <2>3
<1>1. v1' \in {v1, "latest", "none"}
  BY DEF Refresh!LoadCached, Refresh!LatestAnswers,
     Refresh!FinallyLatest, Refresh!FinallyOnce, Refresh!Drain, Refresh!Rethrow,
     Refresh!ScheduleTimer, Refresh!RecordInternalFailure, Refresh!StartFails,
     Refresh!CatchFresh, Refresh!LeaveHandler, Refresh!EnterSafeMode,
     Refresh!SpawnUsageCommand
<1>2. /\ Refresh!Rest \in Seq(Refresh!Steps) /\ Refresh!Flag \in BOOLEAN
      /\ v4.cacheAfter \in BOOLEAN
  BY <1>0, RefreshRest DEF Refresh!Flag, Refresh!Steps, Refresh!RefreshInv,
     Refresh!ValuesOK
<1>3. Refresh!Continue /\ ~Refresh!At("show") /\ v10' # <<>> => Head(v10').do \in Refresh!Later
  BY <1>0, RefreshContinues
<1>4. Refresh!Later \cap Refresh!UnderWay = {}
  BY DEF Refresh!Later, Refresh!UnderWay
<1>5. \A x \in Refresh!Actions, y \in Refresh!Actions, f \in BOOLEAN :
        /\ v10' = <<Refresh!To(x, f)>> \o Refresh!Rest /\ v10' # <<>> => Head(v10').do = x
        /\ v10' = <<Refresh!Do(x)>> \o Refresh!Rest /\ v10' # <<>> => Head(v10').do = x
        /\ v10' = <<Refresh!Do(x), Refresh!Do(y)>> \o Refresh!Rest
             /\ v10' # <<>> => Head(v10').do = x
  BY <1>2, RefreshSteps, RefreshFront
<1>6. v10' # <<>> => Head(v10').do \notin Refresh!UnderWay
  <2>1. CASE Refresh!LoadCached
    <3>1. Head(v10).do = "load" /\ Refresh!Plain(Head(v10).do) /\ ~Refresh!At("show")
      BY <2>1 DEF Refresh!LoadCached, Refresh!At, Refresh!Plain
    <3>2. CASE Refresh!SpawnUsageCommand("latest", Refresh!Flag)
      BY <1>0, <1>2, <1>4, <3>1, <3>2, RefreshSpawns DEF Refresh!UnderWay
    <3> QED
      BY <1>3, <1>4, <2>1, <3>1, <3>2 DEF Refresh!LoadCached
  <2>2. CASE Refresh!LatestAnswers
    BY <2>2, RefreshLatest DEF Refresh!Later, Refresh!UnderWay
  <2>3. CASE Refresh!FinallyLatest
    <3>1. ~Refresh!At("show") /\ {"fresh", "guard"} \subseteq Refresh!Actions
      BY <2>3 DEF Refresh!FinallyLatest, Refresh!At, Refresh!Actions, Refresh!Handlers
    <3> QED
      BY <1>3, <1>4, <1>5, <2>3, <3>1 DEF Refresh!FinallyLatest, Refresh!UnderWay
  <2>4. CASE Refresh!FinallyOnce
    <3>1. ~Refresh!At("show") /\ "fresh" \in Refresh!Actions
          /\ <<>> \o Refresh!Rest = Refresh!Rest
      BY <1>2, <2>4 DEF Refresh!FinallyOnce, Refresh!At, Refresh!Actions
    <3> QED
      BY <1>3, <1>4, <1>5, <2>4, <3>1 DEF Refresh!FinallyOnce, Refresh!UnderWay,
         Refresh!Continue
  <2>5. CASE Refresh!Drain
    <3>1. ~Refresh!At("show") /\ {"fresh", "load"} \subseteq Refresh!Actions
      BY <2>5 DEF Refresh!Drain, Refresh!At, Refresh!Actions
    <3>2. \/ Refresh!Continue \/ v10' = <<Refresh!Do("fresh")>> \o Refresh!Rest
          \/ v10' = <<Refresh!To("load", v4.cacheAfter)>> \o Refresh!Rest
      BY <2>5 DEF Refresh!Drain, Refresh!DrainPrimaryRequests, Refresh!DrainOnlyFresh
    <3> QED
      BY <1>2, <1>3, <1>4, <1>5, <3>1, <3>2 DEF Refresh!UnderWay
  <2>6. CASE Refresh!Rethrow
    <3>1. Refresh!Plain(Head(v10).do) /\ v10' = Refresh!Thrown(Refresh!Rest)
      BY <2>6 DEF Refresh!Rethrow, Refresh!At, Refresh!Plain
    <3> QED
      BY <1>0, <3>1, RefreshThrows DEF Refresh!UnderWay
  <2>7. CASE \/ Refresh!ScheduleTimer \/ Refresh!RecordInternalFailure \/ Refresh!StartFails
             \/ Refresh!CatchFresh \/ Refresh!LeaveHandler
    <3>1. Refresh!Continue /\ ~Refresh!At("show")
      BY <2>7 DEF Refresh!ScheduleTimer, Refresh!RecordInternalFailure,
         Refresh!StartFails, Refresh!CatchFresh, Refresh!LeaveHandler, Refresh!At
    <3> QED
      BY <1>3, <1>4, <3>1
  <2> QED
    BY <2>1, <2>2, <2>3, <2>4, <2>5, <2>6, <2>7
<1> QED
  BY <1>0, <1>1, <1>6, RefusalsStay

\* A refresh begins, runs and is counted.
LEMMA RefusalsCount ==
  ASSUME Refresh!RefreshInv, Refresh!RefusalsOK,
         \/ Refresh!RefreshFresh \/ Refresh!Show \/ Refresh!SpawnOnce
         \/ Refresh!OnceAnswers \/ Refresh!Settle
  PROVE  Refresh!RefusalsOK'
<1>0. v10 # <<>>
  BY DEF Refresh!RefreshFresh, Refresh!Show, Refresh!SpawnOnce, Refresh!OnceAnswers,
     Refresh!Settle, Refresh!At
<1>1. Refresh!Rest \in Seq(Refresh!Steps)
  BY <1>0, RefreshRest
<1>2. Refresh!Later \cap Refresh!UnderWay = {}
  BY DEF Refresh!Later, Refresh!UnderWay
<1>3. Refresh!UnderWay = {"show", "spawnOnce", "once", "settle"}
  BY DEF Refresh!UnderWay
<1> USE DEF Refresh!RefreshFailureLimit, Refresh!InternalFailureLimit
<1>4. CASE Refresh!RefreshFresh
  <2>1. /\ Head(v10).do = "fresh" /\ Refresh!Plain(Head(v10).do) /\ ~Refresh!At("show")
        /\ UNCHANGED <<v1, v6, v9>>
    BY <1>4 DEF Refresh!RefreshFresh, Refresh!At, Refresh!Plain
  <2>2. CASE Refresh!Continue /\ UNCHANGED <<v7, v8>>
    <3>1. v10' # <<>> => Head(v10').do \in Refresh!Later
      BY <1>0, <2>1, <2>2, RefreshContinues
    <3> QED
      BY <1>2, <2>1, <2>2, <3>1, RefusalsStay DEF Refresh!RefusalsOK
  <2>3. CASE v10' = <<Refresh!Do("load")>> \o Refresh!Rest /\ UNCHANGED <<v7, v8>>
    <3>1. Refresh!Do("load") \in Refresh!Steps /\ Refresh!Do("load").do = "load"
      BY RefreshSteps DEF Refresh!Actions
    <3>2. Head(v10').do = "load"
      BY <1>1, <2>3, <3>1, RefreshFront
    <3> QED
      BY <1>3, <2>1, <2>3, <3>2, RefusalsStay DEF Refresh!RefusalsOK
  <2>4. CASE /\ v1 = "none" /\ v8 # "open" /\ v8' = "closed"
             /\ v7' = IF v8 = "expired" THEN 0 ELSE v7
    <3>1. v7' \in 0 .. 2
      BY <2>4 DEF Refresh!RefusalsOK
    <3> QED
      BY <2>1, <2>4, <3>1 DEF Refresh!RefusalsOK
  <2> QED
    BY <1>4, <2>2, <2>3, <2>4 DEF Refresh!RefreshFresh
<1>5. CASE Refresh!Show
  <2>1. /\ v1 = "none" /\ v7 # 3 /\ UNCHANGED <<v1, v6, v7, v8, v9>>
    BY <1>3, <1>5 DEF Refresh!Show, Refresh!RefreshInv, Refresh!HeadsOK, Refresh!RefusalsOK,
       Refresh!failures, Refresh!settings
  <2> QED
    BY <2>1 DEF Refresh!RefusalsOK
<1>6. CASE Refresh!SpawnOnce
  <2>1. /\ v1 = "none" /\ v7 # 3 /\ UNCHANGED <<v6, v7, v8, v9>>
    BY <1>3, <1>6 DEF Refresh!SpawnOnce, Refresh!RefreshInv, Refresh!HeadsOK,
       Refresh!RefusalsOK, Refresh!failures, Refresh!settings
  <2>2. Refresh!Plain(Head(v10).do) /\ Refresh!SpawnUsageCommand("once", FALSE)
    BY <1>6 DEF Refresh!SpawnOnce, Refresh!At, Refresh!Plain
  <2>3. v1' = "once" /\ v10' # <<>> => Head(v10').do \in Refresh!Later
    BY <1>0, <2>1, <2>2, RefreshSpawns
  <2>4. v1' = "once" => ~Refresh!At("once")' /\ ~Refresh!At("settle")'
    BY <1>2, <1>3, <2>3 DEF Refresh!At
  <2> QED
    BY <2>1, <2>4 DEF Refresh!RefusalsOK
<1>7. CASE Refresh!OnceAnswers
  <2>1. /\ v1 # "once" /\ v7 # 3 /\ UNCHANGED <<v1, v6, v7, v8, v9>>
    BY <1>3, <1>7 DEF Refresh!OnceAnswers, Refresh!RefusalsOK, Refresh!failures,
       Refresh!settings
  <2> QED
    BY <2>1 DEF Refresh!RefusalsOK
<1>8. CASE Refresh!Settle
  <2>1. /\ v1 # "once" /\ v7 \in 0 .. 2 /\ UNCHANGED <<v1, v6, v9>>
    BY <1>3, <1>8 DEF Refresh!Settle, Refresh!RefusalsOK
  <2>2. /\ v7' \in {0, v7 + 1} /\ v8' \in {v8, "open"}
        /\ v7' # 0 /\ v7 + 1 = 3 => v8' = "open"
    BY <1>8, <2>1 DEF Refresh!Settle
  <2>3. v10' # <<>> => Head(v10').do \notin Refresh!UnderWay
    <3>1. CASE v10' = Refresh!Rest
      BY <1>0, <1>2, <1>8, <3>1, RefreshContinues DEF Refresh!Settle, Refresh!At,
         Refresh!Continue
    <3>2. CASE v10' = Refresh!Thrown(Refresh!Rest)
      <4>1. Refresh!Plain(Head(v10).do)
        BY <1>8 DEF Refresh!Settle, Refresh!At, Refresh!Plain
      <4> QED
        BY <1>0, <1>3, <3>2, <4>1, RefreshThrows
    <3> QED
      BY <1>8, <3>1, <3>2 DEF Refresh!Settle, Refresh!MayThrow
  <2>4. ~\E x \in Refresh!UnderWay : Refresh!At(x)'
    BY <2>3 DEF Refresh!At
  <2>5. v7' \in 0 .. 3 /\ (v7' = 3 => v8' = "open") /\ v8' \in {"closed", "open", "expired"}
    BY <2>1, <2>2 DEF Refresh!RefusalsOK
  <2> QED
    BY <2>1, <2>4, <2>5 DEF Refresh!RefusalsOK
<1> QED
  BY <1>4, <1>5, <1>6, <1>7, <1>8

\* What starts a callback, or happens between two.
LEMMA RefusalsBetween ==
  ASSUME Refresh!RefreshInv, Refresh!RefusalsOK,
         \/ Refresh!PrimaryAnswers \/ Refresh!Refresh \/ Refresh!RefreshAsked
         \/ Refresh!CommandChanged \/ Refresh!OwnerChanges \/ Refresh!BackendMismatch
         \/ Refresh!Reactivated \/ Refresh!OtherFailure \/ Refresh!TimePasses
         \/ Refresh!LeaveSafeModeAndRetry \/ Refresh!Removed
  PROVE  Refresh!RefusalsOK'
<1>0. v10 = <<>>
  BY DEF Refresh!PrimaryAnswers, Refresh!Refresh, Refresh!RefreshAsked,
     Refresh!CommandChanged, Refresh!OwnerChanges, Refresh!BackendMismatch,
     Refresh!Reactivated, Refresh!OtherFailure, Refresh!TimePasses,
     Refresh!LeaveSafeModeAndRetry, Refresh!Removed, Refresh!Idle
<1>1. Refresh!UnderWay = {"show", "spawnOnce", "once", "settle"}
  BY DEF Refresh!UnderWay
<1>2. /\ {"fresh", "load", "timer", "internal", "drain", "guard", "latest", "once"}
           \subseteq Refresh!Actions
      /\ \A x : Refresh!Do(x) = Refresh!To(x, FALSE)
  BY DEF Refresh!Actions, Refresh!Handlers, Refresh!Do
<1>3. \A x \in Refresh!Actions, y \in Refresh!Actions, f \in BOOLEAN :
        Refresh!Guarded(<<Refresh!To(x, f)>>)
          \/ Refresh!Guarded(<<Refresh!To(x, f), Refresh!Do(y)>>)
        => Head(v10').do = x
  <2>1. ASSUME NEW x \in Refresh!Actions, NEW y \in Refresh!Actions, NEW f \in BOOLEAN,
               \/ Refresh!Guarded(<<Refresh!To(x, f)>>)
               \/ Refresh!Guarded(<<Refresh!To(x, f), Refresh!Do(y)>>)
        PROVE  Head(v10').do = x
    <3>1. /\ Refresh!To(x, f) \in Refresh!Steps /\ Refresh!To(x, f).do = x
          /\ Refresh!Do(y) \in Refresh!Steps
          /\ Refresh!Do("guard") \in Refresh!Steps
      BY <1>2, RefreshSteps
    <3>2. <<Refresh!Do("guard")>> \in Seq(Refresh!Steps)
      BY <3>1
    <3> QED
      BY <2>1, <3>1, <3>2, RefreshFront DEF Refresh!Guarded
  <2> QED
    BY <2>1
<1> USE DEF Refresh!RefreshFailureLimit, Refresh!InternalFailureLimit
<1>4. CASE Refresh!PrimaryAnswers
  <2>1. /\ v1 \in {"latest", "once"} /\ v1' = "none" /\ UNCHANGED <<v6, v7, v8, v9>>
    BY <1>4 DEF Refresh!PrimaryAnswers, Refresh!RefreshInv, Refresh!ValuesOK,
       Refresh!failures, Refresh!settings
  <2>2. CASE v1 = "once"
    BY <2>1, <2>2 DEF Refresh!RefusalsOK
  <2>3. CASE v1 = "latest"
    <3>1. v2 \in BOOLEAN
      BY DEF Refresh!RefreshInv, Refresh!ValuesOK
    <3>2. Refresh!Guarded(<<Refresh!To("latest", v2), Refresh!Do("drain")>>)
      BY <1>4, <2>3 DEF Refresh!PrimaryAnswers, Refresh!CallbackOf
    <3>3. Head(v10').do = "latest"
      BY <1>2, <1>3, <3>1, <3>2
    <3> QED
      BY <1>1, <2>1, <3>3, RefusalsStay DEF Refresh!RefusalsOK
  <2> QED
    BY <2>1, <2>2, <2>3
<1>5. CASE Refresh!Refresh \/ Refresh!RefreshAsked \/ Refresh!CommandChanged
  <2>1. UNCHANGED <<v1, v6, v7, v8, v9>>
    BY <1>5 DEF Refresh!Refresh, Refresh!RefreshAsked, Refresh!CommandChanged,
       Refresh!failures, Refresh!settings
  <2>2. \E x \in {"fresh", "load"}, f \in BOOLEAN : Refresh!Guarded(<<Refresh!To(x, f)>>)
    BY <1>2, <1>5 DEF Refresh!Refresh, Refresh!RefreshAsked, Refresh!CommandChanged
  <2>3. Head(v10').do \in {"fresh", "load"}
    BY <1>2, <1>3, <2>2
  <2> QED
    BY <1>1, <2>1, <2>3, RefusalsStay DEF Refresh!RefusalsOK
<1>6. CASE Refresh!OwnerChanges
  <2>1. UNCHANGED <<v1, v6, v7, v8>> /\ v9' \in [auto : BOOLEAN, polls : BOOLEAN]
    BY <1>6 DEF Refresh!OwnerChanges, Refresh!failures
  <2>2. /\ <<Refresh!Do("timer")>> \o <<>> = <<Refresh!Do("timer")>>
        /\ <<Refresh!Do("timer")>> \o <<Refresh!Do("fresh")>>
             = <<Refresh!Do("timer"), Refresh!Do("fresh")>>
    <3>1. Refresh!Do("timer") \in Refresh!Steps /\ Refresh!Do("fresh") \in Refresh!Steps
      BY <1>2, RefreshSteps
    <3> QED
      BY <3>1, RefreshPair
  <2>3. PICK first \in BOOLEAN :
          Refresh!Guarded(<<Refresh!Do("timer")>>
            \o IF first THEN <<Refresh!Do("fresh")>> ELSE <<>>)
    BY <1>6 DEF Refresh!OwnerChanges
  <2>4. \/ Refresh!Guarded(<<Refresh!To("timer", FALSE)>>)
        \/ Refresh!Guarded(<<Refresh!To("timer", FALSE), Refresh!Do("fresh")>>)
    BY <1>2, <2>2, <2>3
  <2>5. Head(v10').do = "timer"
    BY <1>2, <1>3, <2>4
  <2> QED
    BY <1>1, <2>1, <2>5, RefusalsStay DEF Refresh!RefusalsOK
<1>7. CASE Refresh!BackendMismatch \/ Refresh!Reactivated
  <2>1. UNCHANGED <<v1, v6, v7, v8, v9>>
    BY <1>7 DEF Refresh!BackendMismatch, Refresh!Reactivated, Refresh!failures,
       Refresh!settings
  <2>2. v10' = v10 \/ Refresh!Guarded(<<Refresh!To("fresh", FALSE)>>)
    BY <1>2, <1>7 DEF Refresh!BackendMismatch, Refresh!Reactivated
  <2>3. v10' # <<>> => Head(v10').do = "fresh"
    BY <1>0, <1>2, <1>3, <2>2
  <2> QED
    BY <1>1, <2>1, <2>3, RefusalsStay DEF Refresh!RefusalsOK
<1>8. CASE Refresh!OtherFailure
  <2>1. UNCHANGED <<v1, v6, v7, v8, v9>> /\ v10' = <<Refresh!Do("internal")>>
    BY <1>8 DEF Refresh!OtherFailure, Refresh!failures, Refresh!settings
  <2>2. Head(v10').do = "internal"
    BY <2>1 DEF Refresh!Do, Refresh!To
  <2> QED
    BY <1>1, <2>1, <2>2, RefusalsStay DEF Refresh!RefusalsOK
<1>9. CASE Refresh!TimePasses
  BY <1>0, <1>9 DEF Refresh!TimePasses, Refresh!RefusalsOK, Refresh!At
<1>10. CASE Refresh!LeaveSafeModeAndRetry
  <2>1. /\ UNCHANGED <<v1, v9>> /\ v6' = 0 /\ v7' = 0 /\ v8' = "closed"
        /\ Refresh!Guarded(<<Refresh!To("timer", FALSE), Refresh!Do("fresh")>>)
    BY <1>2, <1>10 DEF Refresh!LeaveSafeModeAndRetry
  <2>2. Head(v10').do = "timer"
    BY <1>2, <1>3, <2>1
  <2> QED
    BY <2>1, <2>2 DEF Refresh!RefusalsOK, Refresh!At
<1>11. CASE Refresh!Removed
  BY <1>0, <1>11, RefusalsStay DEF Refresh!Removed, Refresh!RefusalsOK, Refresh!At,
     Refresh!failures, Refresh!settings
<1> QED
  BY <1>4, <1>5, <1>6, <1>7, <1>8, <1>9, <1>10, <1>11

\* The refusals are counted up to their limit.
LEMMA RefusalsPreserved ==
  ASSUME Refresh!RefreshInv, Refresh!RefusalsOK, [Refresh!Next]_(Refresh!refreshVars)
  PROVE  Refresh!RefusalsOK'
<1>1. CASE UNCHANGED Refresh!refreshVars
  BY <1>1 DEF Refresh!refreshVars, Refresh!failures, Refresh!settings, Refresh!RefusalsOK,
     Refresh!At
<1>2. CASE Refresh!Next
  BY <1>2, RefusalsPass, RefusalsCount, RefusalsBetween DEF Refresh!Next
<1> QED
  BY <1>1, <1>2

\* At first nothing has been refused.
LEMMA RefusalsInit ==
  ASSUME Refresh!Init
  PROVE  Refresh!RefusalsOK
<1>1. Refresh!Do("timer").do = "timer" /\ Refresh!To("load", TRUE).do = "load"
  BY DEF Refresh!Do, Refresh!To
<1>2. Head(v10).do = "timer"
  BY <1>1 DEF Refresh!Init
<1> QED
  BY <1>2 DEF Refresh!Init, Refresh!RefusalsOK, Refresh!At, Refresh!RefreshFailureLimit,
     Refresh!InternalFailureLimit

\* The types of the applet's fetches.
LEMMA RefreshInvTypes ==
  ASSUME Refresh!RefreshInv, Refresh!RefusalsOK
  PROVE  Refresh!TypeOK
<1>1. v4 \in [DOMAIN Refresh!NoWaits -> BOOLEAN]
  <2>1. DOMAIN Refresh!NoWaits = {"cache", "cacheAfter", "fresh", "reactivation"}
    BY DEF Refresh!NoWaits
  <2>2. v4 \in [cache : BOOLEAN, cacheAfter : BOOLEAN, fresh : BOOLEAN, reactivation : BOOLEAN]
    BY DEF Refresh!RefreshInv, Refresh!ValuesOK
  <2> QED
    BY <2>1, <2>2
<1>2. \A i \in DOMAIN v10 : v10[i] \in Refresh!Steps
  BY DEF Refresh!RefreshInv, Refresh!ValuesOK
<1> QED
  BY <1>1, <1>2 DEF Refresh!TypeOK, Refresh!RefreshInv, Refresh!ValuesOK, Refresh!RefusalsOK,
     Refresh!Steps

-----------------------------------------------------------------------------
(* What every part keeps. *)

\* The inductive invariants of the stores and the locks, with what their types need.
StoreParts ==
  /\ part = "write" => Write!WriteInv /\ Write!TypeOK
  /\ part = "pool" => Pool!PoolInv
  /\ part = "evidence" => Evidence!EvidenceInv /\ Evidence!TypeOK
  /\ part = "maintain" => Maintain!MaintenanceInv /\ Maintain!TypeOK
  /\ part = "release" => Release!ReleaseInv
  /\ part = "service" => Service!ServiceInv
  /\ part = "delete" => Delete!DeleteInv /\ Delete!TypeOK
  /\ part = "migrate" => Migrate!MigrationInv
  /\ part = "locks" => Locking!LocksInv /\ Locking!PathsExist
  /\ part = "quarantine" => Quarantine!QuarantineInv

\* They hold at first.
LEMMA StorePartsInit == Init => StoreParts
<1> SUFFICES ASSUME Init PROVE StoreParts
  OBVIOUS
<1>1. part = "write" => Write!WriteInv /\ Write!TypeOK
  BY PartInits, WriteInvInit, StoreTypesInit, WriteAssumption
<1>2. part = "pool" => Pool!PoolInv
  BY PartInits, PoolInvInit, PoolAssumption
<1>3. part = "evidence" => Evidence!EvidenceInv /\ Evidence!TypeOK
  BY PartInits, EvidenceInvInit, StoreTypesInit, EvidenceAssumption
<1>4. part = "maintain" => Maintain!MaintenanceInv /\ Maintain!TypeOK
  BY PartInits, MaintenanceInvInit, StoreTypesInit, MaintainAssumption
<1>5. part = "release" => Release!ReleaseInv
  BY PartInits, ReleaseInvInit, ReleaseAssumption
<1>6. part = "service" => Service!ServiceInv
  BY PartInits, ServiceInvInit, ServiceAssumption
<1>7. part = "delete" => Delete!DeleteInv /\ Delete!TypeOK
  BY PartInits, DeleteInvInit, StoreTypesInit
<1>8. part = "migrate" => Migrate!MigrationInv
  BY PartInits, MigrationInvInit, MigrateAssumption
<1>9. part = "locks" => Locking!LocksInv /\ Locking!PathsExist
  BY PartInits, Locking!LocksInvInit, Locking!PathsExistInit, LockingAssumption
<1>10. part = "quarantine" => Quarantine!QuarantineInv
  BY PartInits, QuarantineInvInit, QuarantineAssumption
<1> QED
  BY <1>1, <1>2, <1>3, <1>4, <1>5, <1>6, <1>7, <1>8, <1>9, <1>10 DEF StoreParts

\* Each part keeps its own.
LEMMA StorePartsPreserved ==
  ASSUME StoreParts, [Next]_places
  PROVE  StoreParts'
<1>1. ASSUME part = "write"
      PROVE  Write!WriteInv' /\ Write!TypeOK'
  <2>1. [Write!Next]_(Write!vars)
    BY <1>1, PartMoves, PartStutters
  <2>2. Write!WriteInv /\ Write!TypeOK
    BY <1>1 DEF StoreParts
  <2>3. Write!WriteInv'
    BY <2>1, <2>2, WriteInvPreserved, WriteAssumption
  <2> QED
    BY <2>1, <2>2, <2>3, WriteTypes, WriteAssumption
<1>2. ASSUME part = "pool"
      PROVE  Pool!PoolInv'
  <2>1. [Pool!Next]_(Pool!poolVars)
    BY <1>2, PartMoves, PartStutters
  <2>2. Pool!PoolInv
    BY <1>2 DEF StoreParts
  <2> QED
    BY <2>1, <2>2, PoolInvPreserved, PoolAssumption
<1>3. ASSUME part = "evidence"
      PROVE  Evidence!EvidenceInv' /\ Evidence!TypeOK'
  <2>1. [Evidence!Next]_(Evidence!evidenceVars)
    BY <1>3, PartMoves, PartStutters
  <2>2. Evidence!EvidenceInv /\ Evidence!TypeOK
    BY <1>3 DEF StoreParts
  <2>3. Evidence!EvidenceInv'
    BY <2>1, <2>2, EvidenceInvPreserved, EvidenceAssumption
  <2> QED
    BY <2>1, <2>2, <2>3, EvidenceTypes, EvidenceAssumption
<1>4. ASSUME part = "maintain"
      PROVE  Maintain!MaintenanceInv' /\ Maintain!TypeOK'
  <2>1. [Maintain!Next]_(Maintain!maintenanceVars)
    BY <1>4, PartMoves, PartStutters
  <2>2. Maintain!MaintenanceInv /\ Maintain!TypeOK
    BY <1>4 DEF StoreParts
  <2>3. Maintain!MaintenanceInv'
    BY <2>1, <2>2, MaintenanceInvPreserved, MaintainAssumption
  <2> QED
    BY <2>1, <2>2, <2>3, MaintenanceTypes, MaintainAssumption
<1>5. ASSUME part = "release"
      PROVE  Release!ReleaseInv'
  <2>1. [Release!Next]_(Release!installVars)
    BY <1>5, PartMoves, PartStutters
  <2>2. Release!ReleaseInv
    BY <1>5 DEF StoreParts
  <2> QED
    BY <2>1, <2>2, ReleaseInvPreserved, ReleaseAssumption
<1>6. ASSUME part = "service"
      PROVE  Service!ServiceInv'
  <2>1. [Service!Next]_(Service!serviceVars)
    BY <1>6, PartMoves, PartStutters
  <2>2. Service!ServiceInv
    BY <1>6 DEF StoreParts
  <2> QED
    BY <2>1, <2>2, ServiceInvPreserved, ServiceAssumption
<1>7. ASSUME part = "delete"
      PROVE  Delete!DeleteInv' /\ Delete!TypeOK'
  <2>1. [Delete!Next]_(Delete!deleteVars)
    BY <1>7, PartMoves, PartStutters
  <2>2. Delete!DeleteInv /\ Delete!TypeOK
    BY <1>7 DEF StoreParts
  <2>3. Delete!DeleteInv'
    BY <2>1, <2>2, DeleteInvPreserved
  <2> QED
    BY <2>1, <2>2, <2>3, DeleteTypes
<1>8. ASSUME part = "migrate"
      PROVE  Migrate!MigrationInv'
  <2>1. [Migrate!Next]_(Migrate!vars)
    BY <1>8, PartMoves, PartStutters
  <2>2. Migrate!MigrationInv
    BY <1>8 DEF StoreParts
  <2> QED
    BY <2>1, <2>2, MigrationInvPreserved, MigrateAssumption
<1>9. ASSUME part = "locks"
      PROVE  Locking!LocksInv' /\ Locking!PathsExist'
  <2>1. [Locking!Next]_(Locking!lockVars)
    BY <1>9, PartMoves, PartStutters
  <2>2. Locking!LocksInv /\ Locking!PathsExist
    BY <1>9 DEF StoreParts
  <2>3. Locking!LocksInv'
    BY <2>1, <2>2, Locking!LocksInvPreserved, LockingAssumption
  <2> QED
    BY <2>1, <2>2, <2>3, Locking!PathsExistPreserved, LockingAssumption
<1>10. ASSUME part = "quarantine"
      PROVE  Quarantine!QuarantineInv'
  <2>1. [Quarantine!Next]_(Quarantine!quarantineVars)
    BY <1>10, PartMoves, PartStutters
  <2>2. Quarantine!QuarantineInv
    BY <1>10 DEF StoreParts
  <2> QED
    BY <2>1, <2>2, QuarantineInvPreserved, QuarantineAssumption
<1> QED
  BY <1>1, <1>2, <1>3, <1>4, <1>5, <1>6, <1>7, <1>8, <1>9, <1>10, PartStays DEF StoreParts

\* The inductive invariants of the clients, with what their types need.
ClientParts ==
  /\ part = "page" => Page!PageInv
  /\ part = "bridge" => Bridge!BridgeInv
  /\ part = "sync" => Sync!SyncInv /\ Sync!NumbersOK /\ Sync!ApplicationsCounted
  /\ part = "refresh" => Refresh!RefreshInv /\ Refresh!RefusalsOK
  /\ part = "aux" => Aux!AuxInv
  /\ part = "cache" => Cache!CacheInv /\ Cache!TypeOK
  /\ part = "call" => Call!CallInv /\ Call!TypeOK
  /\ part = "watchdog" => Watchdog!WatchdogInv
  /\ part = "fetch" => Fetch!FetchInv /\ Fetch!AnswersCounted /\ Fetch!Named
  /\ part = "samples" => Choice!SampleInv /\ Choice!TypeOK
  /\ part = "google" => Google!GoogleInv /\ Google!TypeOK /\ v14 \in 0 .. MaxRounds

\* They hold at first.
LEMMA ClientPartsInit == Init => ClientParts
<1> SUFFICES ASSUME Init PROVE ClientParts
  OBVIOUS
<1>1. part = "page" => Page!PageInv
  BY PartInits, PageInvInit, PageAssumption
<1>2. part = "bridge" => Bridge!BridgeInv
  BY PartInits, BridgeInvInit, BridgeAssumption
<1>3. part = "sync" => Sync!SyncInv /\ Sync!NumbersOK /\ Sync!ApplicationsCounted
  BY PartInits, Sync!SyncInvInit, Sync!SyncCountsInit, SyncAssumption
<1>4. part = "refresh" => Refresh!RefreshInv /\ Refresh!RefusalsOK
  BY PartInits, RefreshInvInit, RefusalsInit
<1>5. part = "aux" => Aux!AuxInv
  BY PartInits, AuxInvInit, AuxAssumption
<1>6. part = "cache" => Cache!CacheInv /\ Cache!TypeOK
  BY PartInits, CacheInvInit, ClientTypesInit, CacheAssumption
<1>7. part = "call" => Call!CallInv /\ Call!TypeOK
  BY PartInits, CallInvInit, ClientTypesInit, CallAssumption
<1>8. part = "watchdog" => Watchdog!WatchdogInv
  BY PartInits, WatchdogInvInit, WatchdogAssumption
<1>9. part = "fetch" => Fetch!FetchInv /\ Fetch!AnswersCounted /\ Fetch!Named
  BY PartInits, FetchInvInit, FetchCountedInit, FetchAssumption
<1>10. part = "samples" => Choice!SampleInv /\ Choice!TypeOK
  BY PartInits, SampleInvInit, ClientTypesInit, ChoiceAssumption
<1>11. part = "google" => Google!GoogleInv /\ Google!TypeOK /\ v14 \in 0 .. MaxRounds
  BY PartInits, GoogleInvInit, ClientTypesInit
<1> QED
  BY <1>1, <1>2, <1>3, <1>4, <1>5, <1>6, <1>7, <1>8, <1>9, <1>10, <1>11 DEF ClientParts

\* Each part keeps its own.
LEMMA ClientPartsPreserved ==
  ASSUME ClientParts, [Next]_places
  PROVE  ClientParts'
<1>1. ASSUME part = "page"
      PROVE  Page!PageInv'
  <2>1. [Page!Next]_(Page!pageVars)
    BY <1>1, PartMoves, PartStutters
  <2>2. Page!PageInv
    BY <1>1 DEF ClientParts
  <2> QED
    BY <2>1, <2>2, PageInvPreserved, PageAssumption
<1>2. ASSUME part = "bridge"
      PROVE  Bridge!BridgeInv'
  <2>1. [Bridge!Next]_(Bridge!bridgeVars)
    BY <1>2, PartMoves, PartStutters
  <2>2. Bridge!BridgeInv
    BY <1>2 DEF ClientParts
  <2> QED
    BY <2>1, <2>2, BridgeInvPreserved, BridgeAssumption
<1>3. ASSUME part = "sync"
      PROVE  Sync!SyncInv' /\ Sync!NumbersOK' /\ Sync!ApplicationsCounted'
  <2>1. [Sync!Next]_(Sync!authVars)
    BY <1>3, PartMoves, PartStutters
  <2>2. Sync!SyncInv /\ Sync!NumbersOK /\ Sync!ApplicationsCounted
    BY <1>3 DEF ClientParts
  <2>3. Sync!SyncInv'
    BY <2>1, <2>2, Sync!SyncInvPreserved, SyncAssumption
  <2> QED
    BY <2>1, <2>2, <2>3, Sync!NumbersPreserved, Sync!CountPreserved, SyncAssumption
<1>4. ASSUME part = "refresh"
      PROVE  Refresh!RefreshInv' /\ Refresh!RefusalsOK'
  <2>1. [Refresh!Next]_(Refresh!refreshVars)
    BY <1>4, PartMoves, PartStutters
  <2>2. Refresh!RefreshInv /\ Refresh!RefusalsOK
    BY <1>4 DEF ClientParts
  <2>3. Refresh!RefreshInv'
    BY <2>1, <2>2, RefreshInvPreserved
  <2> QED
    BY <2>1, <2>2, <2>3, RefusalsPreserved
<1>5. ASSUME part = "aux"
      PROVE  Aux!AuxInv'
  <2>1. [Aux!Next]_(Aux!auxVars)
    BY <1>5, PartMoves, PartStutters
  <2>2. Aux!AuxInv
    BY <1>5 DEF ClientParts
  <2> QED
    BY <2>1, <2>2, AuxInvPreserved, AuxAssumption
<1>6. ASSUME part = "cache"
      PROVE  Cache!CacheInv' /\ Cache!TypeOK'
  <2>1. [Cache!Next]_(Cache!vars)
    BY <1>6, PartMoves, PartStutters
  <2>2. Cache!CacheInv /\ Cache!TypeOK
    BY <1>6 DEF ClientParts
  <2>3. Cache!CacheInv'
    BY <2>1, <2>2, CacheInvPreserved, CacheAssumption
  <2> QED
    BY <2>1, <2>2, <2>3, CacheTypes, CacheAssumption
<1>7. ASSUME part = "call"
      PROVE  Call!CallInv' /\ Call!TypeOK'
  <2>1. [Call!Next]_(Call!vars)
    BY <1>7, PartMoves, PartStutters
  <2>2. Call!CallInv /\ Call!TypeOK
    BY <1>7 DEF ClientParts
  <2>3. Call!CallInv'
    BY <2>1, <2>2, CallInvPreserved, CallAssumption
  <2> QED
    BY <2>1, <2>2, <2>3, CallTypes, CallAssumption
<1>8. ASSUME part = "watchdog"
      PROVE  Watchdog!WatchdogInv'
  <2>1. [Watchdog!Next]_(Watchdog!vars)
    BY <1>8, PartMoves, PartStutters
  <2>2. Watchdog!WatchdogInv
    BY <1>8 DEF ClientParts
  <2> QED
    BY <2>1, <2>2, WatchdogInvPreserved, WatchdogAssumption
<1>9. ASSUME part = "fetch"
      PROVE  Fetch!FetchInv' /\ Fetch!AnswersCounted' /\ Fetch!Named'
  <2>1. [Fetch!Next]_(Fetch!vars)
    BY <1>9, PartMoves, PartStutters
  <2>2. Fetch!FetchInv /\ Fetch!AnswersCounted /\ Fetch!Named
    BY <1>9 DEF ClientParts
  <2>3. Fetch!FetchInv'
    BY <2>1, <2>2, FetchInvPreserved, FetchAssumption
  <2> QED
    BY <2>1, <2>2, <2>3, FetchCounted, FetchNamed, FetchAssumption
<1>10. ASSUME part = "samples"
      PROVE  Choice!SampleInv' /\ Choice!TypeOK'
  <2>1. [Choice!Next]_(Choice!vars)
    BY <1>10, PartMoves, PartStutters
  <2>2. Choice!SampleInv /\ Choice!TypeOK
    BY <1>10 DEF ClientParts
  <2>3. Choice!SampleInv'
    BY <2>1, <2>2, SampleInvPreserved, ChoiceAssumption
  <2> QED
    BY <2>1, <2>2, <2>3, ChoiceTypes, ChoiceAssumption
<1>11. ASSUME part = "google"
      PROVE  Google!GoogleInv' /\ Google!TypeOK' /\ v14' \in 0 .. MaxRounds
  <2>1. [Google!Next]_(Google!vars)
    BY <1>11, PartMoves, PartStutters
  <2>2. Google!GoogleInv /\ Google!TypeOK /\ v14 \in 0 .. MaxRounds
    BY <1>11 DEF ClientParts
  <2>3. Google!GoogleInv'
    BY <2>1, <2>2, GoogleInvPreserved
  <2> QED
    BY <2>1, <2>2, <2>3, GoogleTypes
<1> QED
  BY <1>1, <1>2, <1>3, <1>4, <1>5, <1>6, <1>7, <1>8, <1>9, <1>10, <1>11, PartStays DEF ClientParts

\* The inductive invariants of all parts hold of every behaviour.
LEMMA PartsHold == Spec => [](StoreParts /\ ClientParts)
<1>1. Init => StoreParts /\ ClientParts
  BY StorePartsInit, ClientPartsInit
<1>2. StoreParts /\ ClientParts /\ [Next]_places => (StoreParts /\ ClientParts)'
  BY StorePartsPreserved, ClientPartsPreserved
<1> QED
  BY <1>1, <1>2, PTL DEF Spec

-----------------------------------------------------------------------------
(***************************************************************************)
(* The theorems.                                                           *)
(***************************************************************************)

-----------------------------------------------------------------------------
\* A reader, and a power loss, find the old text of a private file or the new
\* one, and what the writer reports of it is true.
THEOREM WriteIsAtomicHolds == Spec => []WriteIsAtomic
<1>1. StoreParts => WriteIsAtomic
  BY WriteInvAtomic DEF WriteIsAtomic, StoreParts
<1> QED
  BY <1>1, PartsHold, PTL

\* Without a marker, and while it is published, the source of the pool is what
\* the configuration says.
THEOREM SourceAgreesHolds == Spec => []SourceAgrees
<1>1. StoreParts => SourceAgrees
  BY PoolInvAgrees DEF SourceAgrees, StoreParts
<1> QED
  BY <1>1, PartsHold, PTL

\* The pointer to the evidence names complete generations, a recovery leaves the
\* old pointer or the new one, and what a writer reports is true.
THEOREM EvidenceStandsHolds == Spec => []EvidenceStands
<1>1. StoreParts => EvidenceStands
  BY EvidenceInvStands DEF EvidenceStands, StoreParts
<1> QED
  BY <1>1, PartsHold, PTL

\* However the commands meet, no threads wait for each other in a circle.
THEOREM NoCircularWaitHolds == Spec => []NoCircularWait
<1>1. StoreParts => NoCircularWait
  BY LockingAssumption, Locking!LocksInvNoCircle DEF NoCircularWait, StoreParts
<1> QED
  BY <1>1, PartsHold, PTL

\* An account that is not marked for synchronisation has the credentials that
\* the service has.
THEOREM FlagIsHonestHolds == Spec => []FlagIsHonest
<1>1. ClientParts => FlagIsHonest
  BY Sync!SyncInvHonest DEF FlagIsHonest, ClientParts
<1> QED
  BY <1>1, PartsHold, PTL

\* The last state saved of an account is always in exactly one place, and what a
\* transaction took away never becomes the state of an account configured again.
THEOREM MaintenanceIsSafeHolds == Spec => MaintenanceIsSafe
<1> DEFINE Lasting == part = "maintain" => Maintain!NothingLost
           Steps   == part = "maintain" => Maintain!StaleStays
<1>1. StoreParts => Lasting
  BY MaintainAssumption, MaintenanceInvNothingLost DEF StoreParts
<1>2. StoreParts /\ [Next]_places => Steps
  BY MaintainAssumption, PartMoves, PartStutters, MaintenanceInvStale DEF StoreParts
<1>3. MaintenanceIsSafe <=> []Lasting /\ [][Steps]_places
  BY DEF MaintenanceIsSafe
<1> HIDE DEF Lasting, Steps
<1> QED
  BY <1>1, <1>2, <1>3, PartsHold, PTL DEF Spec

\* Whatever fails, is interrupted or dies: a configured account has its profile, and
\* its usage files all or none, except after a failure to put something back.
THEOREM ConfiguredIsWholeHolds == Spec => []ConfiguredIsWhole
<1>1. StoreParts => ConfiguredIsWhole
  BY DeleteInvWhole DEF ConfiguredIsWhole, StoreParts
<1> QED
  BY <1>1, PartsHold, PTL

\* What a run reports as moved to the quarantine is there, as it was approved, and is
\* reported by no other run.
THEOREM CommittedIsKeptHolds == Spec => []CommittedIsKept
<1>1. StoreParts => CommittedIsKept
  BY QuarantineAssumption, QuarantineInvKept DEF CommittedIsKept, StoreParts
<1> QED
  BY <1>1, PartsHold, PTL

\* Each resolver process belongs to a call or waits for the reaper, and each open
\* callback listener has a timer that will close it, or blocks every change.
THEOREM NothingIsLeftOpenHolds == Spec => []NothingIsLeftOpen
<1>1. ClientParts => NothingIsLeftOpen
  BY CallInvNotLost, GoogleInvNotLost DEF NothingIsLeftOpen, ClientParts
<1> QED
  BY <1>1, PartsHold, PTL

\* The active manifest names a complete release that was built from the source it is
\* named after, and an installation that reports a failure has left the manifest it found.
THEOREM ReleaseIsWholeHolds == Spec => []ReleaseIsWhole
<1>1. StoreParts => ReleaseIsWhole
  BY ReleaseInvWhole DEF ReleaseIsWhole, StoreParts
<1> QED
  BY <1>1, PartsHold, PTL

\* A migration that failed or was rolled back leaves nothing of its making unnamed, and
\* removes no login but one that came in its very last moment.
THEOREM MigrationIsUndoneHolds == Spec => []MigrationIsUndone
<1>1. StoreParts => MigrationIsUndone
  BY MigrationInvUndone DEF MigrationIsUndone, StoreParts
<1> QED
  BY <1>1, PartsHold, PTL

\* The usage of a payload was requested after its send had begun.
THEOREM PayloadIsFreshHolds == Spec => []PayloadIsFresh
<1>1. ClientParts => PayloadIsFresh
  BY PageInvFresh DEF PayloadIsFresh, ClientParts
<1> QED
  BY <1>1, PartsHold, PTL

\* Every way a connection can end gives its slot back, and outside of an exchange the
\* files of the extension are of one build.
THEOREM BridgeIsWholeHolds == Spec => []BridgeIsWhole
<1>1. ClientParts => BridgeIsWhole
  BY BridgeInvWhole DEF BridgeIsWhole, ClientParts
<1> QED
  BY <1>1, PartsHold, PTL

\* The timer never runs a mixture of two installations, and a command that reports an
\* ordinary failure has left the runtime, the units and the timer as it found them.
THEOREM ServiceIsWholeHolds == Spec => []ServiceIsWhole
<1>1. StoreParts => ServiceIsWhole
  BY ServiceAssumption, ServiceInvWhole DEF ServiceIsWhole, StoreParts
<1> QED
  BY <1>1, PartsHold, PTL

\* A run of the watchdog ends within its budget, and no process that it started outlives
\* it unless it says so.
THEOREM RunEndsCleanHolds == Spec => []RunEndsClean
<1>1. ClientParts => RunEndsClean
  BY WatchdogAssumption, WatchdogInvEndsClean DEF RunEndsClean, ClientParts
<1> QED
  BY <1>1, PartsHold, PTL

\* A load finds the snapshot whose save succeeded last, or one whose save began later,
\* whatever failed, died or lost power in between.
THEOREM LoadIsDueHolds == Spec => []LoadIsDue
<1>1. ClientParts => LoadIsDue
  BY CacheInvDue DEF LoadIsDue, ClientParts
<1> QED
  BY <1>1, PartsHold, PTL

\* The values a fetch records under a login are of that login, as far as the code can
\* tell them from those of others.
THEOREM AnswerIsOwnHolds == Spec => []AnswerIsOwn
<1>1. ClientParts => AnswerIsOwn
  BY FetchInvOwn DEF AnswerIsOwn, ClientParts
<1> QED
  BY <1>1, PartsHold, PTL

\* The sample that is chosen is the latest one or one that most repeat, leaves no window
\* of the latest one out, and shows no more used of any.
THEOREM ChosenIsCurrentHolds == Spec => []ChosenIsCurrent
<1>1. ClientParts => ChosenIsCurrent
  BY SampleInvCurrent DEF ChosenIsCurrent, ClientParts
<1> QED
  BY <1>1, PartsHold, PTL

\* A login that the applet shows as active has a job, a process or a waiting request,
\* unless it waited when the safe mode dropped the queue.
THEOREM ActiveLoginIsRealHolds == Spec => []ActiveLoginIsReal
<1>1. ClientParts => ActiveLoginIsReal
  BY AuxAssumption, AuxInvReal DEF ActiveLoginIsReal, ClientParts
<1> QED
  BY <1>1, PartsHold, PTL

\* When no callback of the applet runs, a refresh it shows is running, and what it
\* remembered has a command whose answer starts it.
THEOREM NothingWaitsInVainHolds == Spec => []NothingWaitsInVain
<1>1. ClientParts => NothingWaitsInVain
  BY RefreshInvWaits DEF NothingWaitsInVain, ClientParts
<1> QED
  BY <1>1, PartsHold, PTL

\* However far a part runs: its variables keep the types its module gives them, and no
\* count passes its limit.
THEOREM TypeOKHolds == Spec => []TypeOK
<1>1. StoreParts /\ ClientParts => TypeOK
  <2> SUFFICES ASSUME StoreParts, ClientParts PROVE TypeOK
    OBVIOUS
  <2>1. /\ part = "write" => Write!TypeOK
        /\ part = "evidence" => Evidence!TypeOK
        /\ part = "maintain" => Maintain!TypeOK
        /\ part = "delete" => Delete!TypeOK
        /\ part = "service" => Service!TypeOK
        /\ part = "quarantine" => Quarantine!TypeOK
        /\ part = "locks" => Locking!TypeOK
    BY ServiceInvTypes, QuarantineInvTypes, Locking!LocksInvTypes DEF StoreParts
  <2>2. /\ part = "pool" => Pool!TypeOK
        /\ part = "release" => Release!TypeOK
        /\ part = "migrate" => Migrate!TypeOK
    BY DEF StoreParts, Pool!PoolInv, Release!ReleaseInv, Migrate!MigrationInv
  <2>3. /\ part = "page" => Page!TypeOK
        /\ part = "bridge" => Bridge!TypeOK
        /\ part = "watchdog" => Watchdog!TypeOK
    BY DEF ClientParts, Page!PageInv, Page!ValuesOK, Bridge!BridgeInv, Bridge!ValuesOK,
       Watchdog!WatchdogInv
  <2>4. /\ part = "cache" => Cache!TypeOK
        /\ part = "call" => Call!TypeOK
        /\ part = "samples" => Choice!TypeOK
        /\ part = "google" => Google!TypeOK
    BY DEF ClientParts
  <2>5. /\ part = "sync" => Sync!TypeOK
        /\ part = "refresh" => Refresh!TypeOK
        /\ part = "aux" => Aux!TypeOK
        /\ part = "fetch" => Fetch!TypeOK
    BY SyncAssumption, FetchAssumption, Sync!SyncInvTypes, RefreshInvTypes, AuxInvTypes,
       FetchInvTypes DEF ClientParts
  <2> QED
    BY <2>1, <2>2, <2>3, <2>4, <2>5 DEF TypeOK
<1> QED
  BY <1>1, PartsHold, PTL
=============================================================================
