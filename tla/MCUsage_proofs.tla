--------------------------- MODULE MCUsage_proofs ----------------------------
(***************************************************************************)
(* The parts of MCUsage beside AccountState: their inductive invariants,   *)
(* each of which holds at first, is preserved by every step, and implies   *)
(* what MCUsage checks of its part. What the service offers and how long   *)
(* its windows are is taken from ValuesAssumption only: the proofs expand  *)
(* neither SomeOffers nor Lengths, and hold of any others as well.         *)
(***************************************************************************)
EXTENDS MCUsage, Integers, FiniteSetTheorems, WellFoundedInduction, TLAPS

-----------------------------------------------------------------------------
(***************************************************************************)
(* The values in a usage.                                                  *)
(***************************************************************************)
\* The records of a window.
WindowSet == [left : Int, due : Int, relative : BOOLEAN,
              taken : Values!Unknown .. MaxTime, whose : {Values!Unknown, 0, 1},
              inferred : BOOLEAN]

LEMMA RecordFields ==
  ASSUME NEW u \in Values!Records
  PROVE  /\ u # Values!Nothing
         /\ u.captured \in 0 .. MaxTime
            /\ u.stamp \in {Values!Unknown} \cup (0 .. MaxTime)
         /\ u.status \in {"ok", "partial"} /\ u.whose \in {Values!Unknown, 0, 1}
         /\ u.windows \in [Values!Windows -> WindowSet]
         /\ u.guarded \in BOOLEAN
  BY DEF Values!Records, WindowSet, Values!Nothing, Values!Unknown

LEMMA MissingIsWindow ==
  ASSUME Values!ValuesConstants
  PROVE  Values!Missing \in WindowSet /\ Values!Missing.left = Values!Unknown
         /\ Values!Missing.due = Values!Unknown
  BY DEF Values!ValuesConstants, Values!Missing, WindowSet, Values!Unknown

\* Expiry takes windows out and leaves the times.
LEMMA ExpireOf ==
  ASSUME Values!ValuesConstants, NEW u \in Values!Records, NEW at \in Int
  PROVE  LET e == Values!Expire(u, at)
         IN  /\ e \in Values!Records
             /\ e.captured = u.captured /\ e.stamp = u.stamp /\ e.whose = u.whose
             /\ e.guarded = u.guarded
             /\ \A w \in Values!Windows : e.windows[w] = Values!Missing
                \/ e.windows[w] = u.windows[w]
             /\ \A w \in Values!Windows : ~Values!Expired(w, e.windows[w],
                   IF e.windows[w].due # Values!Unknown THEN u.captured
                   ELSE Values!Stamp(u), at)
<1> DEFINE since(w) == IF u.windows[w].due # Values!Unknown THEN u.captured
                       ELSE Values!Stamp(u)
           gone == {w \in Values!Windows :
                      Values!Expired(w, u.windows[w], since(w), at)}
           left == [w \in Values!Windows |->
                      IF w \in gone THEN Values!Missing ELSE u.windows[w]]
           e == Values!Expire(u, at)
<1>1. u.windows \in [Values!Windows -> WindowSet]
  BY RecordFields
<1>2. CASE gone = {}
  <2>1. e = u
    BY <1>2 DEF Values!Expire
  <2>2. \A w \in Values!Windows : ~Values!Expired(w, u.windows[w], since(w), at)
    BY <1>2
  <2> QED
    BY <2>1, <2>2
<1>3. CASE gone # {}
  <2>1. e = [u EXCEPT !.windows = left, !.status = "partial", !.stale = TRUE]
    BY <1>3 DEF Values!Expire
  <2>2. left \in [Values!Windows -> WindowSet]
    BY <1>1, MissingIsWindow
  <2> HIDE DEF left
  <2>3. /\ e \in Values!Records /\ e.windows = left
        /\ e.captured = u.captured /\ e.stamp = u.stamp /\ e.whose = u.whose
        /\ e.guarded = u.guarded
    BY <2>1, <2>2 DEF Values!Records, WindowSet
  <2>4. ASSUME NEW w \in Values!Windows
        PROVE  /\ left[w] = Values!Missing \/ left[w] = u.windows[w]
               /\ ~Values!Expired(w, left[w], 
                    IF left[w].due # Values!Unknown THEN u.captured
                    ELSE Values!Stamp(u), at)
    <3>1. CASE w \in gone
      BY <3>1, MissingIsWindow DEF left, Values!Expired, Values!Present
    <3>2. CASE w \notin gone
      <4>1. left[w] = u.windows[w]
        BY <3>2 DEF left
      <4>2. ~Values!Expired(w, u.windows[w], since(w), at)
        BY <3>2
      <4> QED
        BY <4>1, <4>2
    <3> QED
      BY <3>1, <3>2
  <2> QED
    BY <2>3, <2>4
<1> QED
  BY <1>2, <1>3

\* The value of a merged window is one of the two, with its time and its login.
Takes(r, from) ==
  /\ from.left # Values!Unknown /\ r.taken = from.taken /\ r.whose = from.whose
  /\ r.due = Values!Unknown => from.due = Values!Unknown

LEMMA MergeWindowOf ==
  ASSUME NEW w, NEW new \in WindowSet, NEW old \in WindowSet, NEW of, NEW last
  PROVE  LET r == Values!MergeWindow(w, new, old, of, last)
         IN  /\ r \in WindowSet
             /\ r.left # Values!Unknown => Takes(r, new) \/ Takes(r, old)
<1> DEFINE r == Values!MergeWindow(w, new, old, of, last)
           a == [new EXCEPT !.due = old.due]
           b == [old EXCEPT !.due = new.due]
<1>1. \/ r \in {new, old}
      \/ r = a /\ old.due # Values!Unknown
      \/ r = b /\ new.due # Values!Unknown
  BY DEF Values!MergeWindow, Values!Present
<1>2. /\ a \in WindowSet /\ a.due = old.due /\ a.left = new.left /\ a.taken = new.taken
      /\ a.whose = new.whose
  BY DEF WindowSet
<1>3. /\ b \in WindowSet /\ b.due = new.due /\ b.left = old.left /\ b.taken = old.taken
      /\ b.whose = old.whose
  BY DEF WindowSet
<1> HIDE DEF r, a, b
<1>4. r \in WindowSet /\ (r.left # Values!Unknown => Takes(r, new) \/ Takes(r, old))
  <2>1. CASE r \in {new, old}
    BY <2>1 DEF Takes
  <2>2. CASE r = a /\ old.due # Values!Unknown
    BY <1>2, <2>2 DEF Takes
  <2>3. CASE r = b /\ new.due # Values!Unknown
    BY <1>3, <2>3 DEF Takes
  <2> QED
    BY <1>1, <2>1, <2>2, <2>3
<1> QED
  BY <1>4 DEF r

LEMMA MergeIntoOf ==
  ASSUME NEW u \in Values!Records, NEW last \in Values!Records
  PROVE  LET m == Values!MergeInto(u, last)
         IN  /\ m \in Values!Records /\ m.captured = u.captured /\ m.whose = u.whose
             /\ m = u \/ m.stamp = Values!Stamp(last)
             /\ \A w \in Values!Windows : m.windows[w].left # Values!Unknown =>
                   Takes(m.windows[w], u.windows[w]) \/ Takes(m.windows[w],
                   last.windows[w])
<1> DEFINE merged == [w \in Values!Windows |->
                        Values!MergeWindow(w, u.windows[w], last.windows[w], u, last)]
           m == Values!MergeInto(u, last)
<1>1. u.windows \in [Values!Windows -> WindowSet]
      /\ last.windows \in [Values!Windows -> WindowSet]
  BY RecordFields
<1>2. /\ merged \in [Values!Windows -> WindowSet]
      /\ \A w \in Values!Windows : merged[w].left # Values!Unknown =>
            Takes(merged[w], u.windows[w]) \/ Takes(merged[w], last.windows[w])
  BY <1>1, MergeWindowOf
<1>3. IF merged = u.windows THEN m = u
      ELSE m = [u EXCEPT !.windows = merged, !.stamp = Values!Stamp(last), !.stale = TRUE]
  BY DEF Values!MergeInto
<1>4. Values!Stamp(last) \in {Values!Unknown} \cup (0 .. MaxTime)
  BY RecordFields DEF Values!Stamp
<1> HIDE DEF merged, m
<1>5. /\ m \in Values!Records /\ m.captured = u.captured /\ m.whose = u.whose
      /\ m.windows = merged
      /\ m = u \/ m.stamp = Values!Stamp(last)
  <2>1. CASE merged = u.windows
    BY <1>3, <2>1
  <2>2. CASE merged # u.windows
    BY <1>2, <1>3, <1>4, <2>2 DEF Values!Records, WindowSet
  <2> QED
    BY <2>1, <2>2
<1> QED
  BY <1>2, <1>5 DEF m

-----------------------------------------------------------------------------
\* Fetching.

LEMMA StampOf ==
  ASSUME NEW u \in Values!Records
  PROVE  /\ Values!Stamp(u) \in 0 .. MaxTime
         /\ u.stamp = Values!Unknown => Values!Stamp(u) = u.captured
         /\ u.stamp # Values!Unknown => Values!Stamp(u) = u.stamp
  BY RecordFields DEF Values!Stamp, Values!Unknown

\* An answer, and what is left of it.
AnswerUsage(offered, at, whose) ==
  Values!Usage([w
  \in Values!Windows |-> Values!Reading(offered[w], at, whose)], at, whose)

\* A reading is a window of the time and the login that it is for.
LEMMA ReadingOf ==
  ASSUME Values!ValuesConstants, NEW at \in 0 .. MaxTime, NEW whose \in {0, 1},
         NEW offer \in Values!Readings
  PROVE  LET r == Values!Reading(offer, at, whose)
         IN  /\ r \in WindowSet
             /\ r.left # Values!Unknown => r.taken = at /\ r.whose = whose
<1>1. CASE offer.left = Values!Unknown /\ offer.ahead = Values!Unknown
  BY <1>1, MissingIsWindow DEF Values!Reading
<1>2. CASE ~(offer.left = Values!Unknown /\ offer.ahead = Values!Unknown)
  <2> DEFINE due == IF offer.ahead = Values!Unknown THEN Values!Unknown
                    ELSE at + offer.ahead
             r == [left |-> offer.left, due |-> due, relative |-> offer.relative,
                   taken |-> at, whose |-> whose, inferred |-> FALSE]
  <2>1. due \in Int /\ offer.left \in Int /\ offer.relative \in BOOLEAN
    BY DEF Values!Readings, Values!Unknown
  <2>2. at \in Values!Unknown .. MaxTime
    BY DEF Values!Unknown, Values!ValuesConstants
  <2>3. r \in WindowSet /\ r.taken = at /\ r.whose = whose
    BY <2>1, <2>2 DEF WindowSet
  <2>4. Values!Reading(offer, at, whose) = r
    BY <1>2 DEF Values!Reading
  <2> QED
    BY <2>3, <2>4
<1> QED
  BY <1>1, <1>2

\* A usage of such windows.
LEMMA UsageOf ==
  ASSUME NEW at \in 0 .. MaxTime, NEW whose \in {0, 1},
         NEW windows \in [Values!Windows -> WindowSet]
  PROVE  LET u == Values!Usage(windows, at, whose)
         IN  /\ u \in Values!Records /\ u.captured = at /\ u.stamp = Values!Unknown
             /\ u.whose = whose /\ ~u.guarded /\ u.windows = windows
<1>1. Values!StatusOf(windows) \in {"ok", "partial"}
  BY DEF Values!StatusOf
<1> DEFINE v == [captured |-> at, stamp |-> Values!Unknown,
                 status |-> Values!StatusOf(windows),
                 stale |-> FALSE, guarded |-> FALSE, invalidated |-> FALSE,
                 whose |-> whose, windows |-> windows]
<1>2. Values!Usage(windows, at, whose) = v
  BY DEF Values!Usage
<1>3. v \in Values!Records
  BY <1>1 DEF Values!Records, WindowSet
<1> QED
  BY <1>2, <1>3

LEMMA AnswerOf ==
  ASSUME Values!ValuesConstants, NEW at \in 0 .. MaxTime, NEW whose \in {0, 1},
         NEW offered \in Values!Answers
  PROVE  LET u == AnswerUsage(offered, at, whose)
         IN  /\ u \in Values!Records /\ u.captured = at /\ u.stamp = Values!Unknown
             /\ u.whose = whose
             /\ ~u.guarded
             /\ \A w \in Values!Windows : u.windows[w].left # Values!Unknown =>
                   u.windows[w].taken = at /\ u.windows[w].whose = whose
<1> DEFINE windows == [w \in Values!Windows |-> Values!Reading(offered[w], at, whose)]
<1>1. ASSUME NEW w \in Values!Windows
      PROVE  /\ Values!Reading(offered[w], at, whose) \in WindowSet
             /\ Values!Reading(offered[w], at, whose).left # Values!Unknown =>
                   /\ Values!Reading(offered[w], at, whose).taken = at
                   /\ Values!Reading(offered[w], at, whose).whose = whose
  <2>1. offered[w] \in Values!Readings
    BY DEF Values!Answers, Values!ValuesConstants
  <2> QED
    BY <2>1, ReadingOf
<1>2. windows \in [Values!Windows -> WindowSet]
  BY <1>1
<1>3. AnswerUsage(offered, at, whose) = Values!Usage(windows, at, whose)
  BY DEF AnswerUsage
<1> HIDE DEF windows
<1>4. LET u == AnswerUsage(offered, at, whose)
      IN  /\ u \in Values!Records /\ u.captured = at /\ u.stamp = Values!Unknown
          /\ u.whose = whose /\ ~u.guarded /\ u.windows = windows
  BY <1>2, <1>3, UsageOf
<1> QED
  BY <1>1, <1>4 DEF windows

\* What an earlier version stored is a usage of the start and of the first login.
LEMMA InheritedOf ==
  ASSUME Values!ValuesConstants, NEW u \in Values!Inherited
  PROVE  /\ u \in Values!Records /\ u.captured = 0 /\ u.stamp = Values!Unknown
         /\ u.whose = 0 /\ ~u.guarded
         /\ \A w \in Values!Windows : u.windows[w].left # Values!Unknown =>
               u.windows[w].taken = 0 /\ u.windows[w].whose = 0
<1>1. PICK offered \in Values!Answers :
        u = Values!Usage([w \in Values!Windows |->
                            IF w = "five_hour" THEN Values!Inferred(0, 0)
                            ELSE Values!Reading(offered[w], 0, 0)], 0, 0)
  BY DEF Values!Inherited
<1> DEFINE windows == [w \in Values!Windows |->
                         IF w = "five_hour" THEN Values!Inferred(0, 0)
                         ELSE Values!Reading(offered[w], 0, 0)]
<1>0. 0 \in 0 .. MaxTime
  BY DEF Values!ValuesConstants
<1>2. ASSUME NEW w \in Values!Windows
      PROVE  /\ windows[w] \in WindowSet
             /\ windows[w].left # Values!Unknown =>
                   windows[w].taken = 0 /\ windows[w].whose = 0
  <2>1. offered[w] \in Values!Readings
    BY DEF Values!Answers, Values!ValuesConstants
  <2>2. CASE w = "five_hour"
    <3>1. 0 \in Values!Unknown .. MaxTime /\ Values!Unknown \in Int
      BY <1>0 DEF Values!Unknown
    <3>2. Values!Inferred(0, 0) \in WindowSet /\ Values!Inferred(0, 0).taken = 0
          /\ Values!Inferred(0, 0).whose = 0
      BY <3>1 DEF Values!Inferred, WindowSet
    <3> QED
      BY <2>2, <3>2
  <2>3. CASE w # "five_hour"
    <3>1. windows[w] = Values!Reading(offered[w], 0, 0)
      BY <2>3
    <3> HIDE DEF windows
    <3> QED
      BY <1>0, <2>1, <3>1, ReadingOf
  <2> QED
    BY <2>2, <2>3
<1>3. windows \in [Values!Windows -> WindowSet]
  BY <1>2
<1>4. u = Values!Usage(windows, 0, 0)
  BY <1>1
<1> HIDE DEF windows
<1>5. /\ u \in Values!Records /\ u.captured = 0 /\ u.stamp = Values!Unknown
      /\ u.whose = 0 /\ ~u.guarded /\ u.windows = windows
  BY <1>0, <1>3, <1>4, UsageOf
<1> QED
  BY <1>2, <1>5

\* What a fetch makes of an answer, with the snapshot it meets.
LEMMA SettledOf ==
  ASSUME Values!ValuesConstants, Values!ValuesInv, NEW u \in Values!Records,
         Values!PastAndOwn(u), u.stamp = Values!Unknown,
         ~u.guarded,
         \A w \in Values!Windows : u.windows[w].left # Values!Unknown
         => u.windows[w].taken = u.captured
  PROVE  LET d == Values!Settled(u)
         IN  /\ d \in Values!Records /\ Values!PastAndOwn(d) /\ Values!AsFetched(d)
             /\ ~v8 => Values!Dated(d)
             /\ d.guarded => /\ v7 # Values!Nothing /\ v7.captured <= d.captured
                             /\ d.whose = v7.whose /\ d.stamp = Values!Stamp(v7)
<1>1. CASE ~(Values!MayStabilize(u, v7) /\ Values!Retained(u, v7) # {})
  <2>1. Values!Settled(u) = u
    BY <1>1 DEF Values!Settled
  <2> QED
    BY <2>1, StampOf, RecordFields DEF Values!AsFetched, Values!Dated
<1>2. CASE Values!MayStabilize(u, v7) /\ Values!Retained(u, v7) # {}
  <2> DEFINE kept == [w \in Values!Windows |-> IF w \in Values!Retained(u, v7)
                                       THEN v7.windows[w] ELSE u.windows[w]]
             d == [u EXCEPT !.windows = kept, !.stamp = Values!Stamp(v7),
             !.guarded = TRUE,
                            !.stale = TRUE]
  <2>1. Values!Settled(u) = d
    BY <1>2 DEF Values!Settled, Values!Stabilized
  <2>2. /\ v7 \in Values!Records /\ v7.whose = u.whose
        /\ v7.captured <= u.captured
        /\ Values!PastAndOwn(v7) /\ (~v8 => Values!Dated(v7))
    <3>1. v7 # Values!Nothing /\ v7.whose = u.whose
          /\ u.captured - v7.captured \in 0 .. MaxAge
      BY <1>2 DEF Values!MayStabilize
    <3>2. v7 \in Values!Records /\ Values!PastAndOwn(v7) /\ (~v8 => Values!Dated(v7))
      BY <3>1 DEF Values!ValuesInv, Values!TypeOK
    <3> QED
      BY <3>1, <3>2, RecordFields DEF Values!ValuesConstants
  <2>3. Values!Stamp(v7) \in 0 .. MaxTime /\ Values!Stamp(v7) <= v7.captured
    BY <2>2, StampOf, RecordFields DEF Values!PastAndOwn
  <2>4. kept \in [Values!Windows -> WindowSet]
    BY <2>2, RecordFields
  <2>5. /\ d \in Values!Records /\ d.windows = kept /\ d.captured = u.captured
        /\ d.whose = u.whose /\ d.stamp = Values!Stamp(v7) /\ d.guarded
    BY <2>3, <2>4 DEF Values!Records, WindowSet
  <2>7. ASSUME NEW w \in Values!Windows, kept[w].left # Values!Unknown
        PROVE  /\ kept[w].whose = u.whose
               /\ kept[w].due = Values!Unknown => kept[w].taken = u.captured
               /\ ~v8 => kept[w].taken >= Values!Stamp(v7)
    <3>1. CASE w \in Values!Retained(u, v7)
      <4>1. kept[w] = v7.windows[w]
        BY <3>1
      <4>2. v7.windows[w].due # Values!Unknown
        BY <3>1 DEF Values!Retained, Values!Retain, Values!Discontinuity
      <4>3. v7.windows[w].left # Values!Unknown
        BY <2>7, <4>1
      <4>4. v7.windows[w].whose = u.whose
        BY <2>2, <4>3, RecordFields DEF Values!PastAndOwn
      <4>5. ~v8 => v7.windows[w].taken >= Values!Stamp(v7)
        BY <2>2, <4>3 DEF Values!Dated
      <4> HIDE DEF kept
      <4> QED
        BY <4>1, <4>2, <4>4, <4>5
    <3>2. CASE w \notin Values!Retained(u, v7)
      <4>1. kept[w] = u.windows[w]
        BY <3>2
      <4>2. u.captured >= Values!Stamp(v7)
        BY <2>2, <2>3, RecordFields
      <4> QED
        BY <2>7, <4>1, <4>2, RecordFields DEF Values!PastAndOwn
    <3> QED
      BY <3>1, <3>2
  <2> HIDE DEF kept, d
  <2>6. Values!Stamp(d) = Values!Stamp(v7)
    BY <2>3, <2>5 DEF Values!Stamp, Values!Unknown
  <2>8. Values!PastAndOwn(d)
    BY <2>2, <2>3, <2>5, <2>6, <2>7, RecordFields DEF Values!PastAndOwn
  <2>9. Values!AsFetched(d)
    BY <2>5, <2>7 DEF Values!AsFetched
  <2>10. ~v8 => Values!Dated(d)
    BY <2>5, <2>6, <2>7 DEF Values!Dated
  <2>11. /\ d \in Values!Records /\ Values!PastAndOwn(d) /\ Values!AsFetched(d)
         /\ ~v8 => Values!Dated(d)
    BY <2>5, <2>8, <2>9, <2>10
  <2>12. /\ v7 # Values!Nothing /\ v7.captured <= d.captured
         /\ d.whose = v7.whose /\ d.stamp = Values!Stamp(v7)
    BY <2>2, <2>5, RecordFields
  <2> QED
    BY <2>1, <2>11, <2>12
<1> QED
  BY <1>1, <1>2
-----------------------------------------------------------------------------
\* Merging.

\* What is merged with an earlier usage of the same login stays dated.
LEMMA MergedIsDated ==
  ASSUME Values!ValuesConstants, NEW u \in Values!Records, NEW last \in Values!Records,
         Values!PastAndOwn(u), Values!AsFetched(u), Values!PastAndOwn(last),
         Values!OpenDated(last),
         last.captured <= u.captured, u.whose = last.whose
  PROVE  LET m == Values!MergeInto(u, last)
         IN  /\ m \in Values!Records /\ m.captured = u.captured /\ m.whose = u.whose
             /\ Values!Stamp(m) \in {Values!Stamp(u), Values!Stamp(last)}
             /\ Values!PastAndOwn(m) /\ Values!OpenDated(m)
             /\ Values!Dated(u) /\ Values!Dated(last)
                /\ Values!Stamp(last) <= Values!Stamp(u) => Values!Dated(m)
<1> DEFINE m == Values!MergeInto(u, last)
<1>1. /\ m \in Values!Records /\ m.captured = u.captured /\ m.whose = u.whose
      /\ m = u \/ m.stamp = Values!Stamp(last)
      /\ \A w \in Values!Windows : m.windows[w].left # Values!Unknown =>
            Takes(m.windows[w], u.windows[w]) \/ Takes(m.windows[w], last.windows[w])
  BY MergeIntoOf
<1> HIDE DEF m
<1>2. /\ Values!Stamp(u) \in Int /\ Values!Stamp(last) \in 0 .. MaxTime
      /\ Values!Stamp(u) <= u.captured /\ u.captured <= v1
         /\ Values!Stamp(last) <= last.captured
      /\ u.captured \in Int /\ last.captured \in Int
  BY StampOf, RecordFields DEF Values!PastAndOwn
<1>3. m = u \/ Values!Stamp(m) = Values!Stamp(last)
  BY <1>1, <1>2 DEF Values!Stamp, Values!Unknown
<1>4. Values!Stamp(m) <= m.captured
  BY <1>1, <1>2, <1>3
<1>5. ASSUME NEW w \in Values!Windows, m.windows[w].left # Values!Unknown
      PROVE  m.windows[w].whose = m.whose
  BY <1>1, <1>5, RecordFields DEF Takes, Values!PastAndOwn
<1>6. Values!PastAndOwn(m)
  BY <1>1, <1>2, <1>4, <1>5 DEF Values!PastAndOwn
<1>7. ASSUME NEW w \in Values!Windows
      PROVE  u.windows[w].taken \in Int /\ last.windows[w].taken \in Int
  BY RecordFields DEF WindowSet, Values!ValuesConstants, Values!Unknown
<1>8. ASSUME NEW w \in Values!Windows, u.windows[w].left # Values!Unknown,
             u.windows[w].due = Values!Unknown
      PROVE  u.windows[w].taken >= Values!Stamp(u)
             /\ u.windows[w].taken >= Values!Stamp(last)
  <2>1. u.windows[w].taken = u.captured
    BY <1>8, RecordFields DEF Values!AsFetched
  <2> QED
    BY <1>2, <2>1
<1>9. ASSUME NEW w \in Values!Windows, last.windows[w].left # Values!Unknown,
             last.windows[w].due = Values!Unknown
      PROVE  last.windows[w].taken >= Values!Stamp(last)
  BY <1>9, RecordFields DEF Values!OpenDated
<1>10. Values!OpenDated(m)
  <2>1. ASSUME NEW w \in Values!Windows, m.windows[w].left # Values!Unknown,
               m.windows[w].due = Values!Unknown
        PROVE  m.windows[w].taken >= Values!Stamp(m)
    <3>1. CASE m = u
      BY <1>8, <2>1, <3>1
    <3>2. CASE Values!Stamp(m) = Values!Stamp(last)
               /\ Takes(m.windows[w], u.windows[w])
      BY <1>8, <2>1, <3>2 DEF Takes
    <3>3. CASE Values!Stamp(m) = Values!Stamp(last)
               /\ Takes(m.windows[w], last.windows[w])
      BY <1>9, <2>1, <3>3 DEF Takes
    <3> QED
      BY <1>1, <1>3, <2>1, <3>1, <3>2, <3>3
  <2> QED
    BY <2>1 DEF Values!OpenDated
<1>11. ASSUME Values!Dated(u), Values!Dated(last),
              Values!Stamp(last) <= Values!Stamp(u)
       PROVE  Values!Dated(m)
  <2>1. ASSUME NEW w \in Values!Windows, m.windows[w].left # Values!Unknown
        PROVE  m.windows[w].taken >= Values!Stamp(m)
    <3>1. CASE m = u
      BY <1>11, <2>1, <3>1 DEF Values!Dated
    <3>2. CASE Values!Stamp(m) = Values!Stamp(last)
               /\ Takes(m.windows[w], u.windows[w])
      <4>1. u.windows[w].taken >= Values!Stamp(u)
        BY <1>11, <3>2 DEF Values!Dated, Takes
      <4> QED
        BY <1>2, <1>7, <1>11, <3>2, <4>1 DEF Takes
    <3>3. CASE Values!Stamp(m) = Values!Stamp(last)
               /\ Takes(m.windows[w], last.windows[w])
      BY <1>11, <3>3 DEF Values!Dated, Takes
    <3> QED
      BY <1>1, <1>3, <2>1, <3>1, <3>2, <3>3
  <2> QED
    BY <2>1 DEF Values!Dated
<1>12. Values!Stamp(m) \in {Values!Stamp(u), Values!Stamp(last)}
  BY <1>3
<1> QED
  BY <1>1, <1>6, <1>10, <1>11, <1>12 DEF m

-----------------------------------------------------------------------------
\* The invariant, in parts.

DraftInv(f) ==
  /\ v4[f] # "idle" => v5[f] # Values!Nothing
  /\ Values!PastAndOwn(v5[f]) /\ Values!AsFetched(v5[f])
  /\ ~v8 /\ v5[f] # Values!Nothing => Values!Dated(v5[f])
  /\ ~v8 => Values!RetainedOfSnapshot(f)

StoresInv ==
  /\ v6 = Values!Nothing \/ v6 \in Values!Records
  /\ Values!PastAndOwn(v6) /\ Values!AsFetched(v6)
  /\ ~v8 /\ v6 # Values!Nothing => Values!Dated(v6)
  /\ v7 = Values!Nothing \/ v7 \in Values!Records
  /\ Values!PastAndOwn(v7) /\ Values!OpenDated(v7)
  /\ ~v8 /\ v7 # Values!Nothing => Values!Dated(v7)
  /\ Values!SnapshotBehind

RestInv ==
  /\ v1 \in 0 .. MaxTime /\ v2 \in {"direct", "browser"}
  /\ v3 \in {0, 1}
  /\ v4 \in [Readers -> {"idle", "settled", "overtaken"}]
  /\ v5 \in [Readers -> Values!Records \cup {Values!Nothing}]
  /\ v8 \in BOOLEAN
  /\ v9 \in 0 .. MaxUnrest

LEMMA ValuesParts == Values!ValuesInv <=> (RestInv /\ StoresInv
/\ \A f \in Readers : DraftInv(f))
  BY DEF Values!ValuesInv, Values!TypeOK, RestInv, StoresInv, DraftInv

LEMMA ValuesInvInit == Values!ValuesConstants /\ Values!Init => Values!ValuesInv
<1> SUFFICES ASSUME Values!ValuesConstants, Values!Init
             PROVE  Values!ValuesInv
  OBVIOUS
<1>1. RestInv
  <2>1. v1 \in 0 .. MaxTime /\ v3 \in {0, 1} /\ v9 \in 0 .. MaxUnrest
    BY DEF Values!Init, Values!ValuesConstants
  <2>2. /\ v2 \in {"direct", "browser"} /\ v8 \in BOOLEAN
        /\ v4 \in [Readers -> {"idle", "settled", "overtaken"}]
        /\ v5 \in [Readers -> Values!Records \cup {Values!Nothing}]
    BY DEF Values!Init
  <2> QED
    BY <2>1, <2>2 DEF RestInv
<1>2. StoresInv
  <2>1. /\ v7 = v6 /\ v1 = 0 /\ v8 = FALSE
        /\ v6 = Values!Nothing \/ v6 \in Values!Inherited
    BY DEF Values!Init
  <2>2. CASE v6 = Values!Nothing
    BY <2>1, <2>2 DEF StoresInv, Values!PastAndOwn, Values!AsFetched,
       Values!OpenDated, Values!SnapshotBehind
  <2>3. CASE v6 \in Values!Inherited
    <3>1. /\ v6 \in Values!Records /\ v6.captured = 0 /\ v6.stamp = Values!Unknown
          /\ v6.whose = 0 /\ ~v6.guarded /\ Values!Stamp(v6) = 0
          /\ \A w \in Values!Windows : v6.windows[w].left # Values!Unknown =>
                v6.windows[w].taken = 0 /\ v6.windows[w].whose = 0
      BY <2>3, InheritedOf, StampOf
    <3> QED
      BY <2>1, <3>1 DEF StoresInv, Values!PastAndOwn, Values!AsFetched,
         Values!OpenDated, Values!Dated, Values!SnapshotBehind
  <2> QED
    BY <2>1, <2>2, <2>3
<1>3. ASSUME NEW f \in Readers
      PROVE  DraftInv(f)
  BY DEF Values!Init, DraftInv, Values!PastAndOwn, Values!AsFetched,
     Values!RetainedOfSnapshot
<1> QED
  BY <1>1, <1>2, <1>3, ValuesParts

\* The stores stay as good as they are while only time passes.
LEMMA StoresKeep ==
  ASSUME Values!ValuesConstants, Values!ValuesInv, v1' \in Int, v1' >= v1,
         UNCHANGED <<v6, v7, v8>>
  PROVE  StoresInv'
<1>1. StoresInv /\ v1 \in Int
  BY ValuesParts DEF RestInv
<1>2. Values!PastAndOwn(v6)' /\ Values!PastAndOwn(v7)'
  <2>1. ASSUME NEW u, u = Values!Nothing \/ u \in Values!Records, Values!PastAndOwn(u)
        PROVE  u # Values!Nothing => u.captured <= v1'
    BY <1>1, <2>1, RecordFields DEF Values!PastAndOwn
  <2> QED
    BY <1>1, <2>1 DEF Values!PastAndOwn, StoresInv
<1>3. Values!AsFetched(v6)' /\ Values!OpenDated(v7)' /\ Values!SnapshotBehind'
  BY <1>1 DEF StoresInv, Values!AsFetched, Values!OpenDated, Values!SnapshotBehind
<1>4. /\ (~v8 /\ v6 # Values!Nothing => Values!Dated(v6))'
      /\ (~v8 /\ v7 # Values!Nothing => Values!Dated(v7))'
  BY <1>1 DEF StoresInv, Values!Dated
<1>5. (v6 = Values!Nothing \/ v6 \in Values!Records)' /\ (v7 = Values!Nothing
      \/ v7 \in Values!Records)'
  BY <1>1 DEF StoresInv
<1> QED
  BY <1>2, <1>3, <1>4, <1>5 DEF StoresInv

\* So does a draft; what it has retained counts until another fetch saves.
LEMMA DraftKeeps ==
  ASSUME Values!ValuesConstants, Values!ValuesInv, NEW f \in Readers, v1' \in Int,
         v1' >= v1,
         v5'[f] = v5[f], v8 => v8',
         \/ v4'[f] = v4[f] /\ v7' = v7
         \/ v4'[f] = "idle"
         \/ v4'[f] = "overtaken" /\ v4[f] # "idle"
  PROVE  DraftInv(f)'
<1>1. DraftInv(f) /\ RestInv
  BY ValuesParts
<1>2. v5[f] = Values!Nothing \/ v5[f] \in Values!Records
  BY <1>1 DEF RestInv
<1>3. Values!PastAndOwn(v5[f])'
  <2>1. v5[f] # Values!Nothing => v5[f].captured <= v1'
    BY <1>1, <1>2, RecordFields DEF Values!PastAndOwn, DraftInv, RestInv
  <2> QED
    BY <1>1, <2>1 DEF Values!PastAndOwn, DraftInv
<1>4. Values!AsFetched(v5[f])' /\ (~v8
      /\ v5[f] # Values!Nothing => Values!Dated(v5[f]))'
  BY <1>1 DEF Values!AsFetched, Values!Dated, DraftInv
<1>5. (v4[f] # "idle" => v5[f] # Values!Nothing)'
  BY <1>1 DEF DraftInv
<1>6. (~v8 => Values!RetainedOfSnapshot(f))'
  BY <1>1 DEF DraftInv, Values!RetainedOfSnapshot
<1> QED
  BY <1>3, <1>4, <1>5, <1>6 DEF DraftInv

-----------------------------------------------------------------------------
\* The steps.

LEMMA TimePassesKeeps ==
  ASSUME Values!ValuesConstants, Values!ValuesInv, Values!TimePasses
  PROVE  Values!ValuesInv'
<1>1. RestInv' /\ v1' \in Int /\ v1' >= v1
  BY ValuesParts DEF RestInv, Values!TimePasses, Values!ValuesConstants
<1>2. StoresInv'
  BY <1>1, StoresKeep DEF Values!TimePasses
<1>3. ASSUME NEW f \in Readers
      PROVE  DraftInv(f)'
  BY <1>1, DraftKeeps DEF Values!TimePasses
<1> QED
  BY <1>1, <1>2, <1>3 DEF Values!ValuesInv, Values!TypeOK, RestInv, StoresInv,
     DraftInv

LEMMA SwitchLoginKeeps ==
  ASSUME Values!ValuesConstants, Values!ValuesInv, Values!SwitchLogin
  PROVE  Values!ValuesInv'
<1>1. RestInv' /\ v1' \in Int /\ v1' >= v1
  BY ValuesParts DEF RestInv, Values!SwitchLogin, Values!ValuesConstants
<1>2. StoresInv'
  BY <1>1, StoresKeep DEF Values!SwitchLogin
<1>3. ASSUME NEW f \in Readers
      PROVE  DraftInv(f)'
  BY <1>1, DraftKeeps DEF Values!SwitchLogin
<1> QED
  BY <1>1, <1>2, <1>3 DEF Values!ValuesInv, Values!TypeOK, RestInv, StoresInv,
     DraftInv

LEMMA FetchKeeps ==
  ASSUME Values!ValuesConstants, Values!ValuesInv, NEW f \in Readers, Values!Fetch(f)
  PROVE  Values!ValuesInv'
<1>1. RestInv /\ StoresInv
  BY ValuesParts
<1>2. PICK at \in {v1, v1 - 1} \cap 0 .. MaxTime :
        \E whose \in {v3} \cup (IF at < v1 THEN 0 .. v3 ELSE {}) :
        \E offered \in Values!Answers :
           v5' = [v5 EXCEPT
              ![f] = Values!Settled(Values!Expire(Values!Usage([w
              \in Values!Windows |-> Values!Reading(offered[w], at, whose)],
                                          at, whose), at))]
  BY DEF Values!Fetch
<1>3. at \in 0 .. MaxTime /\ at <= v1
  BY <1>1 DEF RestInv
<1>a. PICK whose \in {v3} \cup (IF at < v1 THEN 0 .. v3 ELSE {}) :
        \E offered \in Values!Answers :
           v5' = [v5 EXCEPT
              ![f] = Values!Settled(Values!Expire(Values!Usage([w
              \in Values!Windows |-> Values!Reading(offered[w], at, whose)],
                                          at, whose), at))]
  BY <1>2
<1>b. PICK offered \in Values!Answers :
           v5' = [v5 EXCEPT
              ![f] = Values!Settled(Values!Expire(Values!Usage([w
              \in Values!Windows |-> Values!Reading(offered[w], at, whose)],
                                          at, whose), at))]
  BY <1>a
<1>c. whose \in {0, 1}
  BY <1>1 DEF RestInv
<1> DEFINE u == AnswerUsage(offered, at, whose)
           e == Values!Expire(u, at)
           d == Values!Settled(e)
<1>4. /\ u \in Values!Records /\ u.captured = at /\ u.stamp = Values!Unknown
         /\ u.whose = whose
      /\ ~u.guarded
      /\ \A w \in Values!Windows : u.windows[w].left # Values!Unknown =>
            u.windows[w].taken = at /\ u.windows[w].whose = whose
  BY <1>3, <1>c, AnswerOf
<1> HIDE DEF u
<1>5. /\ e \in Values!Records
      /\ e.captured = u.captured /\ e.stamp = u.stamp /\ e.whose = u.whose
      /\ e.guarded = u.guarded
      /\ \A w \in Values!Windows : e.windows[w] = Values!Missing
         \/ e.windows[w] = u.windows[w]
  BY <1>3, <1>4, ExpireOf
<1> HIDE DEF e
<1>6. \A w \in Values!Windows : e.windows[w].left # Values!Unknown =>
         e.windows[w].taken = e.captured /\ e.windows[w].whose = e.whose
  BY <1>4, <1>5, MissingIsWindow
<1>7. Values!Stamp(e) = e.captured
  BY <1>4, <1>5 DEF Values!Stamp
<1>8. Values!PastAndOwn(e)
  BY <1>3, <1>4, <1>5, <1>6, <1>7 DEF Values!PastAndOwn
<1>9. /\ d \in Values!Records /\ Values!PastAndOwn(d) /\ Values!AsFetched(d)
      /\ ~v8 => Values!Dated(d)
      /\ d.guarded => /\ v7 # Values!Nothing /\ v7.captured <= d.captured
                      /\ d.whose = v7.whose /\ d.stamp = Values!Stamp(v7)
  BY <1>4, <1>5, <1>6, <1>8, SettledOf
<1> HIDE DEF d
<1>10. v5' = [v5 EXCEPT ![f] = d]
  BY <1>b DEF d, e, u, AnswerUsage
<1>11. /\ UNCHANGED <<v1, v2, v3, v6, v7, v8>>
       /\ v4' = [v4 EXCEPT ![f] = "settled"]
       /\ v9' \in {v9} \/ (v9 < MaxUnrest /\ v9' = v9 + 1)
  BY DEF Values!Fetch
<1>12. RestInv'
  BY <1>1, <1>9, <1>10, <1>11 DEF RestInv, Values!ValuesConstants
<1>13. StoresInv'
  <2>1. v1' \in Int /\ v1' >= v1
    BY <1>1, <1>11 DEF RestInv
  <2> QED
    BY <1>11, <2>1, StoresKeep
<1>14. ASSUME NEW g \in Readers
       PROVE  DraftInv(g)'
  <2>1. CASE g = f
    <3>1. v5'[g] = d /\ v4'[g] = "settled" /\ d # Values!Nothing
      BY <1>1, <1>9, <1>10, <1>11, <2>1, RecordFields DEF RestInv
    <3>2. Values!PastAndOwn(v5[g])'
      BY <1>9, <1>11, <3>1 DEF Values!PastAndOwn
    <3>3. Values!AsFetched(v5[g])' /\ (~v8
          /\ v5[g] # Values!Nothing => Values!Dated(v5[g]))'
      BY <1>9, <1>11, <3>1 DEF Values!AsFetched, Values!Dated
    <3>4. Values!RetainedOfSnapshot(g)'
      BY <1>9, <1>11, <3>1 DEF Values!RetainedOfSnapshot
    <3> QED
      BY <3>1, <3>2, <3>3, <3>4 DEF DraftInv
  <2>2. CASE g # f
    <3>1. v5'[g] = v5[g] /\ v4'[g] = v4[g]
      BY <1>1, <1>10, <1>11, <2>2 DEF RestInv
    <3>2. v1' \in Int /\ v1' >= v1
      BY <1>1, <1>11 DEF RestInv
    <3> QED
      BY <1>11, <3>1, <3>2, DraftKeeps
  <2> QED
    BY <2>1, <2>2
<1> QED
  BY <1>12, <1>13, <1>14 DEF Values!ValuesInv, Values!TypeOK, RestInv, StoresInv,
     DraftInv

\* Of what a fetch has in hand, no value is older than the values of the snapshot
\* it will be merged with, unless it has been overtaken.
LEMMA DraftAhead ==
  ASSUME Values!ValuesConstants, Values!ValuesInv, NEW f \in Readers, v4[f] # "idle",
         ~v8, ~(v4[f] = "overtaken" /\ v5[f].guarded),
         v7 \in Values!Records, v7.captured <= v5[f].captured
  PROVE  Values!Stamp(v7) <= Values!Stamp(v5[f])
<1>1. DraftInv(f) /\ StoresInv /\ RestInv
  BY ValuesParts
<1>2. v5[f] \in Values!Records
  BY <1>1 DEF DraftInv, RestInv
<1>3. Values!Stamp(v7) \in Int /\ Values!Stamp(v7) <= v7.captured
  BY <1>1, StampOf, RecordFields DEF StoresInv, Values!PastAndOwn
<1>4. v7.captured \in Int /\ v5[f].captured \in Int
  BY <1>2, RecordFields
<1>5. CASE ~v5[f].guarded
  <2>1. Values!Stamp(v5[f]) = v5[f].captured
    BY <1>1, <1>2, <1>5, RecordFields DEF DraftInv, Values!AsFetched, Values!Stamp
  <2> QED
    BY <1>3, <1>4, <2>1
<1>6. CASE v5[f].guarded
  <2>1. v4[f] = "settled"
    BY <1>1, <1>6 DEF RestInv
  <2>2. v5[f].stamp = Values!Stamp(v7)
    BY <1>1, <1>6, <2>1 DEF DraftInv, Values!RetainedOfSnapshot
  <2>3. Values!Stamp(v7) # Values!Unknown
    BY StampOf DEF Values!Unknown
  <2> QED
    BY <1>3, <2>2, <2>3 DEF Values!Stamp
<1> QED
  BY <1>5, <1>6

\* What becomes the snapshot when a fetch saves it.
LEMMA SavedSnapshot ==
  ASSUME Values!ValuesConstants, Values!ValuesInv, NEW f \in Readers, v4[f] # "idle",
         ~(v7.captured > v5[f].captured)
  PROVE  LET m == Values!Merge(v5[f], v7)
         IN  /\ m \in Values!Records /\ Values!PastAndOwn(m) /\ Values!OpenDated(m)
             /\ m.captured = v5[f].captured /\ m.whose = v5[f].whose
             /\ ~v8 /\ ~(v4[f] = "overtaken" /\ v5[f].guarded)
                   => Values!Dated(m) /\ Values!Stamp(m) <= Values!Stamp(v5[f])
<1> DEFINE d == v5[f]
           m == Values!Merge(d, v7)
<1>1. DraftInv(f) /\ StoresInv /\ RestInv
  BY ValuesParts
<1>2. d \in Values!Records /\ Values!PastAndOwn(d) /\ Values!AsFetched(d)
      /\ (~v8 => Values!Dated(d))
  BY <1>1, RecordFields DEF DraftInv, RestInv
<1>3. Values!Stamp(d) \in Int /\ d.captured \in Int /\ Values!Stamp(d) <= d.captured
  BY <1>2, StampOf, RecordFields DEF Values!PastAndOwn
<1>4. Values!OpenDated(d)
  <2>1. ASSUME NEW w \in Values!Windows, d.windows[w].left # Values!Unknown,
               d.windows[w].due = Values!Unknown
        PROVE  d.windows[w].taken >= Values!Stamp(d)
    <3>1. d.windows[w].taken = d.captured
      BY <1>2, <2>1, RecordFields DEF Values!AsFetched
    <3> QED
      BY <1>3, <3>1
  <2> QED
    BY <2>1 DEF Values!OpenDated
<1>5. CASE m = d
  BY <1>2, <1>3, <1>4, <1>5
<1>6. CASE m # d
  <2>1. v7 \in Values!Records /\ d.whose = v7.whose
    BY <1>1, <1>6 DEF Values!Merge, StoresInv
  <2>2. v7.captured <= d.captured
    BY <1>3, <2>1, RecordFields
  <2>3. m = Values!MergeInto(d, v7)
    BY <1>6 DEF Values!Merge
  <2>4. Values!PastAndOwn(v7) /\ Values!OpenDated(v7) /\ (~v8 => Values!Dated(v7))
    BY <1>1, <2>1, RecordFields DEF StoresInv
  <2> HIDE DEF d, m
  <2>5. /\ m \in Values!Records /\ m.captured = d.captured /\ m.whose = d.whose
        /\ Values!Stamp(m) \in {Values!Stamp(d), Values!Stamp(v7)}
        /\ Values!PastAndOwn(m) /\ Values!OpenDated(m)
        /\ Values!Dated(d) /\ Values!Dated(v7)
           /\ Values!Stamp(v7) <= Values!Stamp(d) => Values!Dated(m)
    BY <1>2, <2>1, <2>2, <2>3, <2>4, MergedIsDated
  <2>6. ASSUME ~v8, ~(v4[f] = "overtaken" /\ d.guarded)
        PROVE  Values!Dated(m) /\ Values!Stamp(m) <= Values!Stamp(d)
    <3>1. Values!Stamp(v7) <= Values!Stamp(d)
      BY <2>1, <2>2, <2>6, DraftAhead DEF d
    <3> QED
      BY <1>2, <1>3, <2>4, <2>5, <2>6, <3>1
  <2> QED
    BY <2>5, <2>6 DEF m, d
<1> QED
  BY <1>5, <1>6

LEMMA SaveKeeps ==
  ASSUME Values!ValuesConstants, Values!ValuesInv, NEW f \in Readers, Values!Save(f)
  PROVE  Values!ValuesInv'
<1> DEFINE d == v5[f]
           m == Values!Merge(d, v7)
           met == v4[f] = "overtaken" /\ d.guarded
<1>1. DraftInv(f) /\ StoresInv /\ RestInv
  BY ValuesParts
<1>2. /\ UNCHANGED <<v1, v2, v3>>
      /\ v4[f] # "idle"
      /\ v4' = [g \in Readers |-> IF g = f THEN "idle"
                                        ELSE IF v4[g] = "idle" THEN "idle"
                                        ELSE "overtaken"]
      /\ v5' = [v5 EXCEPT ![f] = Values!Nothing]
      /\ v9' = v9 \/ (v9 < MaxUnrest /\ v9' = v9 + 1)
      /\ v8' = (v8 \/ Values!Crosses(f))
  BY DEF Values!Save
<1>3. d \in Values!Records /\ Values!PastAndOwn(d) /\ Values!AsFetched(d)
      /\ (~v8 => Values!Dated(d))
  BY <1>1, <1>2, RecordFields DEF DraftInv, RestInv
<1>4. \/ v6' = v6 /\ v6.captured > d.captured
      \/ v6' = d /\ ~(v6.captured > d.captured)
  BY DEF Values!Save, Values!SaveCurrent
<1>5. \/ v7' = v7
      \/ v7' = m /\ ~(v7.captured > d.captured)
  BY DEF Values!Save, Values!SaveSnapshot
<1>6. ASSUME ~v8'
      PROVE  /\ ~v8 /\ ~met
             /\ v7' # v7 => ~(d.captured < v6.captured /\ v6.guarded)
  BY <1>2, <1>6 DEF Values!Crosses
<1>7. /\ d.captured \in Int /\ Values!Stamp(d) \in Int /\ Values!Stamp(d) <= d.captured
      /\ d.captured <= v1 /\ v1 \in Int
  BY <1>1, <1>3, StampOf, RecordFields DEF Values!PastAndOwn, RestInv
<1>8. Values!ValuesInv'
  <2>1. RestInv'
    <3>1. v1' \in 0 .. MaxTime /\ v2' \in {"direct", "browser"} /\ v3' \in {0, 1}
      BY <1>1, <1>2 DEF RestInv
    <3>2. v4' \in [Readers -> {"idle", "settled", "overtaken"}]
      BY <1>2
    <3>3. v5' \in [Readers -> Values!Records \cup {Values!Nothing}]
      BY <1>1, <1>2 DEF RestInv
    <3>4. v8' \in BOOLEAN
      BY <1>2
    <3>5. v9' \in 0 .. MaxUnrest
      BY <1>1, <1>2 DEF RestInv, Values!ValuesConstants
    <3> QED
      BY <3>1, <3>2, <3>3, <3>4, <3>5 DEF RestInv
  <2>2. ASSUME NEW g \in Readers
        PROVE  DraftInv(g)'
    <3>1. CASE g = f
      <4>1. v5'[g] = Values!Nothing /\ v4'[g] = "idle"
        BY <1>1, <1>2, <3>1 DEF RestInv
      <4> QED
        BY <4>1 DEF DraftInv, Values!PastAndOwn, Values!AsFetched,
           Values!RetainedOfSnapshot
    <3>2. CASE g # f
      <4>1. v5'[g] = v5[g]
        BY <1>1, <1>2, <3>2 DEF RestInv
      <4>2. \/ v4'[g] = "idle"
            \/ v4'[g] = "overtaken" /\ v4[g] # "idle"
        BY <1>2, <3>2
      <4>3. v1' \in Int /\ v1' >= v1
        BY <1>2, <1>7
      <4>4. v8 => v8'
        BY <1>2
      <4> QED
        BY <4>1, <4>2, <4>3, <4>4, DraftKeeps
    <3> QED
      BY <3>1, <3>2
  <2>3. /\ v6' \in Values!Records
        /\ Values!PastAndOwn(v6)' /\ Values!AsFetched(v6)'
        /\ (~v8 => Values!Dated(v6))'
    <3>1. ASSUME NEW c, v6' = c, c \in Values!Records, Values!PastAndOwn(c),
                 Values!AsFetched(c),
                 ~v8 => Values!Dated(c)
          PROVE  /\ Values!PastAndOwn(v6)' /\ Values!AsFetched(v6)'
                 /\ (~v8 => Values!Dated(v6))'
      <4>1. Values!PastAndOwn(v6)' /\ Values!AsFetched(v6)'
        BY <1>2, <3>1 DEF Values!PastAndOwn, Values!AsFetched
      <4>2. (~v8 => Values!Dated(v6))'
        BY <1>2, <3>1 DEF Values!Dated
      <4> QED
        BY <4>1, <4>2
    <3>2. CASE v6' = v6 /\ v6.captured > d.captured
      <4>1. v6 \in Values!Records
        <5>1. ~(Values!Nothing.captured > d.captured)
          BY <1>3, RecordFields DEF Values!Nothing, Values!Unknown
        <5> QED
          BY <1>1, <3>2, <5>1 DEF StoresInv
      <4> HIDE DEF d
      <4>2. v6 # Values!Nothing
        BY <4>1, RecordFields
      <4>3. Values!PastAndOwn(v6) /\ Values!AsFetched(v6) /\ (~v8 => Values!Dated(v6))
        BY <1>1, <4>2 DEF StoresInv
      <4> QED
        BY <3>1, <3>2, <4>1, <4>3
    <3>3. CASE v6' = d
      BY <1>3, <3>1, <3>3
    <3> QED
      BY <1>4, <3>2, <3>3
  <2>4. ASSUME v7' # v7
        PROVE  /\ v7' = m /\ m \in Values!Records /\ Values!PastAndOwn(m)
                  /\ Values!OpenDated(m)
               /\ m.captured = d.captured /\ m.whose = d.whose
               /\ ~v8 /\ ~met => Values!Dated(m) /\ Values!Stamp(m) <= Values!Stamp(d)
    BY <1>2, <1>5, <2>4, SavedSnapshot
  <2> HIDE DEF m, d
  <2>5. /\ v7' = Values!Nothing \/ v7' \in Values!Records
        /\ Values!PastAndOwn(v7)' /\ Values!OpenDated(v7)'
        /\ (~v8 /\ v7 # Values!Nothing => Values!Dated(v7))'
    <3>1. CASE v7' = v7
      <4>1. v7' = Values!Nothing \/ v7' \in Values!Records
        BY <1>1, <3>1 DEF StoresInv
      <4>2. Values!PastAndOwn(v7)' /\ Values!OpenDated(v7)'
        BY <1>1, <1>2, <3>1 DEF StoresInv, Values!PastAndOwn, Values!OpenDated
      <4>3. (~v8 /\ v7 # Values!Nothing => Values!Dated(v7))'
        BY <1>1, <1>2, <3>1 DEF StoresInv, Values!Dated
      <4> QED
        BY <4>1, <4>2, <4>3
    <3>2. CASE v7' # v7
      <4>1. Values!PastAndOwn(v7)' /\ Values!OpenDated(v7)'
        BY <1>2, <2>4, <3>2 DEF Values!PastAndOwn, Values!OpenDated
      <4>2. ASSUME ~v8'
            PROVE  Values!Dated(v7)'
        <5>1. Values!Dated(m)
          BY <1>6, <2>4, <3>2, <4>2
        <5> QED
          BY <2>4, <3>2, <5>1 DEF Values!Dated
      <4> QED
        BY <2>4, <3>2, <4>1, <4>2
    <3> QED
      BY <3>1, <3>2
  <2>6. Values!SnapshotBehind'
    <3> SUFFICES ASSUME v7' # Values!Nothing
                 PROVE  /\ v6' # Values!Nothing /\ v7'.captured <= v6'.captured
                        /\ ~v8' /\ v6'.whose = v7'.whose
                              => Values!Stamp(v7') <= Values!Stamp(v6')
      BY DEF Values!SnapshotBehind, Values!Stamp
    <3>1. v6' # Values!Nothing
      BY <2>3, RecordFields
    <3>2. CASE v7' = v7
      <4>1. /\ v7 \in Values!Records /\ v6 \in Values!Records
            /\ v7.captured <= v6.captured
            /\ ~v8 /\ v6.whose = v7.whose => Values!Stamp(v7) <= Values!Stamp(v6)
        BY <1>1, <3>2 DEF StoresInv, Values!SnapshotBehind
      <4>2. CASE v6' = v6
        BY <1>6, <3>1, <3>2, <4>1, <4>2
      <4>3. CASE v6' = d /\ ~(v6.captured > d.captured)
        <5>1. v7.captured <= d.captured
          BY <1>7, <4>1, <4>3, RecordFields
        <5>2. ASSUME ~v8'
              PROVE  Values!Stamp(v7) <= Values!Stamp(d)
          BY <1>2, <1>6, <4>1, <5>1, <5>2, DraftAhead DEF d
        <5> QED
          BY <3>1, <3>2, <4>3, <5>1, <5>2
      <4> QED
        BY <1>4, <4>2, <4>3
    <3>3. CASE v7' # v7
      <4>1. /\ v7' = m /\ m \in Values!Records /\ m.captured = d.captured
            /\ Values!Stamp(m) \in Int /\ Values!Stamp(m) <= d.captured
        <5>1. /\ v7' = m /\ m \in Values!Records /\ m.captured = d.captured
                 /\ Values!PastAndOwn(m)
          BY <2>4, <3>3
        <5> QED
          BY <5>1, StampOf, RecordFields DEF Values!PastAndOwn
      <4>2. CASE v6' = v6 /\ v6.captured > d.captured
        <5>1. v6 \in Values!Records
          BY <2>3, <4>2
        <5>2. d.captured <= v6.captured /\ v6.captured \in Int
          BY <1>7, <4>2, <5>1, RecordFields
        <5>3. ASSUME ~v8'
              PROVE  Values!Stamp(m) <= Values!Stamp(v6)
          <6>1. ~v6.guarded
            BY <1>6, <1>7, <3>3, <4>2, <5>2, <5>3
          <6>2. v6.stamp = Values!Unknown
            BY <1>1, <5>1, <6>1, RecordFields DEF StoresInv, Values!AsFetched
          <6>3. Values!Stamp(v6) = v6.captured
            BY <6>2 DEF Values!Stamp
          <6> QED
            BY <1>7, <4>1, <5>2, <6>3
        <5> QED
          BY <3>1, <4>1, <4>2, <5>2, <5>3
      <4>3. CASE v6' = d
        <5>1. ASSUME ~v8'
              PROVE  Values!Stamp(m) <= Values!Stamp(d)
          BY <1>6, <2>4, <3>3, <5>1
        <5> QED
          BY <1>7, <3>1, <4>1, <4>3, <5>1
      <4> QED
        BY <1>4, <4>2, <4>3
    <3> QED
      BY <3>2, <3>3
  <2>7. StoresInv'
    BY <2>3, <2>5, <2>6 DEF StoresInv
  <2> QED
    BY <2>1, <2>2, <2>7 DEF Values!ValuesInv, Values!TypeOK, RestInv, StoresInv,
       DraftInv
<1> QED
  BY <1>8

LEMMA ValuesInvPreserved ==
  ASSUME Values!ValuesConstants, Values!ValuesInv, [Values!Next]_(Values!vars)
  PROVE  Values!ValuesInv'
<1>1. CASE Values!TimePasses
  BY <1>1, TimePassesKeeps
<1>2. CASE Values!SwitchLogin
  BY <1>2, SwitchLoginKeeps
<1>3. ASSUME NEW f \in Readers, Values!Fetch(f)
      PROVE  Values!ValuesInv'
  BY <1>3, FetchKeeps
<1>4. ASSUME NEW f \in Readers, Values!Save(f)
      PROVE  Values!ValuesInv'
  BY <1>4, SaveKeeps
<1>5. CASE UNCHANGED Values!vars
  <2>1. RestInv' /\ v1' \in Int /\ v1' >= v1
    BY <1>5, ValuesParts DEF RestInv, Values!vars
  <2>2. StoresInv'
    BY <1>5, <2>1, StoresKeep DEF Values!vars
  <2>3. ASSUME NEW f \in Readers
        PROVE  DraftInv(f)'
    BY <1>5, <2>1, DraftKeeps DEF Values!vars
  <2> QED
    BY <2>1, <2>2, <2>3 DEF Values!ValuesInv, Values!TypeOK, RestInv, StoresInv,
       DraftInv
<1> QED
  BY <1>1, <1>2, <1>3, <1>4, <1>5 DEF Values!Next

-----------------------------------------------------------------------------
\* What a reader is shown.

LEMMA InvalidatedOf ==
  ASSUME Values!ValuesConstants, NEW u \in Values!Records
  PROVE  LET i == Values!Invalidated(u)
         IN  /\ i \in Values!Records /\ i # Values!Nothing
         /\ i.whose = Values!Unknown /\ i.invalidated
             /\ \A w \in Values!Windows : i.windows[w] = Values!Missing
<1> DEFINE i == [u EXCEPT !.windows = [w
    \in Values!Windows |-> Values!Missing], !.status = "partial",
                          !.stamp = Values!Unknown, !.stale = TRUE,
                          !.invalidated = TRUE,
                          !.guarded = FALSE, !.whose = Values!Unknown]
           none == [w \in Values!Windows |-> Values!Missing]
<1>1. none \in [Values!Windows -> WindowSet]
  BY MissingIsWindow
<1>2. Values!Invalidated(u) = i
  BY DEF Values!Invalidated
<1>3. i \in Values!Records /\ i.whose = Values!Unknown /\ i.invalidated
      /\ i.windows = none
  BY <1>1 DEF Values!Records, WindowSet
<1>4. i # Values!Nothing
  <2> HIDE DEF i
  <2> QED
    BY <1>3, RecordFields
<1> QED
  BY <1>2, <1>3, <1>4

\* What is merged for a reader is dated and of the login.
Presentable(m) ==
  /\ m \in Values!Records /\ Values!OpenDated(m)
  /\ ~v8 => Values!Dated(m)
  /\ \A w \in Values!Windows : m.windows[w].left # Values!Unknown
     => m.windows[w].whose = v3

LEMMA MergedForReader ==
  ASSUME Values!ValuesConstants, Values!ValuesInv, v6 # Values!Nothing
  PROVE  /\ Values!ForLogin(v6) # Values!Nothing
         /\ Presentable(Values!Merge(Values!ForLogin(v6), Values!ForLogin(v7)))
<1> DEFINE newest == Values!ForLogin(v6)
           last == Values!ForLogin(v7)
           m == Values!Merge(newest, last)
<1>1. StoresInv /\ RestInv
  BY ValuesParts
<1>2. /\ v6 \in Values!Records /\ Values!PastAndOwn(v6) /\ Values!AsFetched(v6)
      /\ ~v8 => Values!Dated(v6)
  BY <1>1 DEF StoresInv
<1>3. CASE v6.whose = v3
  <2>1. newest = v6
    BY <1>3 DEF Values!ForLogin
  <2>2. Values!OpenDated(v6)
    <3>1. ASSUME NEW w \in Values!Windows, v6.windows[w].left # Values!Unknown,
                 v6.windows[w].due = Values!Unknown
          PROVE  v6.windows[w].taken >= Values!Stamp(v6)
      <4>1. v6.windows[w].taken = v6.captured
        BY <1>2, <3>1, RecordFields DEF Values!AsFetched
      <4>2. Values!Stamp(v6) \in Int /\ v6.captured \in Int
            /\ Values!Stamp(v6) <= v6.captured
        BY <1>2, StampOf, RecordFields DEF Values!PastAndOwn
      <4> QED
        BY <4>1, <4>2
    <3> QED
      BY <3>1 DEF Values!OpenDated
  <2>3. Presentable(v6)
    BY <1>2, <1>3, <2>2, RecordFields DEF Presentable, Values!PastAndOwn
  <2>4. CASE m = newest
    BY <1>2, <2>1, <2>3, <2>4, RecordFields
  <2>5. CASE m # newest
    <3>1. last # Values!Nothing /\ last.whose = v3
      BY <1>3, <2>1, <2>5 DEF Values!Merge
    <3>2. v7 # Values!Nothing
      BY <3>1 DEF Values!ForLogin
    <3>3. v7.whose = v3 /\ last = v7
      <4>1. CASE v7.whose = v3
        BY <4>1 DEF Values!ForLogin
      <4>2. CASE v7.whose # v3
        <5>1. last = Values!Invalidated(v7)
          BY <3>2, <4>2 DEF Values!ForLogin
        <5>2. last.whose = Values!Unknown
          BY <1>1, <3>2, <5>1, InvalidatedOf DEF StoresInv
        <5> QED
          BY <1>1, <3>1, <5>2 DEF RestInv, Values!Unknown
      <4> QED
        BY <4>1, <4>2
    <3>4. /\ v7 \in Values!Records /\ Values!PastAndOwn(v7) /\ Values!OpenDated(v7)
          /\ ~v8 => Values!Dated(v7)
          /\ v7.captured <= v6.captured
          /\ ~v8 => Values!Stamp(v7) <= Values!Stamp(v6)
      BY <1>1, <1>3, <3>2, <3>3 DEF StoresInv, Values!SnapshotBehind
    <3>5. ~(v7.captured > v6.captured)
      BY <1>2, <3>4, RecordFields
    <3>6. m = Values!MergeInto(v6, v7)
      BY <2>1, <2>5, <3>3, <3>5 DEF Values!Merge
    <3> HIDE DEF m
    <3>7. /\ m \in Values!Records /\ m.whose = v6.whose /\ Values!PastAndOwn(m)
             /\ Values!OpenDated(m)
          /\ Values!Dated(v6) /\ Values!Dated(v7)
             /\ Values!Stamp(v7) <= Values!Stamp(v6) => Values!Dated(m)
      BY <1>2, <1>3, <3>3, <3>4, <3>6, MergedIsDated
    <3>8. ~v8 => Values!Dated(m)
      BY <1>2, <3>4, <3>7
    <3>9. \A w \in Values!Windows : m.windows[w].left # Values!Unknown
          => m.windows[w].whose = v3
      BY <1>3, <3>7, RecordFields DEF Values!PastAndOwn
    <3>10. Presentable(m)
      BY <3>7, <3>8, <3>9 DEF Presentable
    <3> QED
      BY <1>2, <2>1, <3>10, RecordFields DEF m
  <2> QED
    BY <2>4, <2>5
<1>4. CASE v6.whose # v3
  <2>1. newest = Values!Invalidated(v6)
    BY <1>4, <1>2, RecordFields DEF Values!ForLogin
  <2>2. /\ newest \in Values!Records /\ newest # Values!Nothing
           /\ newest.whose = Values!Unknown /\ newest.invalidated
        /\ \A w \in Values!Windows : newest.windows[w] = Values!Missing
    BY <1>2, <2>1, InvalidatedOf
  <2>3. Values!AuthoritativeEmpty(newest)
    BY <2>2, MissingIsWindow DEF Values!AuthoritativeEmpty, Values!Present
  <2>4. m = newest
    BY <2>3 DEF Values!Merge
  <2>5. Presentable(newest)
    BY <2>2, MissingIsWindow DEF Presentable, Values!OpenDated, Values!Dated
  <2> QED
    BY <2>2, <2>4, <2>5
<1> QED
  BY <1>3, <1>4

\* Where the property follows from the invariant.
LEMMA ValuesInvShown ==
  ASSUME Values!ValuesConstants, Values!ValuesInv
  PROVE  Values!ShownIsDated
<1> SUFFICES ASSUME Values!Shown # Values!Nothing
             PROVE  LET shown == Values!Shown
                    IN  /\ ~v8 => Values!Dated(shown)
                        /\ \A w \in Values!Windows :
                              LET window == shown.windows[w] IN
                              /\ window.due # Values!Unknown => window.due > v1
                              /\ window.left # Values!Unknown => window.whose = v3
                              /\ window.left # Values!Unknown
                                 /\ window.due = Values!Unknown /\ ~window.inferred
                                     => window.taken + Lengths[w] > v1
  BY DEF Values!ShownIsDated
<1> DEFINE m == Values!Merge(Values!ForLogin(v6), Values!ForLogin(v7))
           e == Values!Expire(m, v1)
<1>1. StoresInv /\ RestInv /\ v1 \in Int
  BY ValuesParts DEF RestInv
<1>2. v6 # Values!Nothing
  <2>1. CASE v6 = Values!Nothing
    <3>1. v7 = Values!Nothing
      BY <1>1, <2>1 DEF StoresInv, Values!SnapshotBehind
    <3>2. Values!Shown = Values!Nothing
      BY <2>1, <3>1 DEF Values!Shown, Values!ForLogin
    <3> QED
      BY <3>2
  <2> QED
    BY <2>1
<1>3. Presentable(m) /\ Values!ForLogin(v6) # Values!Nothing
  BY <1>2, MergedForReader
<1>4. Values!Shown = e
  BY <1>3 DEF Values!Shown
<1> HIDE DEF m
<1>5. /\ m \in Values!Records
      /\ e.stamp = m.stamp /\ e.captured = m.captured
      /\ e \in Values!Records
      /\ \A w \in Values!Windows : e.windows[w] = Values!Missing
         \/ e.windows[w] = m.windows[w]
      /\ \A w \in Values!Windows : ~Values!Expired(w, e.windows[w],
            IF e.windows[w].due # Values!Unknown THEN m.captured ELSE Values!Stamp(m),
            v1)
  BY <1>1, <1>3, ExpireOf DEF Presentable
<1> HIDE DEF e
<1>6. Values!Stamp(e) = Values!Stamp(m) /\ Values!Stamp(m) \in Int
  BY <1>5, StampOf DEF Values!Stamp
<1>7. ~v8 => Values!Dated(e)
  BY <1>3, <1>5, <1>6, MissingIsWindow DEF Values!Dated, Presentable
<1>8. ASSUME NEW w \in Values!Windows
      PROVE  /\ e.windows[w].due # Values!Unknown => e.windows[w].due > v1
             /\ e.windows[w].left # Values!Unknown => e.windows[w].whose = v3
             /\ e.windows[w].left # Values!Unknown /\ e.windows[w].due = Values!Unknown
                /\ ~e.windows[w].inferred
                   => e.windows[w].taken + Lengths[w] > v1
  <2>1. e.windows[w].due \in Int /\ e.windows[w].taken \in Int /\ Lengths[w] \in Int
    BY <1>5, RecordFields DEF WindowSet, Values!ValuesConstants, Values!Unknown
  <2>2. e.windows[w].due # Values!Unknown => ~(e.windows[w].due <= v1)
    BY <1>5 DEF Values!Expired, Values!Present
  <2>3. e.windows[w].left # Values!Unknown =>
          /\ e.windows[w] = m.windows[w] /\ e.windows[w].whose = v3
    BY <1>3, <1>5, MissingIsWindow DEF Presentable
  <2>4. ASSUME e.windows[w].left # Values!Unknown, e.windows[w].due = Values!Unknown,
               ~e.windows[w].inferred
        PROVE  e.windows[w].taken + Lengths[w] > v1
    <3>1. ~(Values!Stamp(m) + Lengths[w] <= v1)
      BY <1>5, <2>4 DEF Values!Expired, Values!Present
    <3>2. e.windows[w].taken >= Values!Stamp(m)
      BY <1>3, <1>5, <2>3, <2>4, RecordFields DEF Presentable, Values!OpenDated
    <3> QED
      BY <1>1, <1>6, <2>1, <3>1, <3>2
  <2> QED
    BY <1>1, <2>1, <2>2, <2>3, <2>4
<1> QED
  BY <1>4, <1>7, <1>8

-----------------------------------------------------------------------------
(***************************************************************************)
(* History and consumption.                                                *)
(***************************************************************************)
\* The part brings the operators of FiniteSets under names of its own; they are the
\* same operators.
LEMMA HistoryCounts == \A S : History!Cardinality(S) = Cardinality(S)
  BY DEF History!Cardinality, Cardinality

\* Numbers.
LEMMA LeastOf ==
  ASSUME NEW S \in SUBSET Nat, S # {}
  PROVE  \E i \in S : \A j \in S : i <= j
<1>1. PICK i \in S : \A j \in S : <<j, i>> \notin OpToRel(<, Nat)
  BY WFMin, NatLessThanWellFounded
<1>2. \A j \in S : ~(j < i)
  BY <1>1 DEF OpToRel
<1> QED
  BY <1>2

LEMMA GreatestOf ==
  ASSUME NEW n \in Nat, NEW S \in SUBSET (0 .. n), S # {}
  PROVE  \E i \in S : \A j \in S : j <= i
<1> DEFINE T == {n - j : j \in S}
<1>1. T \in SUBSET Nat /\ T # {}
  <2>1. \A j \in S : n - j \in Nat
    OBVIOUS
  <2> QED
    BY <2>1
<1>2. PICK t \in T : \A u \in T : t <= u
  <2> HIDE DEF T
  <2> QED
    BY <1>1, LeastOf
<1>3. PICK i \in S : t = n - i
  OBVIOUS
<1>4. ASSUME NEW j \in S
      PROVE  j <= i
  <2>1. n - j \in T
    OBVIOUS
  <2>2. n - i <= n - j
    BY <1>2, <1>3, <2>1
  <2> HIDE DEF T
  <2>3. i \in Int /\ j \in Int /\ n \in Int
    OBVIOUS
  <2> QED
    BY <2>2, <2>3
<1> QED
  BY <1>4

LEMMA RowFields ==
  ASSUME History!HistoryConstants, History!HistoryInv, NEW row \in v8
  PROVE  /\ row.at \in Nat /\ row.used \in Nat /\ row.due \in Int /\ row.cycle \in Nat
         /\ row.current \in BOOLEAN
         /\ row.at <= v1 /\ v1 \in Nat
<1>1. row \in History!Rows /\ v1 \in 0 .. Horizon /\ History!SampleInv(row)
  BY DEF History!HistoryInv, History!TypeOK
<1>2. /\ row.at \in Nat /\ row.used \in Nat /\ row.due \in Int /\ row.cycle \in Nat
      /\ row.current \in BOOLEAN
  BY <1>1 DEF History!HistoryConstants, History!Rows, History!Unknown
<1> QED
  BY <1>1, <1>2 DEF History!HistoryConstants, History!SampleInv

\* Among samples there is a first and a last one, and times tell them apart.
LEMMA SomeSamples ==
  ASSUME History!HistoryConstants, History!HistoryInv, NEW S \in SUBSET v8, S # {}
  PROVE  /\ History!Latest(S) \in S /\ \A row \in S : row.at <= History!Latest(S).at
         /\ History!Earliest(S) \in S
            /\ \A row \in S : History!Earliest(S).at <= row.at
<1> DEFINE T == {row.at : row \in S}
<1>1. T \in SUBSET (0 .. v1) /\ T \in SUBSET Nat /\ T # {} /\ v1 \in Nat
  BY RowFields
<1>2. PICK i \in T : \A j \in T : j <= i
  <2> HIDE DEF T
  <2> QED
    BY <1>1, GreatestOf
<1>3. \E row \in S : \A other \in S : other.at <= row.at
  BY <1>2
<1>4. PICK k \in T : \A j \in T : k <= j
  <2> HIDE DEF T
  <2> QED
    BY <1>1, LeastOf
<1>5. \E row \in S : \A other \in S : other.at >= row.at
  <2>1. PICK row \in S : row.at = k
    OBVIOUS
  <2>2. ASSUME NEW other \in S
        PROVE  other.at >= row.at
    <3>1. k <= other.at
      BY <1>4
    <3>2. other.at \in Nat /\ row.at \in Nat
      BY RowFields
    <3> QED
      BY <2>1, <3>1, <3>2
  <2> QED
    BY <2>2
<1>6. History!Latest(S) \in S /\ \A row \in S : row.at <= History!Latest(S).at
  BY <1>3 DEF History!Latest
<1>7. History!Earliest(S) \in S /\ \A other \in S : other.at >= History!Earliest(S).at
  BY <1>5 DEF History!Earliest
<1>8. ASSUME NEW row \in S
      PROVE  History!Earliest(S).at <= row.at
  <2>1. row.at \in Nat /\ History!Earliest(S).at \in Nat
    BY <1>7, RowFields
  <2> QED
    BY <1>7, <2>1
<1> QED
  BY <1>6, <1>7, <1>8

\* What a sample and a later one say about the cycles between them.
LEMMA PairOfSamples ==
  ASSUME History!HistoryConstants, History!HistoryInv, NEW p \in v8, NEW x \in v8,
         p.at < x.at,
         p.due # History!Unknown, x.due # History!Unknown,
         v6 \cap (p.cycle + 1 .. x.cycle) = {},
         (p.current /\ x.current) \/ x.at - p.at <= Gap
  PROVE  /\ p.cycle <= x.cycle
         /\ p.cycle < x.cycle => History!ResetBoundary(p, x)
         /\ p.cycle = x.cycle => p.used <= x.used
            /\ (History!ResetBoundary(p, x) => p.used = 0)
<1>1. /\ p.at \in Int /\ p.used \in Nat /\ p.due \in Int /\ p.cycle \in Int
      /\ x.at \in Int /\ x.used \in Nat /\ x.due \in Int /\ x.cycle \in Int
      /\ Gap \in Int /\ Cycle \in Int /\ Cycle > Gap + 1
  BY RowFields DEF History!HistoryConstants
<1>2. History!InOrder(p, x) /\ History!SampleInv(p) /\ History!SampleInv(x)
  BY DEF History!HistoryInv
<1>3. p.cycle <= x.cycle
  BY <1>2 DEF History!InOrder
<1>4. /\ p.cycle <= p.at /\ x.cycle <= x.at
      /\ p.current => p.due > p.at
      /\ x.current => x.due > x.at
      /\ ~p.current => /\ p.due = p.cycle /\ p.at <= p.cycle + 1
                       /\ p.at = p.cycle => p.used = 0
      /\ ~x.current => x.due = x.cycle
  BY <1>2 DEF History!SampleInv
<1>5. ASSUME p.cycle < x.cycle
      PROVE  History!ResetBoundary(p, x)
  <2>1. (p.current => p.due <= x.cycle) /\ x.cycle >= p.cycle + Cycle
    BY <1>2, <1>5 DEF History!InOrder, History!Apart
  <2>2. CASE p.current
    <3>1. p.at <= p.due /\ p.due <= x.at
      BY <1>1, <1>4, <2>1, <2>2
    <3> QED
      BY <3>1 DEF History!ResetBoundary
  <2>3. CASE ~p.current
    <3>1. x.at - p.at <= Gap
      BY <2>3
    <3>2. p.at = p.cycle
      BY <1>1, <1>4, <2>1, <2>3, <3>1
    <3>3. p.at <= p.due /\ p.due <= x.at
      BY <1>1, <1>4, <2>3, <3>2
    <3> QED
      BY <3>3 DEF History!ResetBoundary
  <2> QED
    BY <2>2, <2>3
<1>6. ASSUME p.cycle = x.cycle
      PROVE  p.used <= x.used /\ (History!ResetBoundary(p, x) => p.used = 0)
  <2>1. /\ p.used <= x.used
        /\ p.current /\ p.used > 0 => p.due > x.at
    BY <1>2, <1>6 DEF History!InOrder
  <2>2. ASSUME History!ResetBoundary(p, x), p.used # 0
        PROVE  FALSE
    <3>1. p.used > 0 /\ x.used # 0
      BY <1>1, <2>1, <2>2
    <3>2. \/ p.at <= p.due /\ p.due <= x.at
          \/ p.at < x.due /\ x.due <= x.at
      BY <2>2, <3>1 DEF History!ResetBoundary
    <3>3. ~(p.at <= p.due /\ p.due <= x.at)
      BY <1>1, <1>4, <2>1, <3>1
    <3>4. ~(p.at < x.due /\ x.due <= x.at)
      BY <1>1, <1>4, <1>6
    <3> QED
      BY <3>2, <3>3, <3>4
  <2> QED
    BY <2>1, <2>2
<1> QED
  BY <1>3, <1>5, <1>6

-----------------------------------------------------------------------------
\* What was really used up to a sample, since the first one.
Since(S, row) ==
  LET first == History!Earliest(S)
  IN  row.used - (IF first.cycle = row.cycle THEN first.used ELSE 0)

\* The samples of which the loop computes the consumption.
Steady(S) ==
  /\ S \in SUBSET v8 /\ S # {} /\ History!Regular(S)
  /\ \/ \A row \in S : row.current
     \/ \A row \in S \ {History!Earliest(S)} :
          row.at - History!Before(S, row).at <= Gap

LEMMA BeforeOf ==
  ASSUME History!HistoryConstants, History!HistoryInv, NEW S \in SUBSET v8, S # {},
         NEW x \in S \ {History!Earliest(S)}
  PROVE  History!Before(S, x) \in S /\ History!Before(S, x).at < x.at
<1> DEFINE R == {other \in S : other.at < x.at}
<1>1. History!Earliest(S) \in S /\ History!Earliest(S).at <= x.at
  BY SomeSamples
<1>2. History!Earliest(S).at # x.at
  BY <1>1 DEF History!HistoryInv
<1>3. History!Earliest(S) \in R
  <2>1. History!Earliest(S).at \in Nat /\ x.at \in Nat
    BY <1>1, RowFields
  <2> QED
    BY <1>1, <1>2, <2>1
<1>4. R \in SUBSET v8 /\ R # {}
  BY <1>3
<1>5. History!Latest(R) \in R
  <2> HIDE DEF R
  <2> QED
    BY <1>4, SomeSamples
<1> QED
  BY <1>5 DEF History!Before

\* A pair carries the truth on.
LEMMA PairIsTrue ==
  ASSUME History!HistoryConstants, History!HistoryInv, NEW S, Steady(S),
         NEW x \in S \ {History!Earliest(S)}
  PROVE  History!Pair(S, Since(S, History!Before(S, x)), x) = Since(S, x)
<1> DEFINE p == History!Before(S, x)
           f == History!Earliest(S)
           l == History!Latest(S)
<1>1. S \in SUBSET v8 /\ S # {} /\ History!Regular(S)
  BY DEF Steady
<1>2. p \in S /\ p.at < x.at
  BY <1>1, BeforeOf
<1>3. /\ f \in S /\ f.at <= p.at /\ l \in S /\ x.at <= l.at
  BY <1>1, <1>2, SomeSamples
<1> HIDE DEF p, f, l
<1>4. /\ p \in v8 /\ x \in v8 /\ f \in v8 /\ l \in v8
  BY <1>1, <1>2, <1>3
<1>5. /\ f.at \in Int /\ f.used \in Int /\ f.cycle \in Int /\ l.cycle \in Int
         /\ l.at \in Int
      /\ p.at \in Int /\ p.used \in Int /\ p.cycle \in Int
      /\ x.at \in Int /\ x.used \in Int /\ x.cycle \in Int
      /\ f.used >= 0
  BY <1>4, RowFields
<1>6. f.cycle <= p.cycle /\ (f.cycle = p.cycle => f.used <= p.used)
  <2>1. CASE f.at = p.at
    <3>1. f = p
      BY <1>4, <2>1 DEF History!HistoryInv
    <3> QED
      BY <1>5, <3>1
  <2>2. CASE f.at # p.at
    <3>1. f.at < p.at
      BY <1>3, <1>5, <2>2
    <3>2. History!InOrder(f, p)
      BY <1>4, <3>1 DEF History!HistoryInv
    <3> QED
      BY <3>2 DEF History!InOrder
  <2> QED
    BY <2>1, <2>2
<1>7. x.cycle <= l.cycle
  <2>1. CASE x.at = l.at
    <3>1. x = l
      BY <1>4, <2>1 DEF History!HistoryInv
    <3> QED
      BY <1>5, <3>1
  <2>2. CASE x.at # l.at
    <3>1. x.at < l.at
      BY <1>3, <1>5, <2>2
    <3>2. History!InOrder(x, l)
      BY <1>4, <3>1 DEF History!HistoryInv
    <3> QED
      BY <3>2 DEF History!InOrder
  <2> QED
    BY <2>1, <2>2
<1>8. v6 \cap (p.cycle + 1 .. x.cycle) = {}
  <2>1. v6 \cap (f.cycle + 1 .. l.cycle) = {}
    BY <1>1 DEF History!Regular, f, l
  <2>2. (p.cycle + 1 .. x.cycle) \subseteq (f.cycle + 1 .. l.cycle)
    BY <1>5, <1>6, <1>7
  <2> QED
    BY <2>1, <2>2
<1>9. p.due # History!Unknown /\ x.due # History!Unknown
  BY <1>1, <1>2 DEF History!Regular
<1>10. (p.current /\ x.current) \/ x.at - p.at <= Gap
  BY <1>2 DEF Steady, p
<1>11. /\ p.cycle <= x.cycle
       /\ p.cycle < x.cycle => History!ResetBoundary(p, x)
       /\ p.cycle = x.cycle => p.used <= x.used
          /\ (History!ResetBoundary(p, x) => p.used = 0)
  BY <1>2, <1>4, <1>8, <1>9, <1>10, PairOfSamples
<1> DEFINE sinceP == p.used - (IF f.cycle = p.cycle THEN f.used ELSE 0)
           sinceX == x.used - (IF f.cycle = x.cycle THEN f.used ELSE 0)
<1>12. History!Pair(S, sinceP, x) = IF History!ResetBoundary(p, x) THEN x.used
                            ELSE IF x.used >= p.used THEN sinceP + (x.used - p.used)
                            ELSE sinceP
  BY DEF History!Pair, p
<1>13. History!Pair(S, sinceP, x) = sinceX
  <2>1. CASE History!ResetBoundary(p, x)
    <3>1. History!Pair(S, sinceP, x) = x.used
      BY <1>12, <2>1
    <3>2. f.cycle = x.cycle => f.used = 0
      BY <1>5, <1>6, <1>11, <2>1
    <3> QED
      BY <1>5, <3>1, <3>2
  <2>2. CASE ~History!ResetBoundary(p, x)
    <3>1. p.cycle = x.cycle /\ p.used <= x.used
      BY <1>5, <1>11, <2>2
    <3>2. History!Pair(S, sinceP, x) = sinceP + (x.used - p.used)
      BY <1>5, <1>12, <2>2, <3>1
    <3> QED
      BY <1>5, <3>1, <3>2
  <2> QED
    BY <2>1, <2>2
<1> QED
  BY <1>13 DEF Since, p, f

\* What was used up to a time.
SoFar(S, time) ==
  LET R == {row \in S : row.at < time}
  IN  IF R = {} THEN 0 ELSE Since(S, History!Latest(R))

LEMMA PairAtIsTrue ==
  ASSUME History!HistoryConstants, History!HistoryInv, NEW S, Steady(S),
         NEW time \in Nat
  PROVE  History!PairAt(S, SoFar(S, time), time) = SoFar(S, time + 1)
<1> DEFINE f == History!Earliest(S)
           ends == {row \in S \ {f} : row.at = time}
           R == {row \in S : row.at < time}
           Q == {row \in S : row.at < time + 1}
<1>1. S \in SUBSET v8 /\ S # {}
  BY DEF Steady
<1>2. \A row \in S : row.at \in Nat /\ row.used \in Nat
  BY <1>1, RowFields
<1>3. f \in S /\ \A row \in S : f.at <= row.at
  BY <1>1, SomeSamples
<1>4. \A row, other \in S : row.at = other.at => row = other
  BY <1>1 DEF History!HistoryInv
<1> HIDE DEF f
<1>5. CASE ends = {} /\ f.at = time
  <2>1. R = {}
    BY <1>2, <1>3, <1>5
  <2>2. Q = {f}
    <3>1. ASSUME NEW row \in Q
          PROVE  row = f
      <4>1. row \in S /\ row.at <= time
        BY <1>2
      <4>2. row.at = f.at
        BY <1>2, <1>3, <1>5, <4>1
      <4> QED
        BY <1>3, <1>4, <4>1, <4>2
    <3>2. f \in Q
      BY <1>3, <1>5
    <3> QED
      BY <3>1, <3>2
  <2>3. History!Latest(Q) = f
    <3>1. Q \in SUBSET v8 /\ Q # {}
      BY <1>1, <2>2
    <3>2. History!Latest(Q) \in Q
      <4> HIDE DEF Q
      <4> QED
        BY <3>1, SomeSamples
    <3> QED
      BY <2>2, <3>2
  <2>4. SoFar(S, time) = 0
    BY <2>1 DEF SoFar
  <2>5. SoFar(S, time + 1) = Since(S, f)
    BY <2>2, <2>3 DEF SoFar
  <2>6. Since(S, f) = 0
    BY <1>2, <1>3 DEF Since, f
  <2>7. History!PairAt(S, SoFar(S, time), time) = SoFar(S, time)
    BY <1>5 DEF History!PairAt, f
  <2> QED
    BY <2>4, <2>5, <2>6, <2>7
<1>6. CASE ends = {} /\ f.at # time
  <2>1. Q = R
    BY <1>2, <1>3, <1>6
  <2>2. SoFar(S, time + 1) = SoFar(S, time)
    BY <2>1 DEF SoFar
  <2>3. History!PairAt(S, SoFar(S, time), time) = SoFar(S, time)
    BY <1>6 DEF History!PairAt, f
  <2> QED
    BY <2>2, <2>3
<1>7. CASE ends # {}
  <2> DEFINE x == History!Latest(ends)
  <2>1. x \in ends
    <3>1. ends \in SUBSET v8
      BY <1>1
    <3> HIDE DEF ends
    <3> QED
      BY <1>7, <3>1, SomeSamples
  <2> HIDE DEF x
  <2>2. x \in S \ {f} /\ x.at = time
    BY <2>1
  <2>3. R = {other \in S : other.at < x.at}
    BY <2>2
  <2>4. R # {} /\ History!Latest(R) = History!Before(S, x)
    <3>1. History!Latest(R) = History!Before(S, x)
      BY <2>3 DEF History!Before
    <3>2. History!Before(S, x) \in S /\ History!Before(S, x).at < x.at
      BY <1>1, <2>2, BeforeOf DEF f
    <3> QED
      BY <2>3, <3>1, <3>2
  <2>5. Q # {} /\ History!Latest(Q) = x
    <3>1. x \in Q
      BY <2>2
    <3>2. Q \in SUBSET v8 /\ Q # {}
      BY <1>1, <3>1
    <3>3. History!Latest(Q) \in Q /\ x.at <= History!Latest(Q).at
      <4> HIDE DEF Q
      <4> QED
        BY <3>1, <3>2, SomeSamples
    <3>4. History!Latest(Q).at = x.at
      BY <1>2, <2>2, <3>3
    <3> QED
      BY <1>4, <2>2, <3>2, <3>3, <3>4
  <2>6. SoFar(S, time) = Since(S, History!Before(S, x))
    BY <2>4 DEF SoFar
  <2>7. SoFar(S, time + 1) = Since(S, x)
    BY <2>5 DEF SoFar
  <2>8. History!PairAt(S, SoFar(S, time), time) = History!Pair(S, SoFar(S, time), x)
    BY <1>7 DEF History!PairAt, f, x
  <2>9. History!Pair(S, Since(S, History!Before(S, x)), x) = Since(S, x)
    BY <2>2, PairIsTrue DEF f
  <2> QED
    BY <2>6, <2>7, <2>8, <2>9
<1> QED
  BY <1>5, <1>6, <1>7

\* So does the loop: no other function solves its recursion.
LEMMA ConsumedIsTrue ==
  ASSUME History!HistoryConstants, History!HistoryInv, NEW S, Steady(S)
  PROVE  History!Consumed(S) = History!TrueConsumption(S)
<1> DEFINE Loop(g) == [time \in 0 .. v1 |->
                         History!PairAt(S, IF time = 0 THEN 0 ELSE g[time - 1], time)]
           truth == [time \in 0 .. v1 |-> SoFar(S, time + 1)]
           total == CHOOSE g : g = Loop(g)
<1>1. S \in SUBSET v8 /\ S # {} /\ v1 \in Nat
  <2>1. S \in SUBSET v8 /\ S # {}
    BY DEF Steady
  <2> QED
    BY <2>1, RowFields
<1>2. SoFar(S, 0) = 0
  <2>1. \A row \in S : ~(row.at < 0)
    BY <1>1, RowFields
  <2> QED
    BY <2>1 DEF SoFar
<1>3. truth = Loop(truth)
  <2>1. ASSUME NEW time \in 0 .. v1
        PROVE  SoFar(S, time + 1) =
                 History!PairAt(S, IF time = 0 THEN 0 ELSE truth[time - 1], time)
    <3>1. History!PairAt(S, SoFar(S, time), time) = SoFar(S, time + 1)
      BY <1>1, PairAtIsTrue
    <3>2. CASE time = 0
      BY <1>2, <3>1, <3>2
    <3>3. CASE time # 0
      <4>1. time - 1 \in 0 .. v1 /\ (time - 1) + 1 = time
        BY <1>1, <3>3
      <4>2. truth[time - 1] = SoFar(S, time)
        BY <4>1
      <4> QED
        BY <3>1, <3>3, <4>2
    <3> QED
      BY <3>2, <3>3
  <2> QED
    BY <2>1
<1>4. total = Loop(total)
  <2>1. \E g : g = Loop(g)
    BY <1>3
  <2> HIDE DEF Loop
  <2> QED
    BY <2>1
<1> HIDE DEF truth
<1>5. ASSUME NEW time \in 0 .. v1
      PROVE  total[time] =
               History!PairAt(S, IF time = 0 THEN 0 ELSE total[time - 1], time)
  <2> HIDE DEF total
  <2> QED
    BY <1>4
<1> HIDE DEF total
<1> DEFINE Wrong == {time \in 0 .. v1 : total[time] # SoFar(S, time + 1)}
<1>6. Wrong = {}
  <2> SUFFICES ASSUME Wrong # {}
               PROVE  FALSE
    OBVIOUS
  <2>1. Wrong \in SUBSET Nat
    BY <1>1
  <2>2. PICK m \in Wrong : \A n \in Wrong : m <= n
    <3> HIDE DEF Wrong
    <3> QED
      BY <2>1, LeastOf
  <2>3. m \in 0 .. v1 /\ m \in Nat
    BY <1>1
  <2>4. total[m] = History!PairAt(S, IF m = 0 THEN 0 ELSE total[m - 1], m)
    BY <1>5, <2>3
  <2>5. History!PairAt(S, SoFar(S, m), m) = SoFar(S, m + 1)
    BY <2>3, PairAtIsTrue
  <2>6. CASE m = 0
    BY <1>2, <2>4, <2>5, <2>6
  <2>7. CASE m # 0
    <3>1. m - 1 \in 0 .. v1 /\ (m - 1) + 1 = m /\ ~(m <= m - 1)
      BY <1>1, <2>3, <2>7
    <3>2. m - 1 \notin Wrong
      BY <2>2, <3>1
    <3>3. total[m - 1] = SoFar(S, m)
      BY <3>1, <3>2
    <3> QED
      BY <2>4, <2>5, <2>7, <3>3
  <2> QED
    BY <2>6, <2>7
<1>7. total[v1] = SoFar(S, v1 + 1)
  BY <1>1, <1>6
<1>8. SoFar(S, v1 + 1) = History!TrueConsumption(S)
  <2>1. {row \in S : row.at < v1 + 1} = S
    BY <1>1, RowFields
  <2> QED
    BY <1>1, <2>1 DEF SoFar, Since, History!TrueConsumption
<1>9. History!Consumed(S) = total[v1]
  BY DEF History!Consumed, total
<1> QED
  BY <1>7, <1>8, <1>9

-----------------------------------------------------------------------------
\* What a query reads are samples.
LEMMA AskedAreSamples ==
  ASSUME History!HistoryConstants, History!HistoryInv, NEW reach, NEW lookback
  PROVE  History!Asked(reach, lookback) \in SUBSET v8
<1> DEFINE read == History!SamplesForConsumption(v1 - reach)
           start == v1 - lookback
<1>1. \A rows \in SUBSET v8 : \A limit : History!Newest(rows, limit) \in SUBSET v8
  BY DEF History!Newest
<1>2. ASSUME NEW baseline \in SUBSET v8, baseline # {}
      PROVE  History!Latest(baseline) \in v8
  BY <1>2, SomeSamples
<1>3. read \in SUBSET v8
  <2> DEFINE base == {row \in v8 : row.at <= v1 - reach}
             later == {row \in v8 : row.at > v1 - reach}
  <2>1. base \in SUBSET v8 /\ later \in SUBSET v8
    OBVIOUS
  <2>2. read = IF base = {} THEN History!Newest(later, MaxSamples)
               ELSE History!Newest(later, MaxSamples - 1) \cup {History!Latest(base)}
    BY DEF History!SamplesForConsumption
  <2> HIDE DEF read, base, later
  <2>3. CASE base = {}
    BY <1>1, <2>1, <2>2, <2>3
  <2>4. CASE base # {}
    <3>1. History!Latest(base) \in v8
      BY <1>2, <2>1, <2>4
    <3>2. History!Newest(later, MaxSamples - 1) \in SUBSET v8
      BY <1>1, <2>1
    <3> QED
      BY <2>2, <2>4, <3>1, <3>2
  <2> QED
    BY <2>3, <2>4
<1> HIDE DEF read
<1> DEFINE first == {row \in read : row.at <= start}
<1>4. History!Asked(reach, lookback) =
        {row \in read :
          row.at >= start} \cup (IF first = {} THEN {} ELSE {History!Latest(first)})
  BY DEF History!Asked, History!Observations, read
<1>5. first \in SUBSET v8
  BY <1>3
<1> HIDE DEF first, start
<1>6. CASE first = {}
  BY <1>3, <1>4, <1>6
<1>7. CASE first # {}
  BY <1>2, <1>3, <1>4, <1>5, <1>7
<1> QED
  BY <1>6, <1>7

\* The evidence for a projection is of one cycle.
LEMMA EvidenceOfOneCycle ==
  ASSUME History!HistoryConstants, History!HistoryInv, History!TrackerEvidence # {},
         History!Regular(History!TrackerEvidence),
         NEW row \in History!TrackerEvidence
  PROVE  row.cycle = History!Latest(History!TrackerEvidence).cycle
<1> DEFINE N == History!Newest(v8, MaxSamples)
           E == History!SameGeneration(N)
           others == {r \in N : r.due # History!Latest(N).due}
<1>1. History!TrackerEvidence = E /\ History!Latest(E).due > History!Latest(E).at
  <2>1. History!TrackerEvidence = E
    BY DEF History!TrackerEvidence
  <2>2. ~(History!Latest(E).due <= History!Latest(E).at)
    BY DEF History!TrackerEvidence
  <2>3. E # {} /\ E \in SUBSET v8
    BY <2>1 DEF History!SameGeneration, History!Newest
  <2> HIDE DEF E
  <2>4. History!Latest(E) \in v8
    BY <2>3, SomeSamples
  <2>5. History!Latest(E).due \in Int /\ History!Latest(E).at \in Int
    BY <2>4, RowFields
  <2> QED
    BY <2>1, <2>2, <2>5
<1>2. N \in SUBSET v8
  BY DEF History!Newest
<1> HIDE DEF N
<1>3. E = IF others = {} THEN N ELSE {r \in N : r.at > History!Latest(others).at}
  BY DEF History!SameGeneration
<1>4. ASSUME NEW r \in E
      PROVE  r \in N /\ r.due = History!Latest(N).due
  <2>1. CASE others = {}
    BY <1>3, <2>1
  <2>2. CASE others # {}
    <3>1. r \in N /\ r.at > History!Latest(others).at
      BY <1>3, <2>2
    <3>2. others \in SUBSET v8
      BY <1>2
    <3> HIDE DEF others
    <3>3. History!Latest(others) \in v8
          /\ (r \in others => r.at <= History!Latest(others).at)
      BY <2>2, <3>2, SomeSamples
    <3>4. r.at \in Int /\ History!Latest(others).at \in Int
      BY <1>2, <3>1, <3>3, RowFields
    <3>5. r \notin others
      BY <3>1, <3>3, <3>4
    <3> QED
      BY <3>1, <3>5 DEF others
  <2> QED
    BY <2>1, <2>2
<1> HIDE DEF E
<1>5. E \in SUBSET v8 /\ E # {}
  BY <1>1, <1>2, <1>4
<1> DEFINE l == History!Latest(E)
           f == History!Earliest(E)
<1>6. /\ l \in E /\ f \in E /\ row \in E
      /\ row.at <= l.at /\ f.at <= row.at
  BY <1>1, <1>5, SomeSamples
<1>7. History!Regular(E)
  BY <1>1
<1>8. v6 \cap (f.cycle + 1 .. l.cycle) = {} /\ row.due # History!Unknown
  BY <1>6, <1>7 DEF History!Regular
<1>9. row.due = l.due /\ l.due > l.at
  BY <1>1, <1>4, <1>6
<1> HIDE DEF l, f
<1>10. /\ row \in v8 /\ l \in v8 /\ f \in v8
  BY <1>5, <1>6
<1>11. /\ row.at \in Int /\ row.due \in Int /\ row.cycle \in Int
          /\ row.current \in BOOLEAN
       /\ l.at \in Int /\ l.due \in Int /\ l.cycle \in Int
       /\ f.at \in Int /\ f.cycle \in Int
  BY <1>10, RowFields
<1>12. History!SampleInv(row) /\ History!SampleInv(l)
  BY <1>10 DEF History!HistoryInv
<1>13. row.current
  BY <1>6, <1>8, <1>9, <1>11, <1>12 DEF History!SampleInv
<1>14. f.cycle <= row.cycle
  <2>1. CASE f.at = row.at
    <3>1. f = row
      BY <1>10, <2>1 DEF History!HistoryInv
    <3> QED
      BY <1>11, <3>1
  <2>2. CASE f.at # row.at
    <3>1. f.at < row.at
      BY <1>6, <1>11, <2>2
    <3> QED
      BY <1>10, <3>1 DEF History!HistoryInv, History!InOrder
  <2> QED
    BY <2>1, <2>2
<1>15. CASE row.at = l.at
  <2>1. row = l
    BY <1>10, <1>15 DEF History!HistoryInv
  <2> QED
    BY <1>1, <2>1 DEF l
<1>16. CASE row.at # l.at
  <2>1. row.at < l.at
    BY <1>6, <1>11, <1>16
  <2>2. History!InOrder(row, l)
    BY <1>10, <2>1 DEF History!HistoryInv
  <2>3. row.cycle = l.cycle
    <3> SUFFICES ASSUME row.cycle # l.cycle
                 PROVE  FALSE
      OBVIOUS
    <3>1. row.cycle < l.cycle
      BY <1>11, <2>2 DEF History!InOrder
    <3>2. v6 \cap (row.cycle + 1 .. l.cycle) = {}
      <4>1. (row.cycle + 1 .. l.cycle) \subseteq (f.cycle + 1 .. l.cycle)
        BY <1>11, <1>14
      <4> QED
        BY <1>8, <4>1
    <3>3. row.due <= l.cycle
      BY <1>13, <2>2, <3>1, <3>2 DEF History!InOrder, History!Apart
    <3>4. l.cycle <= l.at
      BY <1>12 DEF History!SampleInv
    <3> QED
      BY <1>9, <1>11, <3>3, <3>4
  <2> QED
    BY <1>1, <2>3 DEF l
<1> QED
  BY <1>15, <1>16

\* Where the property follows from the invariant.
LEMMA HistoryInvTrue ==
  ASSUME History!HistoryConstants, History!HistoryInv
  PROVE  History!ConsumptionIsTrue
<1>1. ASSUME NEW reach \in Lookbacks, NEW lookback \in Lookbacks,
             History!Cardinality(History!Asked(reach, lookback)) >= 2,
             History!Regular(History!Asked(reach, lookback)),
             \/ \A row \in History!Asked(reach, lookback) : row.current
             \/ History!Coverage(History!Asked(reach, lookback), v1 - lookback) = "complete"
      PROVE  History!Consumed(History!Asked(reach, lookback)) =
               History!TrueConsumption(History!Asked(reach, lookback))
  <2> DEFINE S == History!Asked(reach, lookback)
  <2>1. S \in SUBSET v8
    BY AskedAreSamples
  <2>2. S # {}
    <3>1. History!Cardinality({}) = 0
      BY FS_EmptySet, HistoryCounts
    <3> QED
      BY <1>1, <3>1
  <2> HIDE DEF S
  <2>3. CASE \A row \in S : row.current
    <3>1. Steady(S)
      BY <1>1, <2>1, <2>2, <2>3 DEF Steady, S
    <3> QED
      BY <3>1, ConsumedIsTrue DEF S
  <2>4. CASE History!Coverage(S, v1 - lookback) = "complete"
    <3>1. \A row \in S \ {History!Earliest(S)} :
            ~(row.at - History!Before(S, row).at > Gap)
      BY <2>4 DEF History!Coverage
    <3>2. ASSUME NEW row \in S \ {History!Earliest(S)}
          PROVE  row.at - History!Before(S, row).at <= Gap
      <4>1. History!Before(S, row) \in S
        BY <2>1, <2>2, BeforeOf
      <4>2. row.at \in Int /\ History!Before(S, row).at \in Int /\ Gap \in Int
        BY <2>1, <4>1, RowFields DEF History!HistoryConstants
      <4> QED
        BY <3>1, <4>2
    <3>3. Steady(S)
      BY <1>1, <2>1, <2>2, <3>2 DEF Steady, S
    <3> QED
      BY <3>3, ConsumedIsTrue DEF S
  <2> QED
    BY <1>1, <2>3, <2>4 DEF S
<1>2. History!TrackerEvidence # {} /\ History!Regular(History!TrackerEvidence) =>
        \A row \in History!TrackerEvidence :
          row.cycle = History!Latest(History!TrackerEvidence).cycle
  BY EvidenceOfOneCycle
<1> QED
  BY <1>1, <1>2 DEF History!ConsumptionIsTrue

-----------------------------------------------------------------------------
\* The steps.

SamplesInv ==
  /\ \A row \in v8 : History!SampleInv(row) /\ History!SampleOfWindow(row)
  /\ \A row, other \in v8 :
        /\ row.at = other.at => row = other
        /\ row.at < other.at => History!InOrder(row, other)

LEMMA HistoryParts == History!HistoryInv <=> (History!TypeOK /\ History!WindowInv
/\ SamplesInv)
  BY DEF History!HistoryInv, SamplesInv

LEMMA HistoryInvInit == History!HistoryConstants /\ History!Init => History!HistoryInv
<1> SUFFICES ASSUME History!HistoryConstants, History!Init
             PROVE  History!HistoryInv
  OBVIOUS
<1>1. History!TypeOK
  BY DEF History!HistoryConstants, History!Init, History!TypeOK, History!Unknown
<1>2. History!WindowInv
  BY DEF History!HistoryConstants, History!Init, History!WindowInv, History!Unknown
<1>3. SamplesInv
  BY DEF History!Init, SamplesInv
<1> QED
  BY <1>1, <1>2, <1>3, HistoryParts

\* What the window is like, in integers.
LEMMA WindowFields ==
  ASSUME History!HistoryConstants, History!HistoryInv
  PROVE  /\ v1 \in Nat /\ v2 \in Nat /\ v3 \in Nat /\ v4 \in Nat
         /\ v5 \in Int /\ v4 <= v1 /\ v1 < v3 /\ v3 <= v1 + Cycle
         /\ v1 <= Horizon /\ Cycle \in Nat /\ Cycle > 0 /\ Horizon \in Nat
         /\ v3 >= v4 + Cycle
         /\ v6 \in SUBSET (0 .. v1)
  BY DEF History!HistoryConstants, History!HistoryInv, History!TypeOK,
     History!WindowInv, History!Unknown

\* The samples stay as good as they are when the window goes on.
LEMMA SamplesKeep ==
  ASSUME History!HistoryConstants, History!HistoryInv, v1' \in Nat, v1' >= v1,
         v8' \in SUBSET v8,
         \A row \in v8 : History!SampleOfWindow(row) => History!SampleOfWindow(row)',
         v6' = v6 \/ v6' = v6 \cup {v1}
  PROVE  SamplesInv'
<1>1. /\ \A row \in v8' : History!SampleInv(row) /\ History!SampleOfWindow(row)
         /\ History!SampleOfWindow(row)'
      /\ \A row, other \in v8' :
            /\ row.at = other.at => row = other
            /\ row.at < other.at => History!InOrder(row, other)
  BY DEF History!HistoryInv
<1>2. ASSUME NEW row \in v8'
      PROVE  History!SampleInv(row)'
  <2>1. row.at \in Nat /\ row.at <= v1 /\ v1 \in Nat
    BY RowFields
  <2>2. row.at <= v1'
    BY <2>1
  <2> QED
    BY <1>1, <2>2 DEF History!SampleInv
<1>3. ASSUME NEW row \in v8', NEW other \in v8', row.at < other.at
      PROVE  History!InOrder(row, other)'
  <2>1. History!InOrder(row, other)
    BY <1>1, <1>3
  <2>2. v6 \cap (row.cycle + 1 .. other.cycle) # {} =>
          v6' \cap (row.cycle + 1 .. other.cycle) # {}
    OBVIOUS
  <2>3. History!Apart(row, other.cycle)'
    BY <2>1, <2>2 DEF History!InOrder, History!Apart
  <2> QED
    BY <2>1, <2>3 DEF History!InOrder
<1> QED
  BY <1>1, <1>2, <1>3 DEF SamplesInv

LEMMA HistoryTimePasses ==
  ASSUME History!HistoryConstants, History!HistoryInv, History!TimePasses
  PROVE  History!HistoryInv'
<1> USE WindowFields
<1>1. /\ v1' = v1 + 1 /\ v1 < Horizon
      /\ UNCHANGED <<v6, v7, v8, v9>>
      /\ \/ v1 + 1 < v3 /\ UNCHANGED <<v2, v3, v4, v5>>
         \/ /\ v1 + 1 = v3 /\ v2' = 0 /\ v4' = v3
            /\ v3' = v3 + Cycle /\ v5' = v3
  BY DEF History!TimePasses, History!NewCycle
<1>2. History!TypeOK'
  <2>1. v1' \in 0 .. Horizon /\ v4' \in 0 .. v1'
    BY <1>1
  <2>2. v3' \in v1' + 1 .. v1' + Cycle
    BY <1>1
  <2>3. v5' \in {History!Unknown} \cup (0 .. v3')
    BY <1>1 DEF History!HistoryInv, History!TypeOK
  <2>4. v6' \subseteq 0 .. v1'
    BY <1>1
  <2>5. v2' \in 0 .. MaxCounter
    BY <1>1 DEF History!HistoryInv, History!TypeOK, History!HistoryConstants
  <2> QED
    BY <1>1, <2>1, <2>2, <2>3, <2>4, <2>5 DEF History!HistoryInv, History!TypeOK
<1>3. History!WindowInv'
  BY <1>1 DEF History!HistoryInv, History!WindowInv
<1>4. ASSUME NEW row \in v8, History!SampleOfWindow(row)
      PROVE  History!SampleOfWindow(row)'
  <2>1. /\ row.at \in Nat /\ row.cycle \in Nat /\ row.used \in Nat /\ row.due \in Int
        /\ row.cycle <= v4
    BY <1>4, RowFields DEF History!SampleOfWindow
  <2>2. CASE UNCHANGED <<v2, v3, v4, v5>>
    BY <1>1, <1>4, <2>2 DEF History!SampleOfWindow, History!Apart
  <2>3. CASE v1 + 1 = v3 /\ v4' = v3
    <3>1. row.cycle < v4'
      BY <2>1, <2>3
    <3>2. History!Apart(row, v4)'
      <4> SUFFICES ASSUME v6 \cap (row.cycle + 1 .. v3) = {}
                   PROVE  /\ row.current => row.due <= v3
                          /\ v3 >= row.cycle + Cycle
        BY <1>1, <2>3 DEF History!Apart
      <4>1. CASE row.cycle = v4
        BY <1>4, <4>1 DEF History!SampleOfWindow
      <4>2. CASE row.cycle # v4
        <5>1. row.cycle < v4
          BY <2>1, <4>2
        <5>2. (row.cycle + 1 .. v4) \subseteq (row.cycle + 1 .. v3)
          BY <2>1
        <5>3. /\ row.current => row.due <= v4
              /\ v4 >= row.cycle + Cycle
          BY <1>4, <5>1, <5>2 DEF History!SampleOfWindow, History!Apart
        <5> QED
          BY <2>1, <5>3
      <4> QED
        BY <4>1, <4>2
    <3> QED
      BY <2>1, <3>1, <3>2, <2>3 DEF History!SampleOfWindow
  <2> QED
    BY <1>1, <2>2, <2>3
<1>5. SamplesInv'
  BY <1>1, <1>4, SamplesKeep
<1> QED
  BY <1>2, <1>3, <1>5 DEF History!HistoryInv, SamplesInv

LEMMA CounterRisesKeeps ==
  ASSUME History!HistoryConstants, History!HistoryInv, History!CounterRises
  PROVE  History!HistoryInv'
<1> USE WindowFields
<1>1. /\ v2 < MaxCounter /\ v2' = v2 + 1
      /\ UNCHANGED <<v1, v3, v4, v5, v6, v7, v8, v9>>
  BY DEF History!CounterRises
<1>2. History!TypeOK'
  <2>1. v2' \in 0 .. MaxCounter
    BY <1>1 DEF History!HistoryConstants
  <2> QED
    BY <1>1, <2>1 DEF History!HistoryInv, History!TypeOK
<1>3. History!WindowInv'
  BY <1>1 DEF History!HistoryInv, History!WindowInv
<1>4. ASSUME NEW row \in v8, History!SampleOfWindow(row)
      PROVE  History!SampleOfWindow(row)'
  <2>1. row.used \in Nat
    BY RowFields
  <2> QED
    BY <1>1, <1>4, <2>1 DEF History!SampleOfWindow, History!Apart
<1>5. SamplesInv'
  BY <1>1, <1>4, SamplesKeep
<1> QED
  BY <1>2, <1>3, <1>5 DEF History!HistoryInv, SamplesInv

LEMMA ResetSlidesKeeps ==
  ASSUME History!HistoryConstants, History!HistoryInv, History!ResetSlides
  PROVE  History!HistoryInv'
<1> USE WindowFields
<1>1. /\ v2 = 0 /\ v3 < v1 + Cycle /\ v3' = v1 + Cycle
      /\ UNCHANGED <<v1, v2, v4, v5, v6, v7, v8, v9>>
  BY DEF History!ResetSlides
<1>2. History!TypeOK'
  <2>1. v3' \in v1' + 1 .. v1' + Cycle
    BY <1>1
  <2>2. v5' \in {History!Unknown} \cup (0 .. v3')
    BY <1>1 DEF History!HistoryInv, History!TypeOK
  <2> QED
    BY <1>1, <2>1, <2>2 DEF History!HistoryInv, History!TypeOK
<1>3. History!WindowInv'
  BY <1>1 DEF History!HistoryInv, History!WindowInv
<1>4. ASSUME NEW row \in v8, History!SampleOfWindow(row)
      PROVE  History!SampleOfWindow(row)'
  <2>1. row.used \in Nat /\ row.due \in Int
    BY RowFields
  <2>2. History!Apart(row, v4)' /\ row.cycle <= v4'
    BY <1>1, <1>4 DEF History!SampleOfWindow, History!Apart
  <2>3. ASSUME row.cycle = v4
        PROVE  row.used <= v2' /\ (row.current => row.due <= v3') /\ ~(row.used > 0)
    BY <1>1, <1>4, <2>1, <2>3 DEF History!SampleOfWindow
  <2> QED
    BY <1>1, <2>2, <2>3 DEF History!SampleOfWindow
<1>5. SamplesInv'
  BY <1>1, <1>4, SamplesKeep
<1> QED
  BY <1>2, <1>3, <1>5 DEF History!HistoryInv, SamplesInv

LEMMA EarlyResetKeeps ==
  ASSUME History!HistoryConstants, History!HistoryInv, History!EarlyReset
  PROVE  History!HistoryInv'
<1> USE WindowFields
<1>1. /\ v4 < v1 /\ v2' = 0 /\ v4' = v1 /\ v3' = v1 + Cycle
      /\ v5' = v3 /\ v6' = v6 \cup {v1}
      /\ v9 < MaxUpheavals /\ v9' = v9 + 1
      /\ UNCHANGED <<v1, v7, v8>>
  BY DEF History!EarlyReset, History!NewCycle
<1>2. History!TypeOK'
  <2>1. v3' \in v1' + 1 .. v1' + Cycle /\ v4' \in 0 .. v1'
    BY <1>1
  <2>2. v5' \in {History!Unknown} \cup (0 .. v3')
    BY <1>1
  <2>3. v2' \in 0 .. MaxCounter /\ v9' \in 0 .. MaxUpheavals
    BY <1>1 DEF History!HistoryInv, History!TypeOK, History!HistoryConstants
  <2>4. v6' \subseteq 0 .. v1'
    BY <1>1
  <2> QED
    BY <1>1, <2>1, <2>2, <2>3, <2>4 DEF History!HistoryInv, History!TypeOK
<1>3. History!WindowInv'
  BY <1>1 DEF History!HistoryInv, History!WindowInv
<1>4. ASSUME NEW row \in v8, History!SampleOfWindow(row)
      PROVE  History!SampleOfWindow(row)'
  <2>1. row.cycle \in Nat /\ row.cycle <= v4
    BY <1>4, RowFields DEF History!SampleOfWindow
  <2>2. row.cycle < v4'
    BY <1>1, <2>1
  <2>3. v1 \in v6' \cap (row.cycle + 1 .. v4')
    BY <1>1, <2>1
  <2>4. History!Apart(row, v4)'
    BY <2>3 DEF History!Apart
  <2>5. row.cycle <= v4' /\ row.cycle # v4'
    BY <1>1, <2>1, <2>2
  <2> QED
    BY <2>4, <2>5 DEF History!SampleOfWindow
<1>5. SamplesInv'
  BY <1>1, <1>4, SamplesKeep
<1> QED
  BY <1>2, <1>3, <1>5 DEF History!HistoryInv, SamplesInv

\* A new sample fits in behind the others.
LEMMA RecordKeeps ==
  ASSUME History!HistoryConstants, History!HistoryInv, History!Record
  PROVE  History!HistoryInv'
<1> USE WindowFields
<1>1. /\ UNCHANGED <<v1, v2, v3, v4, v5, v6>>
      /\ v7' = "ready"
      /\ v9' = v9 \/ (v9 < MaxUpheavals /\ v9' = v9 + 1)
  BY DEF History!Record, History!world
<1>2. PICK due : /\ v8' = History!Upsert(History!UsageSample(due))
                 /\ \/ due = v3 \/ due = History!Unknown
                    \/ History!Lingers /\ due = v5
  BY DEF History!Record, History!SamplesOfUsage
<1> DEFINE new == History!UsageSample(due)
<1>3. /\ new.at = v1 /\ new.used = v2 /\ new.due = due /\ new.cycle = v4
      /\ due = v3 => new.current
      /\ due # v3 => ~new.current
  BY DEF History!UsageSample
<1>4. due \in Int /\ due \in {History!Unknown} \cup (0 .. Horizon + Cycle)
  BY <1>2 DEF History!HistoryInv, History!TypeOK, History!Unknown
<1>5. new \in History!Rows
  <2>1. v1 \in 0 .. Horizon /\ v2 \in 0 .. MaxCounter /\ v4 \in 0 .. Horizon
    BY DEF History!HistoryInv, History!TypeOK
  <2>2. (due = v3) \in BOOLEAN
    OBVIOUS
  <2> QED
    BY <1>4, <2>1, <2>2 DEF History!UsageSample, History!Rows
<1> HIDE DEF new
<1>6. History!SampleInv(new)
  <2>1. CASE due = v3
    BY <1>3, <2>1 DEF History!SampleInv
  <2>2. CASE due = History!Unknown /\ due # v3
    BY <1>3, <2>2 DEF History!SampleInv
  <2>3. CASE History!Lingers /\ due = v5 /\ due # v3
    <3>1. due = v4 /\ v1 <= v4 + 1 /\ (v1 = v4 => v2 = 0)
      BY <2>3 DEF History!Lingers, History!HistoryInv, History!WindowInv
    <3> QED
      BY <1>3, <2>3, <3>1 DEF History!SampleInv
  <2> QED
    BY <1>2, <2>1, <2>2, <2>3
<1>7. History!SampleOfWindow(new)
  <2>1. new.cycle <= v4 /\ ~(new.cycle < v4) /\ new.used <= v2
    BY <1>3
  <2>2. new.current => new.due = v3
    BY <1>3
  <2> QED
    BY <2>1, <2>2 DEF History!SampleOfWindow, History!Apart
<1>8. v8' = {row \in v8 : row.at # v1} \cup {new}
  BY <1>2, <1>3 DEF History!Upsert, new
<1>9. ASSUME NEW row \in v8, row.at # v1
      PROVE  row.at < new.at /\ History!InOrder(row, new)
  <2>1. /\ row.at \in Nat /\ row.at <= v1 /\ row.cycle \in Nat /\ row.used \in Nat
        /\ History!SampleOfWindow(row)
    BY RowFields DEF History!HistoryInv
  <2>2. row.at < new.at
    BY <1>3, <1>9, <2>1
  <2>3. row.cycle <= new.cycle /\ History!Apart(row, new.cycle)
    BY <1>3, <2>1 DEF History!SampleOfWindow
  <2>4. ASSUME row.cycle = new.cycle
        PROVE  /\ row.used <= new.used
               /\ row.current /\ row.used > 0 => row.due > new.at
    BY <1>3, <2>1, <2>4 DEF History!SampleOfWindow
  <2> QED
    BY <2>2, <2>3, <2>4 DEF History!InOrder
<1>10. History!TypeOK'
  <2>1. v8' \subseteq History!Rows
    BY <1>5, <1>8 DEF History!HistoryInv, History!TypeOK
  <2>2. v9' \in 0 .. MaxUpheavals
    BY <1>1 DEF History!HistoryInv, History!TypeOK, History!HistoryConstants
  <2> QED
    BY <1>1, <2>1, <2>2 DEF History!HistoryInv, History!TypeOK
<1>11. History!WindowInv'
  BY <1>1 DEF History!HistoryInv, History!WindowInv
<1>12. SamplesInv'
  <2>1. ASSUME NEW row \in v8'
        PROVE  History!SampleInv(row)' /\ History!SampleOfWindow(row)'
    <3>1. History!SampleInv(row) /\ History!SampleOfWindow(row)
      BY <1>6, <1>7, <1>8 DEF History!HistoryInv
    <3> QED
      BY <1>1, <3>1 DEF History!SampleInv, History!SampleOfWindow, History!Apart
  <2>2. ASSUME NEW row \in v8', NEW other \in v8'
        PROVE  /\ row.at = other.at => row = other
               /\ row.at < other.at => History!InOrder(row, other)'
    <3>1. CASE other = new
      <4>1. row.at = other.at => row = other
        BY <1>8, <1>3, <3>1
      <4>2. row.at < other.at => History!InOrder(row, other)
        <5>1. ~(new.at < new.at)
          BY <1>3
        <5> QED
          BY <1>8, <1>9, <3>1, <5>1
      <4> QED
        BY <1>1, <4>1, <4>2 DEF History!InOrder, History!Apart
    <3>2. CASE other # new /\ row = new
      <4>1. other \in v8 /\ other.at # v1
        BY <1>8, <3>2
      <4>2. other.at < new.at /\ other.at \in Nat /\ new.at \in Nat
        BY <1>3, <1>9, <4>1, RowFields
      <4> QED
        BY <3>2, <4>2
    <3>3. CASE other # new /\ row # new
      <4>1. row \in v8 /\ other \in v8
        BY <1>8, <3>3
      <4>2. /\ row.at = other.at => row = other
            /\ row.at < other.at => History!InOrder(row, other)
        BY <4>1 DEF History!HistoryInv
      <4> QED
        BY <1>1, <4>2 DEF History!InOrder, History!Apart
    <3> QED
      BY <3>1, <3>2, <3>3
  <2> QED
    BY <2>1, <2>2 DEF SamplesInv
<1> QED
  BY <1>10, <1>11, <1>12 DEF History!HistoryInv, SamplesInv

\* What touches only the database, or removes samples.
LEMMA DatabaseKeeps ==
  ASSUME History!HistoryConstants, History!HistoryInv, UNCHANGED History!world,
         v8' \in SUBSET v8,
         v7' \in {"none", "empty", "half", "ready"},
         v8' # {} => v7' = "ready",
         v9' \in 0 .. MaxUpheavals
  PROVE  History!HistoryInv'
<1>1. UNCHANGED <<v1, v2, v3, v4, v5, v6>>
  BY DEF History!world
<1>2. History!TypeOK'
  BY <1>1 DEF History!HistoryInv, History!TypeOK
<1>3. History!WindowInv'
  BY <1>1 DEF History!HistoryInv, History!WindowInv
<1>4. SamplesInv'
  <2>1. \A row \in v8 : History!SampleOfWindow(row) => History!SampleOfWindow(row)'
    BY <1>1 DEF History!SampleOfWindow, History!Apart
  <2>2. v1' \in Nat /\ v1' >= v1
    BY <1>1, WindowFields
  <2> QED
    BY <1>1, <2>1, <2>2, SamplesKeep
<1> QED
  BY <1>2, <1>3, <1>4 DEF History!HistoryInv, SamplesInv

LEMMA HistoryInvPreserved ==
  ASSUME History!HistoryConstants, History!HistoryInv, [History!Next]_(History!vars)
  PROVE  History!HistoryInv'
<1>1. /\ v7 \in {"none", "empty", "half", "ready"}
      /\ v8 # {} => v7 = "ready"
      /\ v9 \in 0 .. MaxUpheavals /\ MaxUpheavals \in Nat
  BY DEF History!HistoryInv, History!TypeOK, History!HistoryConstants
<1>2. CASE History!TimePasses
  BY <1>2, HistoryTimePasses
<1>3. CASE History!CounterRises
  BY <1>3, CounterRisesKeeps
<1>4. CASE History!ResetSlides
  BY <1>4, ResetSlidesKeeps
<1>5. CASE History!EarlyReset
  BY <1>5, EarlyResetKeeps
<1>6. CASE History!Record
  BY <1>6, RecordKeeps
<1>7. CASE History!RecordFails
  <2>1. /\ UNCHANGED History!world /\ v8' = v8 /\ v9' = v9
        /\ v7' = v7 \/ v7' = "ready"
    BY <1>7 DEF History!RecordFails
  <2> QED
    BY <1>1, <2>1, DatabaseKeeps
<1>8. CASE History!CrashWhileCreating
  <2>1. /\ UNCHANGED History!world /\ v8' = v8
        /\ v7 \in {"none", "empty"} /\ v7' \in {"empty", "half"}
        /\ v9 < MaxUpheavals /\ v9' = v9 + 1
    BY <1>8 DEF History!CrashWhileCreating
  <2>2. v8 = {}
    BY <1>1, <2>1
  <2>3. v9' \in 0 .. MaxUpheavals
    BY <1>1, <2>1
  <2> QED
    BY <2>1, <2>2, <2>3, DatabaseKeeps
<1>9. CASE History!Prune
  <2>1. /\ UNCHANGED History!world /\ v8' \in SUBSET v8
        /\ v7 = "ready" /\ v7' = v7 /\ v9' = v9
    BY <1>9 DEF History!Prune
  <2> QED
    BY <1>1, <2>1, DatabaseKeeps
<1>10. CASE UNCHANGED History!vars
  <2>1. UNCHANGED History!world /\ v8' = v8 /\ v9' = v9 /\ v7' = v7
    BY <1>10 DEF History!vars, History!world
  <2> QED
    BY <1>1, <2>1, DatabaseKeeps
<1> QED
  BY <1>2, <1>3, <1>4, <1>5, <1>6, <1>7, <1>8, <1>9, <1>10 DEF History!Next

-----------------------------------------------------------------------------
(***************************************************************************)
(* The behaviours of MCUsage.                                              *)
(***************************************************************************)

\* A part begins as its own module says, ...
LEMMA PartInits ==
  /\ UsageInit /\ part = "values" => Values!Init
  /\ UsageInit /\ part = "history" => History!Init
  BY DEF UsageInit

\* ... and goes on so.
LEMMA PartMoves ==
  ASSUME [UsageNext]_<<part, vars, places>>
  PROVE  /\ part' = part
         /\ part = "values" => [Values!Next]_(Values!vars)
         /\ part = "history" => [History!Next]_(History!vars)
<1>1. CASE UsageNext
  BY <1>1 DEF UsageNext
<1>2. CASE UNCHANGED <<part, vars, places>>
  BY <1>2 DEF places, Values!vars, History!vars
<1> QED
  BY <1>1, <1>2

\* No value that a reader is shown is older than the time that is given for it, has
\* expired, or is of another login.
THEOREM ShownIsDatedHolds == UsageSpec => []ShownIsDated
<1> DEFINE PartInv == part = "values" => Values!ValuesInv
<1>1. UsageInit => PartInv
  BY ValuesAssumption, PartInits, ValuesInvInit
<1>2. PartInv /\ [UsageNext]_<<part, vars, places>> => PartInv'
  BY ValuesAssumption, PartMoves, ValuesInvPreserved
<1>3. PartInv => ShownIsDated
  BY ValuesAssumption, ValuesInvShown DEF ShownIsDated
<1> QED
  BY <1>1, <1>2, <1>3, PTL DEF UsageSpec

\* The consumption that is reported is what was used in the present cycle, and the
\* evidence of a projection is of one cycle.
THEOREM ConsumptionIsTrueHolds == UsageSpec => []ConsumptionIsTrue
<1> DEFINE PartInv == part = "history" => History!HistoryInv
<1>1. UsageInit => PartInv
  BY HistoryAssumption, PartInits, HistoryInvInit
<1>2. PartInv /\ [UsageNext]_<<part, vars, places>> => PartInv'
  BY HistoryAssumption, PartMoves, HistoryInvPreserved
<1>3. PartInv => ConsumptionIsTrue
  BY HistoryAssumption, HistoryInvTrue DEF ConsumptionIsTrue
<1> QED
  BY <1>1, <1>2, <1>3, PTL DEF UsageSpec

\* The values of the stores, of the usages under way, of the window and of the samples
\* are what their types say.
THEOREM PartsTypeOKHolds == UsageSpec => []PartsTypeOK
<1> DEFINE PartInv == /\ part = "values" => Values!ValuesInv
                      /\ part = "history" => History!HistoryInv
<1>1. UsageInit => PartInv
  BY ValuesAssumption, HistoryAssumption, PartInits, ValuesInvInit, HistoryInvInit
<1>2. PartInv /\ [UsageNext]_<<part, vars, places>> => PartInv'
  BY ValuesAssumption, HistoryAssumption, PartMoves, ValuesInvPreserved,
     HistoryInvPreserved
<1>3. PartInv => PartsTypeOK
  BY DEF Values!ValuesInv, History!HistoryInv, PartsTypeOK
<1> QED
  BY <1>1, <1>2, <1>3, PTL DEF UsageSpec

=============================================================================
