---------------------------- MODULE OutlineProofs ----------------------------
(***************************************************************************)
(* Proofs about Outline, for any set of texts: the loop of resolveParents  *)
(* finds with its map the parents TodoTables defines without one, a call   *)
(* is refused exactly for a fault of its text, and an accepted text keeps  *)
(* all its tasks.  The argument: at each depth the map holds the item that *)
(* no shallower one has closed, and item number n is the n-th task line.   *)
(***************************************************************************)
EXTENDS Outline, SequenceTheorems, FiniteSetTheorems, WellFoundedInduction, TLAPS

Parsed == [depth : Nat, status : Statuses, content : {"", "text", "bad"}]

NoMap == [d \in {} |-> NoTodo]

(* Items at depth d among the first n, still open to children. *)
Open(n, d) == {j \in 1 .. n : items[j].depth = d /\ \A k \in j + 1 .. n : items[k].depth > d}

MapIsCurrent ==
    \A d \in Nat :
       /\ d \in DOMAIN lastByDepth => lastByDepth[d] \in Open(Len(parents), d)
       /\ \A j \in Open(Len(parents), d) : d \in DOMAIN lastByDepth /\ lastByDepth[d] = j

TasksTo(k) == {j \in 1 .. k : IsTask(text[j])}

Rank(k) == Cardinality(TasksTo(k))

ItemsAreTasks ==
    /\ Len(items) = Rank(pos - 1)
    /\ \A k \in 1 .. pos - 1 : IsTask(text[k]) =>
          /\ IndentValid(text[k])
          /\ Rank(k) \in DOMAIN items
          /\ items[Rank(k)] = ItemOf(text[k])
    /\ \A i \in DOMAIN items :
          \E k \in 1 .. pos - 1 : IsTask(text[k]) /\ items[i] = ItemOf(text[k])

(* What is known of the locals at each point of the call. *)
Phases ==
    /\ stage = "idle" => pos = 1 /\ items = << >>
    /\ stage \in {"idle", "lines"} => parents = << >> /\ lastByDepth = NoMap
    /\ stage \in {"parents", "accepted"} =>
          /\ pos = Len(text) + 1
          /\ items # << >>
          /\ \A i \in DOMAIN items : items[i].content = "text"
    /\ stage = "accepted" => Len(parents) = Len(items)

OutlineIInv == /\ OutlineTypeOK
               /\ Phases
               /\ MapIsCurrent
               /\ LoopFindsAnchors
               /\ ItemsAreTasks
               /\ RefusedForCause

-----------------------------------------------------------------------------
(* A nonempty set of numbers up to n has a greatest one. *)
LEMMA Greatest ==
  ASSUME NEW n \in Nat, NEW T \in SUBSET (1 .. n), T # {}
  PROVE  \E m \in T : \A k \in T : k <= m
  <1> DEFINE R == OpToRel(<, Nat)
             D == {n - k : k \in T}
  <1>1. IsWellFoundedOn(R, Nat)
    BY NatLessThanWellFounded
  <1>2. D \in SUBSET Nat /\ D # {}
    <2>1. PICK t \in T : TRUE
      OBVIOUS
    <2>2. n - t \in D
      BY <2>1
    <2>3. \A k \in T : n - k \in Nat
      OBVIOUS
    <2>4. \A x \in D : x \in Nat
      BY <2>3
    <2> HIDE DEF D
    <2> QED
      BY <2>2, <2>4
  <1>3. \E m \in D : \A k \in D : <<k, m>> \notin R
    BY <1>1, <1>2, WFMin, Zenon
  <1>4. \A k, m \in Nat : k < m => <<k, m>> \in R
    BY DEF OpToRel
  <1> HIDE DEF R
  <1>5. PICK m \in D : \A k \in D : ~ (k < m)
    BY <1>2, <1>3, <1>4
  <1>6. PICK g \in T : m = n - g
    BY <1>5
  <1>7. \A k \in T : n - k \in D /\ k \in Int
    OBVIOUS
  <1> HIDE DEF D
  <1>8. \A k \in T : k <= g
    BY <1>5, <1>6, <1>7
  <1> QED
    BY <1>8

LEMMA NormalizedText ==
  ASSUME NEW input \in Seq(Line)
  PROVE  Normalize(input) \in Seq(Line)
  <1> DEFINE full == {i \in DOMAIN input : ~ Blank(input[i])}
             last == CHOOSE i \in full : \A j \in full : j <= i
             kept == SubSeq(input, 1, last)
             line == [kept[last] EXCEPT !.rest = IF @ = "blanks" THEN "none" ELSE @]
  <1>1. CASE full = {}
    BY <1>1, EmptySeq DEF Normalize
  <1>2. CASE full # {}
    <2>1. DOMAIN input = 1 .. Len(input) /\ Len(input) \in Nat
      BY LenProperties
    <2>2. \E i \in full : \A j \in full : j <= i
      BY <1>2, <2>1, Greatest
    <2>3. last \in full
      BY <2>2
    <2>4. last \in 1 .. Len(input)
      BY <2>1, <2>3
    <2> HIDE DEF last
    <2>5. \A i \in 1 .. last : input[i] \in Line
      BY <2>1, <2>4, ElementOfSeq
    <2>6. kept \in Seq(Line) /\ Len(kept) = last
      BY <2>1, <2>4, <2>5, SubSeqProperties
    <2>7. last \in 1 .. Len(kept)
      BY <2>4, <2>6
    <2>8. kept[last] \in Line
      BY <2>6, <2>7, ElementOfSeq
    <2> HIDE DEF kept
    <2>9. line \in Line
      BY <2>8 DEF Line
    <2>10. [kept EXCEPT ![last] = line] \in Seq(Line)
      BY <2>6, <2>7, <2>9, ExceptSeq
    <2>11. Normalize(input) = [kept EXCEPT ![last] = line]
      BY <1>2 DEF Normalize, last, kept
    <2> QED
      BY <2>10, <2>11
  <1> QED
    BY <1>1, <1>2

-----------------------------------------------------------------------------
(* Tasks and their ranks.                                                  *)

LEMMA Ranks ==
  ASSUME NEW k \in Nat
  PROVE  /\ Rank(k) \in Nat
         /\ Rank(0) = 0
         /\ Rank(k + 1) = Rank(k) + IF IsTask(text[k + 1]) THEN 1 ELSE 0
         /\ \A j \in 1 .. k : Rank(j) <= Rank(k) /\ (IsTask(text[j]) => Rank(j) >= 1)
  <1>1. \A n \in Nat : IsFiniteSet(TasksTo(n))
    <2>1. \A n \in Nat : IsFiniteSet(1 .. n) /\ TasksTo(n) \subseteq 1 .. n
      BY FS_Interval DEF TasksTo
    <2> QED
      BY <2>1, FS_Subset
  <1>2. \A n \in Nat : Rank(n) \in Nat
    BY <1>1, FS_CardinalityType DEF Rank
  <1>3. Rank(0) = 0
    <2>1. TasksTo(0) = {}
      BY DEF TasksTo
    <2> QED
      BY <2>1, FS_EmptySet DEF Rank
  <1>4. Rank(k + 1) = Rank(k) + IF IsTask(text[k + 1]) THEN 1 ELSE 0
    <2>1. CASE IsTask(text[k + 1])
      <3>1. TasksTo(k + 1) = TasksTo(k) \cup {k + 1} /\ k + 1 \notin TasksTo(k)
        BY <2>1 DEF TasksTo
      <3> QED
        BY <1>1, <2>1, <3>1, FS_AddElement DEF Rank
    <2>2. CASE ~ IsTask(text[k + 1])
      <3>1. TasksTo(k + 1) = TasksTo(k)
        BY <2>2 DEF TasksTo
      <3> QED
        BY <1>2, <2>2, <3>1 DEF Rank
    <2> QED
      BY <2>1, <2>2
  <1>5. ASSUME NEW j \in 1 .. k
        PROVE  Rank(j) <= Rank(k) /\ (IsTask(text[j]) => Rank(j) >= 1)
    <2>1. TasksTo(j) \subseteq TasksTo(k)
      BY DEF TasksTo
    <2>2. Rank(j) <= Rank(k)
      BY <1>1, <2>1, FS_Subset DEF Rank
    <2>3. ASSUME IsTask(text[j]) PROVE Rank(j) >= 1
      <3>1. j \in TasksTo(j) /\ j \in Nat
        BY <2>3 DEF TasksTo
      <3>2. Rank(j) # 0
        BY <1>1, <3>1, FS_EmptySet DEF Rank
      <3> QED
        BY <1>2, <3>1, <3>2
    <2> QED
      BY <2>2, <2>3
  <1> QED
    BY <1>2, <1>3, <1>4, <1>5

(* What a step that leaves the text alone leaves alone with it. *)
LEMMA SameText ==
  ASSUME text' = text
  PROVE  /\ \A k : IsTask(text[k])' <=> IsTask(text[k])
         /\ \A k : IndentValid(text[k])' <=> IndentValid(text[k])
         /\ \A k : ItemOf(text[k])' = ItemOf(text[k])
         /\ \A k : Faulty(k)' <=> Faulty(k)
         /\ \A k : Rank(k)' = Rank(k)
  <1>1. Detect' = Detect
    BY DEF Detect, LooksLikeTask
  <1>2. \A k : IsTask(text[k])' <=> IsTask(text[k])
    BY <1>1 DEF IsTask
  <1>3. \A k : IndentValid(text[k])' <=> IndentValid(text[k])
    BY <1>1 DEF IndentValid
  <1>4. \A k : ItemOf(text[k])' = ItemOf(text[k])
    BY <1>1 DEF ItemOf
  <1>5. \A k : Faulty(k)' <=> Faulty(k)
    BY <1>2 DEF Faulty
  <1>6. \A k : Rank(k)' = Rank(k)
    BY <1>2 DEF Rank, TasksTo
  <1> QED
    BY <1>2, <1>3, <1>4, <1>5, <1>6

(* A line the checklist pattern matches makes the text a checklist, in which *)
(* only such lines are tasks.                                                *)
LEMMA Checklist ==
  ASSUME NEW k \in DOMAIN text, text[k] \in Line
  PROVE  /\ MatchesLine(text[k]) => Detect = "markdown" /\ IsTask(text[k])
         /\ Detect \in {"markdown", "text"}
         /\ Detect = "markdown" /\ IsTask(text[k]) => MatchesLine(text[k])
         /\ Detect = "text" => text[k].mark = NoMark \/ text[k].rest = "none"
  BY DEF MatchesLine, Detect, LooksLikeTask, IsTask, Blank

(* A task line gives an item of the right type, for whose content it answers. *)
LEMMA TaskLine ==
  ASSUME NEW k \in DOMAIN text, text[k] \in Line, IsTask(text[k])
  PROVE  /\ ItemOf(text[k]) \in Parsed
         /\ ItemOf(text[k]).content = TrimmedContent(text[k])
         /\ Faulty(k) <=> ~ IndentValid(text[k]) \/ TrimmedContent(text[k]) # "text"
         /\ Detect = "markdown" /\ IndentValid(text[k]) => TaskOf(text[k], ItemOf(text[k]))
  <1>1. TrimmedContent(text[k]) \in {"", "text", "bad"}
    BY DEF TrimmedContent
  <1>2. text[k].indent \in Nat /\ text[k].mark \in DOMAIN StatusOfMark \cup {NoMark}
    BY DEF Line
  <1>3. Detect = "markdown" => MatchesLine(text[k])
    BY Checklist
  <1>4. text[k].mark # NoMark => StatusOfMark[text[k].mark] \in Statuses
    BY <1>2, TextsAssumption
  <1>5. "pending" \in Statuses
    BY TextsAssumption DEF StatusOfMark
  <1>6. ItemOf(text[k]) \in Parsed
    <2>1. CASE Detect = "markdown"
      <3>1. text[k].indent \div 2 \in Nat
        BY <1>2
      <3>2. StatusOfMark[text[k].mark] \in Statuses
        BY <1>3, <1>4, <2>1 DEF MatchesLine
      <3> QED
        BY <1>1, <2>1, <3>1, <3>2 DEF ItemOf, Parsed
    <2>2. CASE Detect # "markdown"
      BY <1>1, <1>5, <2>2 DEF ItemOf, Parsed
    <2> QED
      BY <2>1, <2>2
  <1>7. ItemOf(text[k]).content = TrimmedContent(text[k])
    BY DEF ItemOf
  <1>8. Faulty(k) <=> ~ IndentValid(text[k]) \/ TrimmedContent(text[k]) # "text"
    <2>1. text[k].rest \in {"none", "blanks", "text", "bad"}
      BY DEF Line
    <2>2. TrimmedContent(text[k]) # "text" <=> text[k].rest \in {"blanks", "bad"}
      BY <2>1 DEF TrimmedContent
    <2>3. CASE Detect = "markdown"
      BY <1>3, <2>1, <2>2, <2>3 DEF Faulty, IndentValid
    <2>4. CASE Detect = "text"
      <3>1. ~ MatchesLine(text[k])
        BY <2>4, Checklist
      <3>2. text[k].rest # "blanks"
        BY <2>4, Checklist DEF IsTask, Blank
      <3> QED
        BY <2>1, <2>2, <2>4, <3>1, <3>2 DEF Faulty, IndentValid
    <2> QED
      BY <2>3, <2>4, Checklist
  <1>9. Detect = "markdown" /\ IndentValid(text[k]) => TaskOf(text[k], ItemOf(text[k]))
    BY <1>2 DEF IndentValid, TaskOf, ItemOf
  <1> QED
    BY <1>6, <1>7, <1>8, <1>9

-----------------------------------------------------------------------------
(* The invariant.                                                          *)

LEMMA TypeFacts ==
  ASSUME OutlineTypeOK
  PROVE  /\ Len(text) \in Nat /\ DOMAIN text = 1 .. Len(text)
         /\ \A k \in DOMAIN text : text[k] \in Line
         /\ Len(items) \in Nat /\ DOMAIN items = 1 .. Len(items)
         /\ \A i \in DOMAIN items : items[i] \in Parsed
         /\ \A i \in DOMAIN items : items[i].depth \in Nat
         /\ Len(parents) \in Nat /\ DOMAIN parents = 1 .. Len(parents)
         /\ pos \in Nat /\ pos >= 1 /\ pos <= Len(text) + 1
  <1>1. text \in Seq(Line) /\ items \in Seq(Parsed) /\ parents \in Seq(0 .. Len(items))
    BY DEF OutlineTypeOK, Parsed
  <1>2. Len(text) \in Nat /\ DOMAIN text = 1 .. Len(text) /\ \A k \in DOMAIN text : text[k] \in Line
    BY <1>1, LenProperties, ElementOfSeq
  <1>3. Len(items) \in Nat /\ DOMAIN items = 1 .. Len(items) /\ \A i \in DOMAIN items : items[i] \in Parsed
    BY <1>1, LenProperties, ElementOfSeq
  <1>4. Len(parents) \in Nat /\ DOMAIN parents = 1 .. Len(parents)
    BY <1>1, LenProperties
  <1>5. \A i \in DOMAIN items : items[i].depth \in Nat
    BY <1>3 DEF Parsed
  <1>6. pos \in Nat /\ pos >= 1 /\ pos <= Len(text) + 1
    <2>1. pos \in 1 .. Len(text) + 1
      BY Zenon DEF OutlineTypeOK
    <2> QED
      BY <1>2, <2>1
  <1> QED
    BY <1>2, <1>3, <1>4, <1>5, <1>6

LEMMA OutlineInitInv == OutlineInit => OutlineIInv
  <1> SUFFICES ASSUME OutlineInit PROVE OutlineIInv
    OBVIOUS
  <1> USE DEF OutlineInit
  <1>1. OutlineTypeOK
    BY EmptySeq DEF OutlineTypeOK
  <1>2. Phases
    BY DEF Phases, NoMap
  <1>3. MapIsCurrent
    BY DEF MapIsCurrent, Open
  <1>4. LoopFindsAnchors
    BY DEF LoopFindsAnchors
  <1>5. ItemsAreTasks
    BY Ranks DEF ItemsAreTasks
  <1>6. RefusedForCause
    BY DEF RefusedForCause
  <1> QED
    BY <1>1, <1>2, <1>3, <1>4, <1>5, <1>6 DEF OutlineIInv

(* Before the first parent is looked for, the map and the parents are empty. *)
LEMMA NoParentsYet ==
  ASSUME parents' = << >>, lastByDepth' = NoMap
  PROVE  MapIsCurrent' /\ LoopFindsAnchors'
  BY DEF MapIsCurrent, Open, LoopFindsAnchors, NoMap

(* The end of a call leaves its initial state. *)
LEMMA ForgetInv == Forget => OutlineIInv'
  <1> SUFFICES ASSUME Forget PROVE OutlineIInv'
    OBVIOUS
  <1> USE DEF Forget
  <1>1. OutlineTypeOK'
    BY EmptySeq DEF OutlineTypeOK
  <1>2. Phases'
    BY DEF Phases, NoMap
  <1>3. MapIsCurrent' /\ LoopFindsAnchors'
    BY NoParentsYet DEF NoMap
  <1>4. ItemsAreTasks'
    <2>1. Rank(0)' = 0
      <3>1. TasksTo(0)' = {}
        BY DEF TasksTo
      <3> QED
        BY <3>1, FS_EmptySet DEF Rank
    <2> QED
      BY <2>1 DEF ItemsAreTasks
  <1>5. RefusedForCause'
    BY DEF RefusedForCause
  <1> QED
    BY <1>1, <1>2, <1>3, <1>4, <1>5 DEF OutlineIInv

LEMMA SubmitInv ==
  ASSUME OutlineIInv, NEW input \in Texts, Submit(input)
  PROVE  OutlineIInv'
  <1> USE DEF OutlineIInv, Submit
  <1>1. text' \in Seq(Line)
    BY NormalizedText, TextsAssumption
  <1>2. pos = 1 /\ items = << >> /\ parents = << >> /\ lastByDepth = NoMap
    BY DEF Phases
  <1>3. OutlineTypeOK'
    BY <1>1, <1>2, LenProperties DEF OutlineTypeOK
  <1>4. Phases'
    BY <1>2 DEF Phases
  <1>5. MapIsCurrent' /\ LoopFindsAnchors'
    BY <1>2, NoParentsYet
  <1>6. ItemsAreTasks'
    <2>1. Rank(0)' = 0
      <3>1. TasksTo(0)' = {}
        BY DEF TasksTo
      <3> QED
        BY <3>1, FS_EmptySet DEF Rank
    <2> QED
      BY <1>2, <2>1 DEF ItemsAreTasks
  <1>7. RefusedForCause'
    BY DEF RefusedForCause
  <1> QED
    BY <1>3, <1>4, <1>5, <1>6, <1>7

LEMMA SkipLineInv ==
  ASSUME OutlineIInv, SkipLine
  PROVE  OutlineIInv'
  <1> USE DEF SkipLine, AtLine
  <1>1. OutlineTypeOK /\ Phases /\ ItemsAreTasks /\ RefusedForCause
    BY DEF OutlineIInv
  <1>2. Len(text) \in Nat /\ pos \in Nat /\ pos >= 1
    BY <1>1, TypeFacts
  <1>3. pos' \in 1 .. Len(text') + 1
    BY <1>2
  <1>4. OutlineTypeOK'
    BY <1>1, <1>3, Zenon DEF OutlineTypeOK
  <1>5. Phases'
    BY <1>1 DEF Phases
  <1>6. MapIsCurrent' /\ LoopFindsAnchors'
    BY <1>1, NoParentsYet DEF Phases
  <1>7. ItemsAreTasks'
    <2>1. Rank(pos) = Rank(pos - 1)
      BY <1>2, Ranks
    <2>2. pos' - 1 = pos /\ 1 .. pos' - 1 = 1 .. pos - 1 \cup {pos}
      BY <1>2
    <2> QED
      BY <1>1, <2>1, <2>2, SameText DEF ItemsAreTasks
  <1>8. RefusedForCause'
    BY DEF RefusedForCause
  <1> QED
    BY <1>4, <1>5, <1>6, <1>7, <1>8 DEF OutlineIInv

LEMMA TakeLineInv ==
  ASSUME OutlineIInv, TakeLine
  PROVE  OutlineIInv'
  <1> USE DEF TakeLine, AtLine
  <1>1. OutlineTypeOK /\ Phases /\ ItemsAreTasks /\ RefusedForCause
    BY DEF OutlineIInv
  <1>2. /\ Len(text) \in Nat /\ pos \in Nat /\ pos >= 1
        /\ pos \in DOMAIN text /\ text[pos] \in Line
        /\ Len(items) \in Nat /\ DOMAIN items = 1 .. Len(items)
    BY <1>1, TypeFacts
  <1>3. pos' \in 1 .. Len(text') + 1
    BY <1>2
  <1>4. ItemOf(text[pos]) \in Parsed
    BY <1>2, TaskLine
  <1>5. /\ items' \in Seq(Parsed) /\ Len(items') = Len(items) + 1
        /\ DOMAIN items' = 1 .. Len(items) + 1
        /\ \A i \in 1 .. Len(items) : items'[i] = items[i]
        /\ items'[Len(items) + 1] = ItemOf(text[pos])
    <2>1. items \in Seq(Parsed)
      BY <1>1 DEF OutlineTypeOK, Parsed
    <2> QED
      BY <1>4, <2>1, AppendProperties, LenProperties
  <1>6. parents' = << >> /\ lastByDepth' = NoMap
    BY <1>1 DEF Phases
  <1>7. OutlineTypeOK'
    <2>1. items' \in Seq([depth : Nat, status : Statuses, content : {"", "text", "bad"}])
      BY <1>5 DEF Parsed
    <2>2. parents' \in Seq(0 .. Len(items')) /\ Len(parents') <= Len(items')
      BY <1>2, <1>5, <1>6, EmptySeq
    <2>3. \A d \in DOMAIN lastByDepth' : d \in Nat /\ lastByDepth'[d] \in DOMAIN items'
      BY <1>6 DEF NoMap
    <2> QED
      BY <1>1, <1>3, <2>1, <2>2, <2>3, Zenon DEF OutlineTypeOK
  <1>8. Phases'
    BY <1>1 DEF Phases
  <1>9. MapIsCurrent' /\ LoopFindsAnchors'
    BY <1>6, NoParentsYet
  <1>10. ItemsAreTasks'
    <2>1. Rank(pos) = Len(items) + 1
      <3>1. Rank((pos - 1) + 1) = Rank(pos - 1) + 1
        BY <1>2, Ranks
      <3> QED
        BY <1>1, <1>2, <3>1 DEF ItemsAreTasks
    <2>2. pos' - 1 = pos /\ 1 .. pos' - 1 = 1 .. pos - 1 \cup {pos}
      BY <1>2
    <2>3. Len(items') = Rank(pos' - 1)
      BY <1>5, <2>1, <2>2
    <2>4. ASSUME NEW k \in 1 .. pos' - 1, IsTask(text[k])
          PROVE  /\ IndentValid(text[k])
                 /\ Rank(k) \in DOMAIN items'
                 /\ items'[Rank(k)] = ItemOf(text[k])
      <3>1. CASE k = pos
        BY <1>2, <1>5, <2>1, <3>1
      <3>2. CASE k \in 1 .. pos - 1
        <4>1. /\ IndentValid(text[k]) /\ Rank(k) \in DOMAIN items
              /\ items[Rank(k)] = ItemOf(text[k])
          BY <1>1, <2>4, <3>2 DEF ItemsAreTasks
        <4> QED
          BY <1>2, <1>5, <4>1
      <3> QED
        BY <2>2, <3>1, <3>2
    <2>5. ASSUME NEW i \in DOMAIN items'
          PROVE  \E k \in 1 .. pos' - 1 : IsTask(text[k]) /\ items'[i] = ItemOf(text[k])
      <3>1. CASE i = Len(items) + 1
        BY <1>2, <1>5, <2>2, <3>1
      <3>2. CASE i \in DOMAIN items
        BY <1>1, <1>2, <1>5, <2>2, <3>2 DEF ItemsAreTasks
      <3> QED
        BY <1>2, <1>5, <3>1, <3>2
    <2>6. /\ \A k : IsTask(text[k])' <=> IsTask(text[k])
          /\ \A k : IndentValid(text[k])' <=> IndentValid(text[k])
          /\ \A k : ItemOf(text[k])' = ItemOf(text[k])
          /\ \A k : Rank(k)' = Rank(k)
      BY SameText
    <2> HIDE DEF TakeLine, AtLine
    <2> QED
      BY <2>3, <2>4, <2>5, <2>6, Zenon DEF ItemsAreTasks
  <1>11. RefusedForCause'
    BY DEF RefusedForCause
  <1> QED
    BY <1>7, <1>8, <1>9, <1>10, <1>11 DEF OutlineIInv

LEMMA OddIndentInv ==
  ASSUME OutlineIInv, OddIndent
  PROVE  OutlineIInv'
  <1> USE DEF OddIndent, AtLine
  <1>1. OutlineTypeOK /\ Phases /\ ItemsAreTasks
    BY DEF OutlineIInv
  <1>2. pos \in DOMAIN text /\ text[pos] \in Line
    BY <1>1, TypeFacts
  <1>3. OutlineTypeOK'
    BY <1>1 DEF OutlineTypeOK
  <1>4. Phases'
    BY DEF Phases
  <1>5. MapIsCurrent' /\ LoopFindsAnchors'
    BY <1>1, NoParentsYet DEF Phases
  <1>6. ItemsAreTasks'
    BY <1>1, SameText DEF ItemsAreTasks
  <1>7. RefusedForCause'
    <2>1. Faulty(pos)
      BY <1>2, TaskLine
    <2>2. \E k \in DOMAIN text' : Faulty(k)'
      BY <1>2, <2>1, SameText
    <2> QED
      BY <2>2 DEF RefusedForCause
  <1> QED
    BY <1>3, <1>4, <1>5, <1>6, <1>7 DEF OutlineIInv

LEMMA EndOfTextInv ==
  ASSUME OutlineIInv, EndOfText
  PROVE  OutlineIInv'
  <1> USE DEF EndOfText
  <1>1. OutlineTypeOK /\ Phases /\ ItemsAreTasks
    BY DEF OutlineIInv
  <1>2. /\ pos = Len(text) + 1 /\ 1 .. pos - 1 = DOMAIN text
        /\ \A k \in DOMAIN text : text[k] \in Line
    BY <1>1, TypeFacts
  <1>3. stage' \in {"parents", "refused"}
    OBVIOUS
  <1>4. OutlineTypeOK'
    BY <1>1, <1>3 DEF OutlineTypeOK
  <1>5. Phases'
    BY <1>2, <1>3 DEF Phases
  <1>6. MapIsCurrent' /\ LoopFindsAnchors'
    BY <1>1, NoParentsYet DEF Phases
  <1>7. ItemsAreTasks'
    BY <1>1, SameText DEF ItemsAreTasks
  <1>8. RefusedForCause'
    <2>1. CASE stage' = "parents"
      BY <2>1 DEF RefusedForCause
    <2>2. CASE items = << >>
      <3>1. \A k \in DOMAIN text : ~ IsTask(text[k])
        BY <1>1, <1>2, <2>2 DEF ItemsAreTasks
      <3> QED
        BY <2>2, <3>1, SameText DEF RefusedForCause
    <2>3. CASE \E i \in DOMAIN items : items[i].content # "text"
      <3>1. PICK i \in DOMAIN items : items[i].content # "text"
        BY <2>3
      <3>2. PICK k \in DOMAIN text : IsTask(text[k]) /\ items[i] = ItemOf(text[k])
        BY <1>1, <1>2 DEF ItemsAreTasks
      <3>3. Faulty(k)
        BY <1>2, <3>1, <3>2, TaskLine
      <3>4. \E l \in DOMAIN text' : Faulty(l)'
        BY <3>3, SameText
      <3> QED
        BY <2>3, <3>4 DEF RefusedForCause
    <2> QED
      BY <2>1, <2>2, <2>3
  <1> QED
    BY <1>4, <1>5, <1>6, <1>7, <1>8 DEF OutlineIInv

(* The open items one level up are the items an item may hang from, and there *)
(* is at most one: the entry of the map.                                     *)
LEMMA AnchorIsEntry ==
  ASSUME OutlineTypeOK, MapIsCurrent, NEW i \in DOMAIN items, i = Len(parents) + 1,
         items[i].depth > 0
  PROVE  /\ items[i].depth - 1 \in DOMAIN lastByDepth =>
              Anchors(items, i) = {lastByDepth[items[i].depth - 1]}
         /\ items[i].depth - 1 \notin DOMAIN lastByDepth => Anchors(items, i) = {}
  <1> DEFINE up == items[i].depth - 1
  <1>1. /\ up \in Nat /\ Len(parents) \in Nat /\ i \in Nat
        /\ \A j \in 1 .. i : items[j].depth \in Nat
    BY TypeFacts
  <1>2. Anchors(items, i) = Open(Len(parents), up)
    <2>1. i - 1 = Len(parents)
      BY <1>1
    <2>2. \A j \in 1 .. i - 1 : items[j].depth + 1 = items[i].depth <=> items[j].depth = up
      BY <1>1
    <2>3. \A j \in 1 .. i - 1 : \A k \in j + 1 .. i - 1 :
             items[k].depth >= items[i].depth <=> items[k].depth > up
      BY <1>1
    <2> QED
      BY <2>1, <2>2, <2>3 DEF Anchors, Open
  <1>3. /\ up \in DOMAIN lastByDepth => lastByDepth[up] \in Open(Len(parents), up)
        /\ \A j \in Open(Len(parents), up) : up \in DOMAIN lastByDepth /\ lastByDepth[up] = j
    BY <1>1 DEF MapIsCurrent
  <1> HIDE DEF up
  <1>4. /\ up \in DOMAIN lastByDepth => Anchors(items, i) = {lastByDepth[up]}
        /\ up \notin DOMAIN lastByDepth => Anchors(items, i) = {}
    BY <1>2, <1>3
  <1> QED
    BY <1>4 DEF up

(* An item closes the ones at its depth and below, and is open itself. *)
LEMMA NotedIsCurrent ==
  ASSUME OutlineTypeOK, MapIsCurrent, NEW i \in DOMAIN items, i = Len(parents) + 1,
         NEW d \in Nat
  PROVE  /\ d \in DOMAIN Noted(i) => Noted(i)[d] \in Open(i, d)
         /\ \A j \in Open(i, d) : d \in DOMAIN Noted(i) /\ Noted(i)[d] = j
  <1>1. /\ Len(parents) \in Nat /\ i \in Nat /\ i >= 1
        /\ \A j \in 1 .. i : items[j].depth \in Nat
    BY TypeFacts
  <1>2. d \in DOMAIN Noted(i) <=>
          d = items[i].depth \/ (d < items[i].depth /\ d \in DOMAIN lastByDepth)
    BY Zenon DEF Noted
  <1>3. d \in DOMAIN Noted(i) =>
          Noted(i)[d] = IF d = items[i].depth THEN i ELSE lastByDepth[d]
    BY Zenon DEF Noted
  <1>4. CASE d = items[i].depth
    <2>1. Open(i, d) = {i}
      BY <1>1, <1>4 DEF Open
    <2> QED
      BY <1>2, <1>3, <1>4, <2>1
  <1>5. CASE d < items[i].depth
    <2>1. Open(i, d) = Open(Len(parents), d)
      BY <1>1, <1>5 DEF Open
    <2>2. /\ d \in DOMAIN lastByDepth => lastByDepth[d] \in Open(Len(parents), d)
          /\ \A j \in Open(Len(parents), d) : d \in DOMAIN lastByDepth /\ lastByDepth[d] = j
      BY DEF MapIsCurrent
    <2>3. d # items[i].depth
      BY <1>1, <1>5
    <2> QED
      BY <1>2, <1>3, <1>5, <2>1, <2>2, <2>3
  <1>6. CASE d > items[i].depth
    <2>1. Open(i, d) = {}
      BY <1>1, <1>6 DEF Open
    <2>2. d # items[i].depth /\ ~ (d < items[i].depth)
      BY <1>1, <1>6
    <2> QED
      BY <1>2, <2>1, <2>2
  <1> QED
    BY <1>1, <1>4, <1>5, <1>6

LEMMA FindParentInv ==
  ASSUME OutlineIInv, NEW i \in DOMAIN items, FindParent(i)
  PROVE  OutlineIInv'
  <1> DEFINE parent == IF items[i].depth = 0 THEN NoTodo ELSE lastByDepth[items[i].depth - 1]
  <1>1. OutlineTypeOK /\ Phases /\ MapIsCurrent /\ LoopFindsAnchors /\ ItemsAreTasks
    BY DEF OutlineIInv
  <1>2. /\ stage = "parents" /\ stage' = stage /\ i = Len(parents) + 1
        /\ text' = text /\ pos' = pos /\ items' = items
        /\ parents' = Append(parents, parent)
        /\ lastByDepth' = Noted(i)
        /\ items[i].depth = 0 \/ items[i].depth - 1 \in DOMAIN lastByDepth
    BY DEF FindParent, AtItem, HasParent
  <1>3. /\ Len(parents) \in Nat /\ i \in 1 .. Len(items) /\ Len(items) \in Nat
        /\ \A j \in DOMAIN items : items[j].depth \in Nat
        /\ DOMAIN items = 1 .. Len(items) /\ DOMAIN parents = 1 .. Len(parents)
    BY <1>1, TypeFacts
  <1>4. items[i].depth > 0 => Anchors(items, i) = {parent}
    <2> SUFFICES ASSUME items[i].depth > 0 PROVE Anchors(items, i) = {parent}
      OBVIOUS
    <2>1. items[i].depth # 0
      BY <1>3
    <2>2. parent = lastByDepth[items[i].depth - 1] /\ items[i].depth - 1 \in DOMAIN lastByDepth
      BY <1>2, <2>1
    <2> HIDE DEF parent
    <2> QED
      BY <1>1, <1>2, <2>2, AnchorIsEntry
  <1>5. parent \in 0 .. Len(items)
    <2>1. CASE items[i].depth = 0
      BY <1>3, <2>1 DEF NoTodo
    <2>2. CASE items[i].depth # 0
      <3>1. parent = lastByDepth[items[i].depth - 1] /\ items[i].depth - 1 \in DOMAIN lastByDepth
        BY <1>2, <2>2
      <3>2. parent \in DOMAIN items
        BY <1>1, <3>1, Zenon DEF OutlineTypeOK
      <3> HIDE DEF parent
      <3> QED
        BY <1>3, <3>2
    <2> QED
      BY <2>1, <2>2
  <1> HIDE DEF parent
  <1>6. /\ parents' \in Seq(0 .. Len(items)) /\ Len(parents') = i
        /\ DOMAIN parents' = 1 .. i
        /\ \A j \in DOMAIN parents : parents'[j] = parents[j]
        /\ parents'[i] = parent
    <2>1. parents \in Seq(0 .. Len(items))
      BY <1>1 DEF OutlineTypeOK
    <2> QED
      BY <1>2, <1>3, <1>5, <2>1, AppendProperties, LenProperties
  <1>7. \A d \in DOMAIN Noted(i) : d \in Nat /\ Noted(i)[d] \in DOMAIN items
    <2>1. \A d \in DOMAIN lastByDepth : d \in Nat /\ lastByDepth[d] \in DOMAIN items
      BY <1>1, Zenon DEF OutlineTypeOK
    <2>2. items[i].depth \in Nat
      BY <1>3
    <2> QED
      BY <2>1, <2>2, Zenon DEF Noted
  <1>8. OutlineTypeOK'
    <2>1. Len(parents') <= Len(items')
      BY <1>2, <1>3, <1>6
    <2> QED
      BY <1>1, <1>2, <1>6, <1>7, <2>1, Zenon DEF OutlineTypeOK
  <1>9. Phases'
    BY <1>1, <1>2 DEF Phases
  <1>10. MapIsCurrent'
    <2>1. \A d \in Nat :
            /\ d \in DOMAIN Noted(i) => Noted(i)[d] \in Open(i, d)
            /\ \A j \in Open(i, d) : d \in DOMAIN Noted(i) /\ Noted(i)[d] = j
      BY <1>1, <1>2, NotedIsCurrent
    <2>2. \A n, d : Open(n, d)' = Open(n, d)
      BY <1>2 DEF Open
    <2> QED
      BY <1>2, <1>6, <2>1, <2>2 DEF MapIsCurrent
  <1>11. LoopFindsAnchors'
    <2>1. \A j \in DOMAIN parents' :
            /\ items[j].depth > 0 => Anchors(items, j) # {}
            /\ parents'[j] = BatchParent(items, j, NoTodo, 1)
      <3> SUFFICES ASSUME NEW j \in DOMAIN parents'
                   PROVE  /\ items[j].depth > 0 => Anchors(items, j) # {}
                          /\ parents'[j] = BatchParent(items, j, NoTodo, 1)
        OBVIOUS
      <3>1. CASE j = i
        <4>1. CASE items[i].depth = 0
          BY <1>6, <3>1, <4>1 DEF BatchParent, parent
        <4>2. CASE items[i].depth # 0
          <5>1. Anchors(items, i) = {parent}
            BY <1>3, <1>4, <4>2
          <5>2. (CHOOSE a \in Anchors(items, i) : TRUE) = parent
            BY <5>1
          <5>3. 1 - 1 + parent = parent
            BY <1>5
          <5> QED
            BY <1>6, <3>1, <4>2, <5>1, <5>2, <5>3 DEF BatchParent
        <4> QED
          BY <4>1, <4>2
      <3>2. CASE j \in DOMAIN parents
        BY <1>1, <1>6, <3>2 DEF LoopFindsAnchors
      <3> QED
        BY <1>2, <1>3, <1>6, <3>1, <3>2
    <2> QED
      BY <1>2, <2>1 DEF LoopFindsAnchors
  <1>12. ItemsAreTasks'
    BY <1>1, <1>2, SameText DEF ItemsAreTasks
  <1>13. RefusedForCause'
    BY <1>2 DEF RefusedForCause
  <1> QED
    BY <1>8, <1>9, <1>10, <1>11, <1>12, <1>13 DEF OutlineIInv

LEMMA InvalidIndentInv ==
  ASSUME OutlineIInv, NEW i \in DOMAIN items, InvalidIndent(i)
  PROVE  OutlineIInv'
  <1> USE DEF InvalidIndent, AtItem, HasParent
  <1>1. OutlineTypeOK /\ Phases /\ MapIsCurrent /\ LoopFindsAnchors /\ ItemsAreTasks
    BY DEF OutlineIInv
  <1>2. OutlineTypeOK'
    BY <1>1 DEF OutlineTypeOK
  <1>3. Phases'
    BY DEF Phases
  <1>4. MapIsCurrent'
    BY <1>1 DEF MapIsCurrent, Open
  <1>5. items[i].depth > 0 /\ Anchors(items, i) = {}
    <2>1. items[i].depth \in Nat
      BY <1>1, TypeFacts
    <2>2. items[i].depth > 0 /\ items[i].depth - 1 \notin DOMAIN lastByDepth
      BY <2>1
    <2> QED
      BY <1>1, <2>2, AnchorIsEntry
  <1>6. LoopFindsAnchors'
    BY <1>1, <1>5 DEF LoopFindsAnchors
  <1>7. ItemsAreTasks'
    BY <1>1, SameText DEF ItemsAreTasks
  <1>8. RefusedForCause'
    BY <1>5 DEF RefusedForCause, WellIndented
  <1> QED
    BY <1>2, <1>3, <1>4, <1>6, <1>7, <1>8 DEF OutlineIInv

LEMMA ResolvedInv ==
  ASSUME OutlineIInv, Resolved
  PROVE  OutlineIInv'
  <1> USE DEF Resolved
  <1>1. OutlineTypeOK /\ Phases /\ MapIsCurrent /\ LoopFindsAnchors /\ ItemsAreTasks
    BY DEF OutlineIInv
  <1>2. OutlineTypeOK'
    BY <1>1 DEF OutlineTypeOK
  <1>3. Phases'
    BY <1>1 DEF Phases
  <1>4. MapIsCurrent'
    BY <1>1 DEF MapIsCurrent, Open
  <1>5. LoopFindsAnchors'
    BY <1>1 DEF LoopFindsAnchors
  <1>6. ItemsAreTasks'
    BY <1>1, SameText DEF ItemsAreTasks
  <1>7. RefusedForCause'
    <2>1. \A k \in DOMAIN text : ~ Faulty(k)
      <3> SUFFICES ASSUME NEW k \in DOMAIN text, Faulty(k) PROVE FALSE
        OBVIOUS
      <3>1. text[k] \in Line /\ k \in 1 .. pos - 1
        BY <1>1, TypeFacts DEF Phases
      <3>2. IsTask(text[k])
        BY <3>1, Checklist DEF Faulty
      <3>3. /\ IndentValid(text[k]) /\ Rank(k) \in DOMAIN items
            /\ items[Rank(k)] = ItemOf(text[k])
        BY <1>1, <3>1, <3>2 DEF ItemsAreTasks
      <3>4. TrimmedContent(text[k]) = "text"
        BY <1>1, <3>1, <3>2, <3>3, TaskLine DEF Phases
      <3> QED
        BY <3>1, <3>2, <3>3, <3>4, TaskLine
    <2>2. WellIndented(items)
      <3>1. DOMAIN parents = DOMAIN items
        BY <1>1, TypeFacts
      <3> QED
        BY <1>1, <3>1 DEF LoopFindsAnchors, WellIndented
    <2> QED
      BY <2>1, <2>2, SameText DEF RefusedForCause
  <1> QED
    BY <1>2, <1>3, <1>4, <1>5, <1>6, <1>7 DEF OutlineIInv

LEMMA OutlineNextInv == OutlineIInv /\ [OutlineNext]_outlineVars => OutlineIInv'
  <1> SUFFICES ASSUME OutlineIInv, [OutlineNext]_outlineVars PROVE OutlineIInv'
    OBVIOUS
  <1>1. CASE \E input \in Texts : Submit(input)
    BY <1>1, SubmitInv
  <1>2. CASE OutlineStep
    <2>1. CASE \E i \in DOMAIN items : FindParent(i) \/ InvalidIndent(i)
      BY <2>1, FindParentInv, InvalidIndentInv
    <2> QED
      BY <1>2, <2>1, SkipLineInv, TakeLineInv, OddIndentInv, EndOfTextInv, ResolvedInv
      DEF OutlineStep
  <1>3. CASE ReturnRefused \/ ReturnAccepted
    BY <1>3, ForgetInv DEF ReturnRefused, ReturnAccepted
  <1>4. CASE UNCHANGED outlineVars
    <2> USE <1>4 DEF outlineVars
    <2>1. OutlineTypeOK /\ Phases /\ MapIsCurrent /\ LoopFindsAnchors /\ ItemsAreTasks
          /\ RefusedForCause
      BY DEF OutlineIInv
    <2>2. OutlineTypeOK' /\ Phases'
      BY <2>1 DEF OutlineTypeOK, Phases
    <2>3. MapIsCurrent' /\ LoopFindsAnchors'
      BY <2>1 DEF MapIsCurrent, Open, LoopFindsAnchors
    <2>4. ItemsAreTasks' /\ RefusedForCause'
      BY <2>1, SameText DEF ItemsAreTasks, RefusedForCause
    <2> QED
      BY <2>2, <2>3, <2>4 DEF OutlineIInv
  <1> QED
    BY <1>1, <1>2, <1>3, <1>4 DEF OutlineNext

(* An accepted call has made one item of every task line and of nothing else, *)
(* and a text without a line of a checklist was taken line by line.           *)
LEMMA AcceptedIsKept == OutlineIInv => OutlineKept
  <1> DEFINE lists == \E k \in DOMAIN text : MatchesLine(text[k])
             tasks == {k \in DOMAIN text : IF lists THEN MatchesLine(text[k]) ELSE ~ Blank(text[k])}
  <1> SUFFICES ASSUME OutlineIInv, stage = "accepted"
               PROVE  /\ Len(items) = Cardinality(tasks)
                      /\ \A k \in tasks : LET i == Cardinality({j \in tasks : j <= k})
                                          IN lists => TaskOf(text[k], items[i])
                      /\ ~ lists => \A i \in DOMAIN items :
                                      items[i].depth = 0 /\ items[i].status = "pending"
    BY DEF OutlineKept
  <1>1. OutlineTypeOK /\ Phases /\ ItemsAreTasks
    BY DEF OutlineIInv
  <1>2. /\ Len(text) \in Nat /\ DOMAIN text = 1 .. Len(text)
        /\ \A k \in DOMAIN text : text[k] \in Line
        /\ DOMAIN items = 1 .. Len(items) /\ Len(items) \in Nat
    BY <1>1, TypeFacts
  <1>3. pos - 1 = Len(text) /\ items # << >>
    BY <1>1, <1>2 DEF Phases
  <1>4. lists => Detect = "markdown"
    BY <1>2, Checklist
  <1>5. ~ lists => Detect = "text"
    <2> SUFFICES ASSUME ~ lists PROVE Detect = "text"
      OBVIOUS
    <2>1. 1 \in DOMAIN items
      <3>1. items \in Seq(Parsed)
        BY <1>1 DEF OutlineTypeOK, Parsed
      <3>2. Len(items) # 0
        BY <1>3, <3>1, EmptySeq
      <3> QED
        BY <1>2, <3>2
    <2>2. PICK k \in DOMAIN text : IsTask(text[k])
      BY <1>1, <1>2, <1>3, <2>1 DEF ItemsAreTasks
    <2> QED
      BY <1>2, <2>2, Checklist
  <1>6. tasks = TasksTo(Len(text))
    <2>1. \A k \in DOMAIN text :
             IsTask(text[k]) <=> IF lists THEN MatchesLine(text[k]) ELSE ~ Blank(text[k])
      <3> HIDE DEF lists
      <3> QED
        BY <1>4, <1>5 DEF IsTask
    <2> HIDE DEF lists
    <2> QED
      BY <1>2, <2>1 DEF TasksTo
  <1> HIDE DEF lists, tasks
  <1>7. Len(items) = Cardinality(tasks)
    BY <1>1, <1>3, <1>6 DEF ItemsAreTasks, Rank
  <1>8. ASSUME NEW k \in tasks, lists
        PROVE  TaskOf(text[k], items[Cardinality({j \in tasks : j <= k})])
    <2>1. k \in DOMAIN text /\ k \in 1 .. pos - 1 /\ IsTask(text[k])
      BY <1>2, <1>3, <1>6 DEF TasksTo
    <2>2. {j \in tasks : j <= k} = TasksTo(k)
      BY <1>2, <1>6, <2>1 DEF TasksTo
    <2>3. items[Rank(k)] = ItemOf(text[k]) /\ IndentValid(text[k])
      BY <1>1, <2>1 DEF ItemsAreTasks
    <2>4. TaskOf(text[k], ItemOf(text[k]))
      BY <1>2, <1>4, <1>8, <2>1, <2>3, TaskLine
    <2> QED
      BY <2>2, <2>3, <2>4 DEF Rank
  <1>9. ASSUME ~ lists, NEW i \in DOMAIN items
        PROVE  items[i].depth = 0 /\ items[i].status = "pending"
    <2>1. PICK k \in 1 .. pos - 1 : items[i] = ItemOf(text[k])
      BY <1>1 DEF ItemsAreTasks
    <2> QED
      BY <1>5, <1>9, <2>1 DEF ItemOf
  <1> QED
    BY <1>7, <1>8, <1>9

-----------------------------------------------------------------------------
(* The theorems.                                                           *)

THEOREM OutlineInvariant == OutlineSpec => []OutlineIInv
  BY OutlineInitInv, OutlineNextInv, PTL DEF OutlineSpec

(* The locals of a call have their types, and a parent is an item of its call. *)
THEOREM OutlineTypeCorrect == OutlineSpec => []OutlineTypeOK
  <1>1. OutlineIInv => OutlineTypeOK
    BY DEF OutlineIInv
  <1> QED
    BY <1>1, OutlineInvariant, PTL

(* resolveParents finds with its map the parents TodoTables defines without    *)
(* one, and stops only at an item that has none, for texts of any length.      *)
THEOREM AnchorsFound == OutlineSpec => []LoopFindsAnchors
  <1>1. OutlineIInv => LoopFindsAnchors
    BY DEF OutlineIInv
  <1> QED
    BY <1>1, OutlineInvariant, PTL

(* A call is refused for a reason in its text, and accepted only without one. *)
THEOREM RefusalsJustified == OutlineSpec => []RefusedForCause
  <1>1. OutlineIInv => RefusedForCause
    BY DEF OutlineIInv
  <1> QED
    BY <1>1, OutlineInvariant, PTL

(* An accepted text keeps all its tasks, in order, with indent and status. *)
THEOREM TasksKept == OutlineSpec => []OutlineKept
  BY AcceptedIsKept, OutlineInvariant, PTL

=============================================================================
