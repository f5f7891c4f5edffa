------------------------ MODULE StepSelectionProofs ------------------------
(***************************************************************************)
(* The loop of select_step_from_rras meets the contract of                 *)
(* include/rrd/reader.h for every array select_optimal_step collects,      *)
(* every period and every window of points.                                *)
(***************************************************************************)
EXTENDS StepSelection, CountingLemmas

Archive == [cf : {"AVERAGE", "MAX"}, pdp_per_row : Nat \ {0}]
Info == [cf : {"AVERAGE", "MAX"}, pdp_per_row : Nat \ {0}, effective_step : Nat \ {0}]

\* No entry collected from a file has a step below the file's.
InfoIn(f) == {r \in Info : r.effective_step >= f.step}

\* What select_optimal_step notes at the cf of an archive.
InfoOf(f, n) ==
    [cf |-> f.rras[n].cf, pdp_per_row |-> f.rras[n - 1].pdp_per_row,
     effective_step |-> f.rras[n - 1].pdp_per_row * f.step]

\* One round of its loop, as a function of the number of archives looked at.
FillStep(f, kept, n) ==
    IF n = 0 THEN <<>>
    ELSE LET p == f.rras[n - 1].pdp_per_row
         IN  IF n > 1 /\ n <= MaxArchives /\ p * f.step <= MaxStep
             THEN Append(kept[n - 1], [cf |-> f.rras[n].cf, pdp_per_row |-> p,
                                       effective_step |-> p * f.step])
             ELSE kept[n - 1]

\* What is collected of an archive is an RraInfo.
LEMMA InfoTyped ==
    ASSUME NEW f \in Files, NEW n \in 1..Len(f.rras), n > 1
    PROVE  InfoOf(f, n) \in InfoIn(f)
<1>1. f.rras \in Seq(Archive) /\ f.step \in Nat \ {0}
  BY StepAssumption DEF Archive
<1>2. f.rras[n] \in Archive /\ f.rras[n - 1] \in Archive
  BY <1>1
<1>3. f.rras[n].cf \in {"AVERAGE", "MAX"} /\ f.rras[n - 1].pdp_per_row \in Nat \ {0}
  BY <1>2 DEF Archive
<1>4. \A a, b \in Nat \ {0} : a * b \in Nat \ {0} /\ a * b >= b
  OBVIOUS
<1>5. InfoOf(f, n) \in Info
  BY <1>1, <1>3, <1>4 DEF InfoOf, Info
<1>. QED
  BY <1>1, <1>3, <1>4, <1>5 DEF InfoOf, InfoIn

\* The array has archives with steps above 0.
LEMMA ArchivesTyped ==
    ASSUME NEW f \in Files
    PROVE  step_rras(f) \in Seq(InfoIn(f))
<1>. DEFINE m == Len(f.rras)
            S == Seq(InfoIn(f))
            none == <<>>
            taken(n) == n > 1 /\ n <= MaxArchives /\ f.rras[n - 1].pdp_per_row * f.step <= MaxStep
            g == [n \in 1..m |-> [s \in S |-> IF taken(n) THEN Append(s, InfoOf(f, n)) ELSE s]]
            Body(kept) == [n \in 0..m |-> FillStep(f, kept, n)]
            kept == CHOOSE h : h = Body(h)
<1>1. m \in Nat
  BY StepAssumption
<1>2. \A n \in 1..m : taken(n) => InfoOf(f, n) \in InfoIn(f)
  BY InfoTyped
<1>3. \A h, n : FillStep(f, h, n) = IF n = 0 THEN none
                                    ELSE IF taken(n) THEN Append(h[n - 1], InfoOf(f, n))
                                    ELSE h[n - 1]
  BY DEF FillStep, InfoOf
<1>4. step_rras(f) = kept[m]
  BY DEF step_rras, FillStep
<1>. HIDE DEF m, taken, kept
<1>5. \A n \in 1..m : \A s \in S : g[n][s] \in S
  BY <1>2
<1>6. \A n \in 1..m : \A s \in S : g[n][s] = IF taken(n) THEN Append(s, InfoOf(f, n)) ELSE s
  OBVIOUS
<1>7. none \in S
  OBVIOUS
<1>. HIDE DEF g
<1>8. PICK k : RunsLoop(k, m, S, none, g)
  <2>. HIDE DEF S, none
  <2>. QED
    BY <1>1, <1>5, <1>7, LoopValues
<1>9. ASSUME NEW n \in 0..m PROVE k[n] = FillStep(f, k, n)
  <2>1. CASE n = 0
    BY <1>3, <1>8, <2>1 DEF RunsLoop
  <2>2. CASE n # 0
    <3>1. n \in 1..m /\ n - 1 \in 0..m
      BY <1>1, <2>2
    <3>2. k[n] = g[n][k[n - 1]] /\ k[n - 1] \in S
      BY <1>8, <3>1 DEF RunsLoop
    <3>. HIDE DEF S, none
    <3>3. k[n] = IF taken(n) THEN Append(k[n - 1], InfoOf(f, n)) ELSE k[n - 1]
      BY <1>6, <3>1, <3>2
    <3>. QED
      BY <1>3, <2>2, <3>3
  <2>. QED
    BY <2>1, <2>2
<1>10. k = Body(k)
  <2>1. k \in [0..m -> S]
    BY <1>8 DEF RunsLoop
  <2>. HIDE DEF FillStep, S
  <2>. QED
    BY <1>9, <2>1
<1>11. kept = Body(kept)
  <2>. HIDE DEF Body
  <2>. QED
    BY <1>10 DEF kept
<1>12. \A n \in 0..m : kept[n] = FillStep(f, kept, n)
  BY <1>11
<1>. DEFINE T == {n \in 0..m : kept[n] \in S}
<1>13. 0 \in T
  <2>1. 0 \in 0..m
    BY <1>1
  <2>2. kept[0] = none
    BY <1>3, <1>12, <2>1
  <2>. HIDE DEF none, S
  <2>. QED
    BY <1>7, <2>1, <2>2
<1>14. ASSUME NEW n \in 0..m, n < m, n \in T PROVE n + 1 \in T
  <2>1. n + 1 \in 1..m /\ n + 1 \in 0..m /\ n + 1 # 0 /\ (n + 1) - 1 = n
    BY <1>1, <1>14
  <2>2. kept[n] \in S
    BY <1>14
  <2>3. kept[n + 1] = IF taken(n + 1) THEN Append(kept[n], InfoOf(f, n + 1)) ELSE kept[n]
    BY <1>3, <1>12, <2>1
  <2>4. taken(n + 1) => InfoOf(f, n + 1) \in InfoIn(f)
    BY <1>2, <2>1
  <2>5. \A s \in S, e \in InfoIn(f) : Append(s, e) \in S
    OBVIOUS
  <2>. HIDE DEF S
  <2>. QED
    BY <2>1, <2>2, <2>3, <2>4, <2>5
<1>15. m \in T
  <2>1. \A n \in 0..m : n < m /\ n \in T => n + 1 \in T
    BY <1>14
  <2>. HIDE DEF T
  <2>2. \A n \in 0..m : n \in T
    BY <1>1, <1>13, <2>1, CountUp
  <2>. QED
    BY <1>1, <2>2
<1>. QED
  BY <1>4, <1>15

----------------------------------------------------------------------------
\* Nothing but the sign of a product, for the provers.
LEMMA ProductGrows ==
    ASSUME NEW a \in Nat, NEW b \in Nat, NEW q \in Nat, a <= b
    PROVE  a * q <= b * q
OBVIOUS

\* The number of points of a range is a quotient rounded up.
LEMMA PointsLemma ==
    ASSUME NEW r \in Nat \ {0}, NEW s \in Nat \ {0}
    PROVE  LET q == (r + s - 1) \div s
           IN  q \in Nat \ {0} /\ s * q <= r + s - 1 /\ r <= s * q
OBVIOUS

\* A smaller step has no fewer points.
LEMMA MorePoints ==
    ASSUME range \in Int, range > 0, NEW a \in Nat \ {0}, NEW b \in Nat \ {0}, a <= b
    PROVE  /\ num_points(a) \in Nat \ {0} /\ num_points(b) \in Nat \ {0}
           /\ num_points(b) <= num_points(a)
<1>. DEFINE p == num_points(a)
            q == num_points(b)
<1>0. range \in Nat \ {0}
  OBVIOUS
<1>1. p \in Nat \ {0} /\ range <= a * p
  BY <1>0, PointsLemma DEF num_points
<1>2. q \in Nat \ {0} /\ b * q <= range + b - 1
  <2>. DEFINE d == (range + b - 1) \div b
  <2>1. d \in Nat \ {0} /\ b * d <= range + b - 1
    BY <1>0, PointsLemma
  <2>. QED
    BY <2>1 DEF num_points
<1>. HIDE DEF p, q
<1>3. SUFFICES ASSUME p <= q - 1 PROVE FALSE
  BY <1>1, <1>2 DEF p, q
<1>4. a * p <= a * (q - 1)
  BY <1>1, <1>2, <1>3
<1>5. a * (q - 1) <= b * (q - 1)
  BY <1>2, ProductGrows
<1>6. b * (q - 1) = b * q - b
  BY <1>2
<1>. QED
  BY <1>1, <1>2, <1>4, <1>5, <1>6

----------------------------------------------------------------------------
\* The usable archives the loop has been over.
Before == {n \in Candidates : n < i}

\* What is remembered is the best of them.
BestSoFar ==
    /\ \A n \in Before : ~InWindow(rras[n].effective_step)
    /\ optimal_step = 0 => Before = {}
    /\ optimal_step # 0 =>
          /\ \E n \in Before : optimal_step = rras[n].effective_step
          /\ best_num_points = num_points(optimal_step)
          /\ \A n \in Before :
                /\ num_points(rras[n].effective_step) <= best_num_points
                /\ best_num_points > MaxPoints => optimal_step <= rras[n].effective_step

ScanInv ==
    /\ file \in Files
    /\ period \in Nat \ {0}
    /\ range \in Int /\ range <= period
    /\ i \in Nat \ {0}
    /\ at \in {"scan", "raw", "done"}
    /\ at = "scan" /\ range > 0 => BestSoFar
    /\ at = "raw" => range > 0 /\ Candidates = {}
    /\ StepMeetsContract

\* The array, as far as the invariant needs it.
LEMMA RrasLemma ==
    ASSUME file \in Files
    PROVE  /\ \A n \in DOMAIN rras : n \in Nat \ {0} /\ n <= Len(rras)
                                     /\ rras[n].effective_step \in Nat \ {0}
                                     /\ rras[n].effective_step >= file.step
           /\ \A n \in Nat \ {0} : n <= Len(rras) => n \in DOMAIN rras
<1>1. rras \in Seq(InfoIn(file))
  BY ArchivesTyped DEF rras
<1>2. \A n \in DOMAIN rras : rras[n] \in InfoIn(file)
  BY <1>1
<1>3. \A n \in DOMAIN rras : /\ rras[n].effective_step \in Nat \ {0}
                             /\ rras[n].effective_step >= file.step
  BY <1>2 DEF InfoIn, Info
<1>4. DOMAIN rras = 1..Len(rras) /\ Len(rras) \in Nat
  BY <1>1
<1>. QED
  BY <1>1, <1>3, <1>4

\* The loop uses the entries the contract speaks of: the constant it compares
\* with lets every entry pass unless the file's step is smaller.
LEMMA UsableLemma ==
    ASSUME file \in Files, NEW n \in DOMAIN rras
    PROVE  Usable(rras[n]) <=> n \in Candidates
<1>1. file.step \in Nat \ {0} /\ DefaultStep \in Nat \ {0}
  BY StepAssumption
<1>2. rras[n].effective_step \in Nat \ {0} /\ rras[n].effective_step >= file.step
  BY RrasLemma
<1>3. rras[n].effective_step >= DefaultStep <=> rras[n].effective_step >= base_step
  BY <1>1, <1>2 DEF base_step
<1>. QED
  BY <1>3 DEF Usable, Candidates

\* Min is the least element.
LEMMA MinLemma ==
    ASSUME NEW T, T \subseteq Nat, NEW x \in T, \A y \in T : x <= y
    PROVE  Min(T) = x
<1>1. \A z \in T : (\A y \in T : z <= y) => z = x
  OBVIOUS
<1>. QED
  BY <1>1 DEF Min

\* The same input gives the same archives and numbers of points.
LEMMA InputKept ==
    ASSUME UNCHANGED Input
    PROVE  /\ rras' = rras
           /\ Candidates' = Candidates
           /\ Raw' = Raw
           /\ \A s : num_points(s)' = num_points(s)
           /\ \A s : InWindow(s)' <=> InWindow(s)
<1>1. file' = file /\ range' = range
  BY DEF Input
<1>2. rras' = rras
  BY <1>1 DEF rras
<1>. QED
  BY <1>1, <1>2 DEF Candidates, base_step, Raw, num_points, InWindow

\* A round of the loop that remembers nothing or something better.
LEMMA RoundStep ==
    ASSUME ScanInv, Skip \/ TakeOutside
    PROVE  BestSoFar'
<1>1. /\ at = "scan" /\ range > 0 /\ i <= Len(rras) /\ i' = i + 1 /\ UNCHANGED Input
      /\ i \in Nat \ {0} /\ file \in Files /\ range \in Int
  BY DEF Skip, TakeOutside, Scanning, ScanInv
<1>2. /\ rras' = rras /\ Candidates' = Candidates
      /\ \A s : num_points(s)' = num_points(s)
      /\ \A s : InWindow(s)' <=> InWindow(s)
  BY <1>1, InputKept
<1>3. BestSoFar
  BY <1>1 DEF ScanInv
<1>4. i \in DOMAIN rras /\ \A n \in Candidates : n \in Nat /\ n \in DOMAIN rras
                                                /\ rras[n].effective_step \in Nat \ {0}
  BY <1>1, RrasLemma DEF Candidates
<1>. DEFINE e == rras[i].effective_step
            pts(n) == num_points(rras[n].effective_step)
<1>5. e \in Nat \ {0}
  BY <1>1, RrasLemma
<1>6. CASE Skip
  <2>1. i \notin Candidates /\ UNCHANGED <<optimal_step, best_num_points>>
    BY <1>1, <1>4, <1>6, UsableLemma DEF Skip
  <2>2. Before' = Before
    BY <1>1, <1>2, <1>4, <2>1 DEF Before
  <2>. QED
    BY <1>2, <1>3, <2>1, <2>2 DEF BestSoFar
<1>7. CASE TakeOutside
  <2>1. i \in Candidates /\ ~InWindow(e)
        /\ IF Better(e) THEN Remember(e) ELSE UNCHANGED <<optimal_step, best_num_points>>
    BY <1>1, <1>4, <1>7, UsableLemma DEF TakeOutside
  <2>2. Before' = Before \cup {i}
    <3>1. Before' = {n \in Candidates : n < i + 1}
      BY <1>1, <1>2 DEF Before
    <3>2. \A n \in Candidates : n < i + 1 <=> n < i \/ n = i
      BY <1>1, <1>4
    <3>. HIDE DEF Candidates
    <3>. QED
      BY <2>1, <3>1, <3>2 DEF Before
  <2>3. \A n \in Before : rras[n].effective_step \in Nat \ {0} /\ pts(n) \in Nat
    BY <1>1, <1>4, MorePoints DEF Before
  <2>4. num_points(e) \in Nat \ {0}
    BY <1>1, <1>5, MorePoints
  <2>5. \A n \in Before' : ~InWindow(rras[n].effective_step)
    BY <1>3, <2>1, <2>2 DEF BestSoFar
  <2>6. num_points(e) < MinPoints \/ num_points(e) > MaxPoints
    BY <2>1, <2>4, StepAssumption DEF InWindow
  <2>7. optimal_step # 0 =>
            /\ optimal_step \in Nat \ {0} /\ best_num_points = num_points(optimal_step)
            /\ best_num_points \in Nat \ {0}
            /\ best_num_points < MinPoints \/ best_num_points > MaxPoints
    <3>1. SUFFICES ASSUME optimal_step # 0
                   PROVE  /\ optimal_step \in Nat \ {0} /\ best_num_points = num_points(optimal_step)
                          /\ best_num_points \in Nat \ {0}
                          /\ best_num_points < MinPoints \/ best_num_points > MaxPoints
      OBVIOUS
    <3>2. PICK n \in Before : optimal_step = rras[n].effective_step
      BY <1>3, <3>1 DEF BestSoFar
    <3>3. optimal_step \in Nat \ {0} /\ best_num_points = num_points(optimal_step)
          /\ ~InWindow(optimal_step)
      BY <1>3, <2>3, <3>1, <3>2 DEF BestSoFar
    <3>4. num_points(optimal_step) \in Nat \ {0}
      BY <1>1, <3>3, MorePoints
    <3>. QED
      BY <3>3, <3>4, StepAssumption DEF InWindow
  <2>8. CASE Better(e)
    <3>1. optimal_step' = e /\ best_num_points' = num_points(e)
      BY <2>1, <2>8 DEF Remember
    <3>2. \A n \in Before : /\ pts(n) <= num_points(e)
                            /\ num_points(e) > MaxPoints => e <= rras[n].effective_step
      <4>1. SUFFICES ASSUME NEW n \in Before
                     PROVE  /\ pts(n) <= num_points(e)
                            /\ num_points(e) > MaxPoints => e <= rras[n].effective_step
        OBVIOUS
      <4>2. optimal_step # 0 /\ pts(n) <= best_num_points
            /\ (best_num_points > MaxPoints => optimal_step <= rras[n].effective_step)
        BY <1>3, <4>1 DEF BestSoFar
      <4>3. pts(n) \in Nat /\ rras[n].effective_step \in Nat \ {0}
        BY <2>3
      <4>4. CASE num_points(e) < MinPoints
        <5>1. num_points(e) > best_num_points
          BY <2>4, <2>8, <4>2, <4>4, StepAssumption DEF Better
        <5>. QED
          BY <2>4, <2>7, <4>2, <4>3, <4>4, <5>1, StepAssumption
      <4>5. CASE num_points(e) > MaxPoints
        <5>1. e < optimal_step
          BY <2>4, <2>8, <4>2, <4>5, StepAssumption DEF Better
        <5>2. num_points(optimal_step) <= num_points(e)
          BY <1>1, <1>5, <2>7, <4>2, <5>1, MorePoints
        <5>3. best_num_points > MaxPoints => e <= rras[n].effective_step
          BY <1>5, <2>7, <4>2, <4>3, <5>1
        <5>4. best_num_points < MinPoints => e <= rras[n].effective_step
          <6>1. SUFFICES ASSUME best_num_points < MinPoints, rras[n].effective_step <= e
                         PROVE  FALSE
            BY <1>5, <4>3
          <6>2. num_points(e) <= pts(n)
            BY <1>1, <1>5, <4>3, <6>1, MorePoints
          <6>. QED
            BY <2>4, <2>7, <4>2, <4>3, <4>5, <6>1, <6>2, StepAssumption
        <5>. QED
          BY <2>4, <2>7, <4>2, <4>3, <5>2, <5>3, <5>4
      <4>. QED
        BY <2>6, <4>4, <4>5
    <3>3. /\ \E n \in Before' : optimal_step' = rras[n].effective_step
          /\ \A n \in Before' :
                /\ num_points(rras[n].effective_step) <= best_num_points'
                /\ best_num_points' > MaxPoints => optimal_step' <= rras[n].effective_step
      BY <1>5, <2>2, <2>4, <3>1, <3>2
    <3>4. optimal_step' # 0
      BY <1>5, <3>1
    <3>. HIDE DEF e
    <3>. QED
      BY <1>2, <2>5, <3>1, <3>3, <3>4 DEF BestSoFar
  <2>9. CASE ~Better(e)
    <3>1. UNCHANGED <<optimal_step, best_num_points>>
      BY <2>1, <2>9
    <3>2. optimal_step # 0
      BY <2>6, <2>9 DEF Better
    <3>3. /\ num_points(e) <= best_num_points
          /\ best_num_points > MaxPoints => optimal_step <= e
      <4>1. CASE num_points(e) < MinPoints
        <5>1. num_points(e) <= best_num_points
          BY <2>4, <2>7, <2>9, <3>2, <4>1 DEF Better
        <5>2. ASSUME best_num_points > MaxPoints, e <= optimal_step PROVE FALSE
          <6>1. num_points(optimal_step) <= num_points(e)
            BY <1>1, <1>5, <2>7, <3>2, <5>2, MorePoints
          <6>. QED
            BY <2>4, <2>7, <3>2, <4>1, <5>2, <6>1, StepAssumption
        <5>. QED
          BY <1>5, <2>7, <3>2, <5>1, <5>2
      <4>2. CASE num_points(e) > MaxPoints
        <5>1. optimal_step <= e
          BY <1>5, <2>7, <2>9, <3>2, <4>2 DEF Better
        <5>2. num_points(e) <= num_points(optimal_step)
          BY <1>1, <1>5, <2>7, <3>2, <5>1, MorePoints
        <5>. QED
          BY <2>7, <3>2, <5>1, <5>2
      <4>. QED
        BY <2>6, <4>1, <4>2
    <3>4. /\ \E n \in Before' : optimal_step = rras[n].effective_step
          /\ \A n \in Before' :
                /\ num_points(rras[n].effective_step) <= best_num_points
                /\ best_num_points > MaxPoints => optimal_step <= rras[n].effective_step
      BY <1>3, <2>2, <3>2, <3>3 DEF BestSoFar
    <3>. QED
      BY <1>2, <2>5, <2>7, <3>1, <3>2, <3>4 DEF BestSoFar
  <2>. QED
    BY <2>8, <2>9
<1>. QED
  BY <1>6, <1>7

\* The first archive inside the window is the result.
LEMMA WindowStep ==
    ASSUME ScanInv, TakeInWindow
    PROVE  StepMeetsContract'
<1>1. /\ at = "scan" /\ range > 0 /\ i <= Len(rras) /\ UNCHANGED <<Input, i>>
      /\ i \in Nat \ {0} /\ file \in Files /\ range \in Int /\ BestSoFar
  BY DEF TakeInWindow, Scanning, ScanInv
<1>2. /\ rras' = rras /\ Candidates' = Candidates
      /\ \A s : InWindow(s)' <=> InWindow(s)
  BY <1>1, InputKept
<1>. DEFINE fits == {n \in Candidates : InWindow(rras[n].effective_step)}
<1>3. i \in fits /\ step' = rras[i].effective_step
  BY <1>1, RrasLemma, UsableLemma DEF TakeInWindow
<1>4. \A n \in fits : n \in Nat /\ i <= n
  <2>1. \A n \in fits : n \in Candidates /\ n \in Nat
    BY <1>1, RrasLemma DEF Candidates
  <2>. QED
    BY <1>1, <2>1 DEF BestSoFar, Before
<1>5. fits' = fits
  BY <1>2
<1>. HIDE DEF fits
<1>6. Min(fits) = i
  BY <1>3, <1>4, MinLemma
<1>. QED
  BY <1>2, <1>3, <1>5, <1>6 DEF StepMeetsContract, fits

\* The end of the loop: what is remembered is the best of all.
LEMMA EndStep ==
    ASSUME ScanInv, EndOfScan
    PROVE  StepMeetsContract' /\ (at' = "raw" => Candidates' = {})
<1>1. /\ at = "scan" /\ range > 0 /\ i > Len(rras) /\ UNCHANGED <<Input, i>>
      /\ i \in Nat \ {0} /\ file \in Files /\ range \in Int /\ BestSoFar
  BY DEF EndOfScan, Return, ScanInv
<1>2. /\ rras' = rras /\ Candidates' = Candidates
      /\ \A s : num_points(s)' = num_points(s)
      /\ \A s : InWindow(s)' <=> InWindow(s)
  BY <1>1, InputKept
<1>3. Before = Candidates
  <2>1. \A n \in Candidates : n < i
    BY <1>1, RrasLemma DEF Candidates
  <2>. QED
    BY <2>1 DEF Before
<1>4. CASE optimal_step = 0
  <2>1. at' = "raw" /\ Candidates = {}
    BY <1>1, <1>3, <1>4 DEF EndOfScan, BestSoFar
  <2>. QED
    BY <1>2, <2>1 DEF StepMeetsContract
<1>5. CASE optimal_step # 0
  <2>1. at' = "done" /\ step' = optimal_step
    BY <1>5 DEF EndOfScan, Return
  <2>2. /\ Candidates # {}
        /\ \A n \in Candidates : ~InWindow(rras[n].effective_step)
        /\ \E n \in Candidates : optimal_step = rras[n].effective_step
        /\ \A n \in Candidates :
              /\ num_points(rras[n].effective_step) <= num_points(optimal_step)
              /\ num_points(optimal_step) > MaxPoints => optimal_step <= rras[n].effective_step
    BY <1>1, <1>3, <1>5 DEF BestSoFar
  <2>. DEFINE fits == {n \in Candidates : InWindow(rras[n].effective_step)}
  <2>3. fits' = {}
    BY <1>2, <2>2
  <2>4. /\ Candidates' # {}
        /\ \E n \in Candidates' : step' = rras[n]'.effective_step
        /\ \A n \in Candidates' :
              /\ num_points(rras[n].effective_step)' <= num_points(step)'
              /\ num_points(step)' > MaxPoints => step' <= rras[n]'.effective_step
    <3>1. num_points(step)' = num_points(optimal_step)
      BY <1>1, <2>1 DEF num_points, Input
    <3>2. \A n : num_points(rras[n].effective_step)' = num_points(rras[n].effective_step)
      BY <1>1, <1>2 DEF num_points, Input
    <3>. QED
      BY <1>2, <2>1, <2>2, <3>1, <3>2
  <2>. QED
    BY <2>1, <2>3, <2>4 DEF StepMeetsContract
<1>. QED
  BY <1>4, <1>5

\* Without any usable archive the raw one, else the base step.
LEMMA RawStep ==
    ASSUME ScanInv, TakeRaw
    PROVE  StepMeetsContract'
<1>1. /\ UNCHANGED Input /\ Candidates = {} /\ range <= period
      /\ step' = IF Raw # {} THEN rras[Min(Raw)].effective_step ELSE DefaultStep
  BY DEF TakeRaw, Return, ScanInv
<1>2. rras' = rras /\ Candidates' = Candidates /\ Raw' = Raw
  BY <1>1, InputKept
<1>. DEFINE fits == {n \in Candidates : InWindow(rras[n].effective_step)}
<1>3. fits' = {}
  BY <1>1, <1>2
<1>. QED
  BY <1>1, <1>2, <1>3 DEF StepMeetsContract

\* The inductive invariant of the loop.
THEOREM ScanInvariant == Spec => []ScanInv
<1>1. Init => ScanInv
  <2>. SUFFICES ASSUME Init PROVE ScanInv
    OBVIOUS
  <2>1. PICK age \in FirstPoints : range = ClampedRange(period, age)
    BY DEF Init
  <2>2. period \in Nat \ {0} /\ range \in Int /\ range <= period
    <3>1. period \in Nat \ {0} /\ (age = Unknown \/ age \in Int)
      BY StepAssumption DEF Init, FirstPoints
    <3>. QED
      BY <2>1, <3>1 DEF ClampedRange
  <2>3. file \in Files /\ i = 1 /\ optimal_step = 0 /\ at = "scan"
    BY DEF Init
  <2>4. Before = {}
    BY <2>3, RrasLemma DEF Before, Candidates
  <2>. QED
    BY <2>2, <2>3, <2>4 DEF ScanInv, BestSoFar, StepMeetsContract
<1>2. ScanInv /\ [Next]_vars => ScanInv'
  <2>. SUFFICES ASSUME ScanInv, [Next]_vars PROVE ScanInv'
    OBVIOUS
  <2>1. /\ file \in Files /\ period \in Nat \ {0} /\ range \in Int /\ range <= period
        /\ i \in Nat \ {0} /\ at \in {"scan", "raw", "done"}
    BY DEF ScanInv
  <2>2. UNCHANGED Input
    BY DEF Next, EmptyRange, Skip, TakeInWindow, TakeOutside, EndOfScan, TakeRaw, Finished,
           Return, Input, vars
  <2>3. file' \in Files /\ period' \in Nat \ {0} /\ range' = range /\ range' \in Int /\ range' <= period'
    BY <2>1, <2>2 DEF Input
  <2>4. CASE EmptyRange
    BY <2>1, <2>3, <2>4 DEF EmptyRange, Return, ScanInv, StepMeetsContract
  <2>5. CASE Skip \/ TakeOutside
    <3>1. at = "scan" /\ at' = at /\ i' = i + 1
      BY <2>5 DEF Skip, TakeOutside, Scanning
    <3>2. BestSoFar'
      BY <2>5, RoundStep
    <3>. QED
      BY <2>1, <2>3, <3>1, <3>2 DEF ScanInv, StepMeetsContract
  <2>6. CASE TakeInWindow
    <3>1. at' = "done" /\ i' = i
      BY <2>6 DEF TakeInWindow
    <3>2. StepMeetsContract'
      BY <2>6, WindowStep
    <3>. QED
      BY <2>1, <2>3, <3>1, <3>2 DEF ScanInv
  <2>7. CASE EndOfScan
    <3>1. at' \in {"raw", "done"} /\ i' = i /\ range > 0
      BY <2>7 DEF EndOfScan, Return
    <3>2. StepMeetsContract' /\ (at' = "raw" => Candidates' = {})
      BY <2>7, EndStep
    <3>. QED
      BY <2>1, <2>3, <3>1, <3>2 DEF ScanInv
  <2>8. CASE TakeRaw
    <3>1. at' = "done" /\ i' = i
      BY <2>8 DEF TakeRaw, Return
    <3>2. StepMeetsContract'
      BY <2>8, RawStep
    <3>. QED
      BY <2>1, <2>3, <3>1, <3>2 DEF ScanInv
  <2>9. CASE UNCHANGED vars
    BY <2>9 DEF ScanInv, BestSoFar, StepMeetsContract, Before, Candidates, base_step, Raw, rras,
                InWindow, num_points, vars
  <2>. QED
    BY <2>4, <2>5, <2>6, <2>7, <2>8, <2>9 DEF Next, Finished
<1>. QED
  BY <1>1, <1>2, PTL DEF Spec

\* Whatever array was collected and in whatever order, the result of
\* select_optimal_step is the one include/rrd/reader.h promises for this array
\* and the RRD's base step, but for files with a step below the constant that
\* is passed in its place, and for arrays without AVERAGE entries.
THEOREM ContractMet == Spec => []StepMeetsContract
<1>1. ScanInv => StepMeetsContract
  BY DEF ScanInv
<1>. QED
  BY <1>1, ScanInvariant, PTL
=============================================================================
