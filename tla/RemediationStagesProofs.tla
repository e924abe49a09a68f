----------------------- MODULE RemediationStagesProofs -----------------------
(***************************************************************************)
(* Proofs about RemediationStages: what verified means, and that the       *)
(* patches of a working copy build on one another whatever fails between   *)
(* them.                                                                   *)
(***************************************************************************)
EXTENDS RemediationStages, SequenceTheorems, WellFoundedInduction, TLAPS

(* The result of a command that passed, for each command                   *)
AllPassed == [i \in 1 .. Len(Commands) |-> [command |-> Commands[i], passed |-> TRUE]]

(* A verification has passed the commands before next, on the working copy *)
(* as it is, and the stages before it have no results yet.                 *)
VerificationOK ==
  /\ pc \in {"execute", "truncate", "write"} => results = <<>> /\ ran = <<>>
  /\ pc = "verify" =>
       /\ next \in 1 .. Len(Commands)
       /\ results = [i \in 1 .. next - 1 |-> AllPassed[i]]
       /\ ran = [i \in 1 .. next - 1 |-> tree]
       /\ \A i \in 1 .. next - 1 : Commands[i] \in Allowed /\ sandbox
  /\ pc = "verified" =>
       /\ results = AllPassed
       /\ ran = [i \in 1 .. Len(Commands) |-> tree]
       /\ \A i \in 1 .. Len(Commands) : Commands[i] \in Allowed /\ sandbox

StatusOK == status = "verified" <=> pc = "verified"

VerificationInv == StatusOK /\ VerificationOK

(* The log is a sequence, and the working copy has a text for each file.   *)
ShapeOK ==
  /\ \E S : log \in Seq(S)
  /\ tree = [f \in Files |-> tree[f]]
  /\ checkout = [f \in Files |-> checkout[f]]

(* What apply_patch has read is what the log made of the file.             *)
ContentOK ==
  pc \in {"truncate", "write"} =>
    Change.path \in Files /\ Made(Change.path, Len(log), content)

LogComposes ==
  \A i \in 1 .. Len(log) : Made(log[i].patch.path, i - 1, log[i].before)

(* A file is as the log made it, or was emptied by the write under way.    *)
FileOK(f) ==
  \/ Made(f, Len(log), tree[f])
  \/ tree[f] = <<>> /\ pc = "write" /\ f = Change.path

CompositionInv ==
  ShapeOK /\ ContentOK /\ LogComposes /\ \A f \in Files : FileOK(f)

-----------------------------------------------------------------------------
(* Appending the next of the values of a function to those before it       *)
LEMMA AppendNext ==
  ASSUME NEW n \in Nat \ {0}, NEW v
  PROVE  Append([i \in 1 .. n - 1 |-> v[i]], v[n]) = [i \in 1 .. n |-> v[i]]
OBVIOUS

LEMMA NothingYet ==
  ASSUME NEW v
  PROVE  [i \in 1 .. 1 - 1 |-> v[i]] = <<>>
OBVIOUS

-----------------------------------------------------------------------------
(* Verified is reached only over a passing result for every command.       *)
LEMMA VerificationInitially == Init => VerificationInv
BY DEF Init, VerificationInv, StatusOK, VerificationOK
LEMMA VerificationStep == VerificationInv /\ [Next]_vars => VerificationInv'
<1> SUFFICES ASSUME VerificationInv, [Next]_vars PROVE VerificationInv'
  OBVIOUS
<1> USE DEF VerificationInv, StatusOK
<1>len. Len(Commands) \in Nat \ {0}
  BY StagesAssumption
<1>0. CASE UNCHANGED vars
  BY <1>0 DEF vars, toolVars, jobVars, history, VerificationOK
<1>1. ASSUME NEW copy \in {tree, checkout}, Remediate(copy) PROVE VerificationInv'
  BY <1>1 DEF Remediate, VerificationOK
<1>proceed. ASSUME Proceed, pc \in {"execute", "truncate", "write"},
                   results' = results, ran' = ran
            PROVE  VerificationInv'
  <2>1. results' = <<>> /\ ran' = <<>> /\ status # "verified"
    BY <1>proceed DEF VerificationOK
  <2>2. CASE next' = next + 1 /\ pc' = "execute" /\ UNCHANGED status
    BY <2>1, <2>2 DEF VerificationOK
  <2>3. CASE next' = 1 /\ pc' = "verify" /\ status' = "verification-pending"
    <3>1. results' = [i \in 1 .. next' - 1 |-> AllPassed[i]]
      BY <2>1, <2>3
    <3>2. ran' = [i \in 1 .. next' - 1 |-> tree']
      BY <2>1, <2>3
    <3>3. next' \in 1 .. Len(Commands)
      BY <1>len, <2>3
    <3> QED
      BY <2>3, <3>1, <3>2, <3>3 DEF VerificationOK, AllPassed
  <2> QED
    BY <1>proceed, <2>2, <2>3 DEF Proceed
<1>2. CASE Look
  BY <1>2, <1>proceed DEF Look, history
<1>3. CASE ReadForPatch
  BY <1>3 DEF ReadForPatch, jobVars, history, VerificationOK
<1>4. CASE Truncate
  BY <1>4 DEF Truncate, jobVars, history, VerificationOK
<1>5. CASE WriteBack
  BY <1>5, <1>proceed DEF WriteBack
<1>6. CASE ToolFails
  BY <1>6 DEF ToolFails, jobVars, history, VerificationOK
<1>11. CASE CannotOpen
  BY <1>11 DEF CannotOpen, jobVars, history, VerificationOK
<1>12. CASE WriteFails
  BY <1>12 DEF WriteFails, jobVars, VerificationOK
<1>7. CASE NoResult
  BY <1>7 DEF NoResult, VerificationFails, VerificationOK
<1>13. CASE SandboxRaises
  BY <1>13 DEF SandboxRaises, VerificationOK
<1>8. CASE Result
  <2> PICK passed \in BOOLEAN :
        /\ results' = Append(results, [command |-> Command, passed |-> passed])
        /\ IF passed THEN VerificationGoesOn ELSE VerificationFails
    BY <1>8 DEF Result
  <2>1. CASE ~passed
    BY <1>8, <2>1 DEF Result, VerificationFails, VerificationOK
  <2>2. CASE passed
    <3>1. /\ pc = "verify" /\ Runnable /\ status # "verified"
          /\ ran' = Append(ran, tree)
          /\ UNCHANGED <<tree, sandbox>>
          /\ VerificationGoesOn
      BY <1>8, <2>2 DEF Result
    <3>2. /\ next \in 1 .. Len(Commands)
          /\ results = [i \in 1 .. next - 1 |-> AllPassed[i]]
          /\ ran = [i \in 1 .. next - 1 |-> tree]
          /\ \A i \in 1 .. next - 1 : Commands[i] \in Allowed /\ sandbox
      BY <3>1 DEF VerificationOK
    <3>3. results' = [i \in 1 .. next |-> AllPassed[i]]
      <4>1. AllPassed[next] = [command |-> Command, passed |-> passed]
        BY <2>2, <3>2 DEF AllPassed, Command
      <4> QED
        BY <1>len, <3>2, <4>1, AppendNext
    <3>4. ran' = [i \in 1 .. next |-> tree']
      <4> DEFINE v == [i \in 1 .. next |-> tree]
      <4>1. ran = [i \in 1 .. next - 1 |-> v[i]] /\ tree = v[next]
        BY <1>len, <3>2
      <4>2. ran' = [i \in 1 .. next |-> v[i]]
        BY <1>len, <3>1, <3>2, <4>1, AppendNext
      <4> QED
        BY <3>1, <4>2
    <3>5. \A i \in 1 .. next : Commands[i] \in Allowed /\ sandbox
      BY <1>len, <3>1, <3>2 DEF Runnable, Command
    <3>6. CASE next < Len(Commands)
      <4>1. next' = next + 1 /\ pc' = "verify" /\ status' = status
        BY <3>1, <3>6 DEF VerificationGoesOn
      <4>2. next' \in 1 .. Len(Commands) /\ next' - 1 = next
        BY <1>len, <3>2, <3>6, <4>1
      <4> QED
        BY <3>1, <3>3, <3>4, <3>5, <4>1, <4>2 DEF VerificationOK, AllPassed
    <3>7. CASE ~(next < Len(Commands))
      <4>1. next = Len(Commands) /\ pc' = "verified" /\ status' = "verified"
        BY <1>len, <3>1, <3>2, <3>7 DEF VerificationGoesOn
      <4>2. results' = AllPassed
        BY <3>3, <4>1 DEF AllPassed
      <4> QED
        BY <3>1, <3>4, <3>5, <4>1, <4>2 DEF VerificationOK, AllPassed
    <3> QED
      BY <3>6, <3>7
  <2> QED
    BY <2>1, <2>2
<1>9. CASE Requeue
  BY <1>9 DEF Requeue, history, VerificationOK
<1>10. CASE Crash
  <2>1. /\ next' = 1 /\ results' = <<>> /\ ran' = <<>> /\ status # "verified"
        /\ pc = "verify" => tree' = tree /\ sandbox' = sandbox
    BY <1>10 DEF Crash
  <2>2. CASE pc' = pc /\ status' = status /\ pc = "verify"
    <3>1. results' = [i \in 1 .. next' - 1 |-> AllPassed[i]]
      BY <2>1
    <3>2. ran' = [i \in 1 .. next' - 1 |-> tree']
      BY <2>1
    <3> QED
      BY <1>len, <2>1, <2>2, <3>1, <3>2 DEF VerificationOK, AllPassed
  <2>3. CASE pc' = "queued" /\ status' = "queued"
    BY <2>3 DEF VerificationOK
  <2> QED
    BY <1>10, <2>2, <2>3 DEF Crash
<1> QED
  BY <1>0, <1>1, <1>2, <1>3, <1>4, <1>5, <1>6, <1>7, <1>8, <1>9, <1>10, <1>11,
     <1>12, <1>13 DEF Next

(* A job is verified only if every command ran, in order, in a sandbox,    *)
(* from the allowlist, on the working copy as it is, and passed, for any   *)
(* commands, any plans and any number of attempts and crashes              *)
(* (verify_remediation_job).                                               *)
THEOREM StagesVerifiedMeansPassed == Spec => []VerifiedMeansPassed
<1>1. VerificationInv => VerifiedMeansPassed
  BY StagesAssumption
  DEF VerificationInv, StatusOK, VerificationOK, VerifiedMeansPassed, AllPassed
<1> QED
  BY <1>1, VerificationInitially, VerificationStep, PTL DEF Spec
-----------------------------------------------------------------------------
(* The patches of a working copy compose.                                  *)

LEMMA CompositionInitially == Init => CompositionInv
<1> SUFFICES ASSUME Init PROVE CompositionInv
  OBVIOUS
<1>1. ShapeOK
  BY StagesAssumption DEF Init, ShapeOK
<1>2. \A f \in Files : FileOK(f)
  BY DEF Init, FileOK, Made
<1> QED
  BY <1>1, <1>2 DEF Init, CompositionInv, ContentOK, LogComposes

(* A step that leaves the log and the working copy alone                   *)
LEMMA CompositionKept ==
  ASSUME CompositionInv, UNCHANGED <<checkout, tree, log>>,
         pc = "write" => pc' = "write" /\ UNCHANGED <<plan, next>>,
         ContentOK'
  PROVE  CompositionInv'
<1>1. ShapeOK' /\ LogComposes'
  BY DEF CompositionInv, ShapeOK, LogComposes, Made
<1>2. ASSUME NEW f \in Files PROVE FileOK(f)'
  <2>1. FileOK(f)
    BY DEF CompositionInv
  <2>2. CASE Made(f, Len(log), tree[f])
    BY <2>2 DEF FileOK, Made
  <2>3. CASE tree[f] = <<>> /\ pc = "write" /\ f = Change.path
    BY <2>1, <2>3 DEF FileOK, Change
  <2> QED
    BY <2>1, <2>2, <2>3 DEF FileOK
<1> QED
  BY <1>1, <1>2 DEF CompositionInv
(* Writing all of a text or its beginning leaves a file as the log has it, *)
(* and every other file as it was.                                         *)
LEMMA WrittenComposes ==
  ASSUME CompositionInv, pc = "write", NEW text, Written(text),
         ContentOK', pc' # "write"
  PROVE  CompositionInv'
<1> DEFINE r == [patch |-> Change, attempt |-> attempts, before |-> content,
                 after |-> text, whole |-> text = Updated]
<1> PICK S : log \in Seq(S)
  BY DEF CompositionInv, ShapeOK
<1>len. Len(log) \in Nat
  OBVIOUS
<1>1. /\ tree' = [tree EXCEPT ![Change.path] = text]
      /\ log' = Append(log, r)
      /\ checkout' = checkout
  BY DEF Written
<1>2. Change.path \in Files /\ Made(Change.path, Len(log), content)
  BY DEF CompositionInv, ContentOK
<1>3. /\ r.patch.path = Change.path /\ r.before = content /\ r.after = text
  OBVIOUS
<1> HIDE DEF r
<1>4. /\ Len(log') = Len(log) + 1
      /\ \A i \in 1 .. Len(log) : log'[i] = log[i]
      /\ log'[Len(log) + 1] = r
  BY <1>1
<1>5. ShapeOK'
  <2>1. log' \in Seq(S \cup {r})
    BY <1>1
  <2> QED
    BY <1>1, <2>1 DEF CompositionInv, ShapeOK
<1>6. ASSUME NEW i \in 1 .. Len(log')
      PROVE  Made(log[i].patch.path, i - 1, log[i].before)'
  <2>1. CASE i \in 1 .. Len(log)
    <3>1. Made(log[i].patch.path, i - 1, log[i].before)
      BY <2>1 DEF CompositionInv, LogComposes
    <3>2. i - 1 \in 0 .. Len(log) /\ log'[i] = log[i]
      BY <1>len, <1>4, <2>1
    <3> QED
      BY <1>len, <1>1, <1>4, <2>1, <3>1, <3>2 DEF Made
  <2>2. CASE i = Len(log) + 1
    <3>1. i - 1 = Len(log) /\ log'[i] = r
      BY <1>len, <1>4, <2>2
    <3> QED
      BY <1>len, <1>1, <1>2, <1>3, <1>4, <3>1 DEF Made
  <2> QED
    BY <1>len, <1>4, <2>1, <2>2
<1>7. ASSUME NEW f \in Files PROVE FileOK(f)'
  <2>1. CASE f = Change.path
    <3>1. tree'[f] = r.after /\ r.patch.path = f
      BY <1>1, <1>3, <2>1 DEF CompositionInv, ShapeOK
    <3>2. Made(f, Len(log), tree[f])'
      BY <1>len, <1>4, <3>1 DEF Made
    <3> QED
      BY <3>2 DEF FileOK
  <2>2. CASE f # Change.path
    <3>1. tree'[f] = tree[f]
      BY <1>1, <2>2 DEF CompositionInv, ShapeOK
    <3>2. Made(f, Len(log), tree[f])
      BY <2>2 DEF CompositionInv, FileOK
    <3>3. Made(f, Len(log), tree[f])'
      BY <1>len, <1>1, <1>3, <1>4, <2>2, <3>1, <3>2 DEF Made
    <3> QED
      BY <3>3 DEF FileOK
  <2> QED
    BY <2>1, <2>2
<1> QED
  BY <1>5, <1>6, <1>7 DEF CompositionInv, LogComposes

LEMMA CompositionStep == CompositionInv /\ [Next]_vars => CompositionInv'
<1> SUFFICES ASSUME CompositionInv, [Next]_vars PROVE CompositionInv'
  OBVIOUS
<1>0. CASE UNCHANGED vars
  <2>1. ContentOK'
    BY <1>0 DEF vars, toolVars, history, CompositionInv, ContentOK, Change, Made
  <2> QED
    BY <1>0, <2>1, CompositionKept DEF vars, toolVars, history
<1>1. ASSUME NEW copy \in {tree, checkout}, Remediate(copy) PROVE CompositionInv'
  <2>1. ContentOK' /\ pc = "queued" /\ checkout' = checkout
    BY <1>1 DEF Remediate, ContentOK
  <2>2. CASE copy = tree
    BY <1>1, <2>1, <2>2, CompositionKept DEF Remediate
  <2>3. CASE copy = checkout /\ copy # tree
    <3>1. log' = <<>> /\ tree' = checkout'
      BY <1>1, <2>1, <2>3 DEF Remediate
    <3>2. ShapeOK'
      BY <2>1, <3>1 DEF CompositionInv, ShapeOK
    <3>3. \A f \in Files : FileOK(f)'
      BY <3>1 DEF FileOK, Made
    <3> QED
      BY <2>1, <3>1, <3>2, <3>3 DEF CompositionInv, LogComposes
  <2> QED
    BY <2>2, <2>3
<1>2. CASE Look
  BY <1>2, CompositionKept DEF Look, Proceed, history, ContentOK
<1>3. CASE ReadForPatch
  <2>1. /\ Change.path \in Files /\ MatchesOnce(tree[Change.path], Change.old)
        /\ content' = tree[Change.path] /\ pc = "execute"
        /\ UNCHANGED <<checkout, tree, log, plan, next>>
    BY <1>3 DEF ReadForPatch, Patchable, Current, history
  <2>3. Made(Change.path, Len(log), tree[Change.path])
    BY <2>1 DEF CompositionInv, FileOK
  <2>4. ContentOK'
    BY <2>1, <2>3 DEF ContentOK, Change, Made
  <2> QED
    BY <2>1, <2>4, CompositionKept
<1>4. CASE Truncate
  <2>1. /\ pc = "truncate" /\ pc' = "write"
        /\ tree' = [tree EXCEPT ![Change.path] = <<>>]
        /\ UNCHANGED <<checkout, log, plan, next, content>>
    BY <1>4 DEF Truncate, toolVars, history
  <2>2. ContentOK'
    BY <2>1 DEF CompositionInv, ContentOK, Change, Made
  <2>3. ShapeOK' /\ LogComposes'
    BY <2>1 DEF CompositionInv, ShapeOK, LogComposes, Made
  <2>4. ASSUME NEW f \in Files PROVE FileOK(f)'
    <3>1. CASE f = Change.path
      <4>1. tree'[f] = <<>> /\ pc' = "write" /\ f = Change'.path
        BY <2>1, <3>1 DEF CompositionInv, ShapeOK, Change
      <4> QED
        BY <4>1 DEF FileOK
    <3>2. CASE f # Change.path
      <4>1. tree'[f] = tree[f]
        BY <2>1, <3>2 DEF CompositionInv, ShapeOK
      <4>2. FileOK(f)
        BY DEF CompositionInv
      <4> QED
        BY <2>1, <3>2, <4>1, <4>2 DEF FileOK, Made
    <3> QED
      BY <3>1, <3>2
  <2> QED
    BY <2>2, <2>3, <2>4 DEF CompositionInv
<1>5. CASE WriteBack
  BY <1>5, WrittenComposes DEF WriteBack, Proceed, ContentOK
<1>6. CASE ToolFails
  BY <1>6, CompositionKept DEF ToolFails, history, ContentOK
<1>11. CASE CannotOpen
  BY <1>11, CompositionKept DEF CannotOpen, history, ContentOK
<1>12. CASE WriteFails
  BY <1>12, WrittenComposes DEF WriteFails, ContentOK
<1>7. CASE NoResult
  BY <1>7, CompositionKept
  DEF NoResult, VerificationFails, history, ContentOK
<1>13. CASE SandboxRaises
  BY <1>13, CompositionKept DEF SandboxRaises, ContentOK
<1>8. CASE Result
  <2>1. /\ pc = "verify" /\ pc' \in {"verify", "verified", "stopped"}
        /\ UNCHANGED <<checkout, tree, log>>
    BY <1>8 DEF Result, VerificationGoesOn, VerificationFails
  <2> QED
    BY <2>1, CompositionKept DEF ContentOK
<1>9. CASE Requeue
  BY <1>9, CompositionKept DEF Requeue, history, ContentOK
<1>10. CASE Crash
  <2>1. pc' \in {"verify", "queued"} /\ ContentOK'
    BY <1>10 DEF Crash, ContentOK
  <2>2. CASE pc = "write"
    BY <1>10, <2>1, <2>2, WrittenComposes DEF Crash
  <2>3. CASE pc # "write"
    BY <1>10, <2>1, <2>3, CompositionKept DEF Crash
  <2> QED
    BY <2>2, <2>3
<1> QED
  BY <1>0, <1>1, <1>2, <1>3, <1>4, <1>5, <1>6, <1>7, <1>8, <1>9, <1>10, <1>11,
     <1>12, <1>13 DEF Next

(* No update of a file is lost and none is built on another text than the  *)
(* write before it left, over any number of attempts, fresh or reused      *)
(* working copies, writes that fail and crashes inside a write             *)
(* (ApplyPatchTool.invoke).                                                *)
THEOREM StagesPatchesCompose == Spec => []PatchesCompose
<1>1. CompositionInv => PatchesCompose
  BY DEF CompositionInv, LogComposes, FileOK, PatchesCompose
<1> QED
  BY <1>1, CompositionInitially, CompositionStep, PTL DEF Spec
-----------------------------------------------------------------------------
(* What str.count and str.replace do: facts about every text, by induction *)
(* over the places of a text.                                              *)

(* A set of numbers that has 0, and with each number the next one, has     *)
(* them all.                                                               *)
LEMMA Induction ==
  ASSUME NEW S, 0 \in S, \A n \in Nat : n \in S => n + 1 \in S
  PROVE  Nat \subseteq S
<1> DEFINE T == Nat \ S
<1> SUFFICES ASSUME T # {} PROVE FALSE
  OBVIOUS
<1>1. PICK x \in T : \A y \in T : ~(<<y, x>> \in OpToRel(<, Nat))
  BY NatLessThanWellFounded, WFMin
<1>2. x - 1 \in T /\ x - 1 < x
  OBVIOUS
<1>3. <<x - 1, x>> \in OpToRel(<, Nat)
  BY <1>2 DEF OpToRel
<1> QED
  BY <1>1, <1>2, <1>3

(* The first of some places                                                *)
LEMMA FirstPlace ==
  ASSUME NEW S, S \subseteq Nat, S # {}
  PROVE  Min(S) \in S /\ \A n \in S : Min(S) <= n
<1>1. PICK x \in S : \A y \in S : ~(<<y, x>> \in OpToRel(<, Nat))
  BY NatLessThanWellFounded, WFMin
<1>2. ASSUME NEW y \in S PROVE x <= y
  <2>1. y < x => <<y, x>> \in OpToRel(<, Nat)
    BY DEF OpToRel
  <2>2. ~(y < x)
    BY <1>1, <2>1, Zenon
  <2> QED
    BY <2>2
<1> QED
  BY <1>2 DEF Min

(* The equation that Count solves, and the solution it takes               *)
Tally(text, old, d) ==
  [i \in 1 .. Len(text) + 1 |->
     IF i > Len(text) THEN 0
     ELSE IF i \in Places(text, old) THEN 1 + d[i + Len(old)]
     ELSE d[i + 1]]
CountFrom(text, old) == CHOOSE d : d = Tally(text, old, d)

(* The equation has a solution.                                            *)
LEMMA TallyHasSolution ==
  ASSUME NEW text \in Seq(STRING), NEW old \in Seq(STRING) \ {<<>>}
  PROVE  CountFrom(text, old) = Tally(text, old, CountFrom(text, old))
<1> DEFINE L == Len(text)
           Solves(d, n) == \A i \in 1 .. L + 1 :
                             L + 1 - n <= i => d[i] = Tally(text, old, d)[i]
           S == {n \in Nat : \E d \in [1 .. L + 1 -> Nat] : Solves(d, n)}
<1>1. L \in Nat /\ Len(old) \in Nat \ {0}
  OBVIOUS
<1>2. ASSUME NEW d, NEW i \in 1 .. L + 1
      PROVE  Tally(text, old, d)[i] = IF i > L THEN 0
                                      ELSE IF i \in Places(text, old)
                                           THEN 1 + d[i + Len(old)]
                                      ELSE d[i + 1]
  BY DEF Tally
<1>3. \A i \in Places(text, old) : i \in 1 .. L /\ i + Len(old) \in 1 .. L + 1
  BY <1>1 DEF Places
<1> HIDE DEF L
<1>4. 0 \in S
  <2>1. Solves([i \in 1 .. L + 1 |-> 0], 0)
    BY <1>1, <1>2
  <2> QED
    BY <2>1
<1>5. ASSUME NEW n \in Nat, n \in S PROVE n + 1 \in S
  <2> PICK d \in [1 .. L + 1 -> Nat] : Solves(d, n)
    BY <1>5
  <2>1. CASE L - n < 1
    <3>1. Solves(d, n + 1)
      BY <1>1, <2>1
    <3> HIDE DEF Solves
    <3> QED
      BY <3>1
  <2>2. CASE ~(L - n < 1)
    <3>1. PICK j \in 1 .. L : j = L - n
      BY <1>1, <2>2
    <3> DEFINE e == [d EXCEPT ![j] = Tally(text, old, d)[j]]
    <3>2. Tally(text, old, d)[j] \in Nat
      <4>1. j \in 1 .. L + 1 /\ j + 1 \in 1 .. L + 1 /\ ~(j > L)
        BY <1>1
      <4>2. CASE j \in Places(text, old)
        <5>1. j + Len(old) \in 1 .. L + 1
          BY <1>3, <4>2
        <5>2. Tally(text, old, d)[j] = 1 + d[j + Len(old)]
          BY <1>2, <4>1, <4>2
        <5>3. d[j + Len(old)] \in Nat
          BY <5>1
        <5> QED
          BY <5>2, <5>3
      <4>3. CASE j \notin Places(text, old)
        BY <1>2, <4>1, <4>3
      <4> QED
        BY <4>2, <4>3
    <3>3. e \in [1 .. L + 1 -> Nat]
      BY <3>2
    <3>4. \A k \in 1 .. L + 1 : k # j => e[k] = d[k]
      OBVIOUS
    <3>5. e[j] = Tally(text, old, d)[j]
      BY <1>1
    <3> HIDE DEF e
    <3>6. ASSUME NEW i \in 1 .. L + 1, j <= i
          PROVE  Tally(text, old, e)[i] = Tally(text, old, d)[i]
      <4>1. CASE i > L
        BY <1>2, <4>1
      <4>2. CASE ~(i > L) /\ i \in Places(text, old)
        <5>1. i + Len(old) \in 1 .. L + 1 /\ i + Len(old) # j
          BY <1>1, <1>3, <3>6, <4>2
        <5>2. /\ Tally(text, old, e)[i] = 1 + e[i + Len(old)]
              /\ Tally(text, old, d)[i] = 1 + d[i + Len(old)]
          BY <1>2, <4>2
        <5>3. e[i + Len(old)] = d[i + Len(old)]
          BY <3>4, <5>1
        <5> QED
          BY <5>2, <5>3
      <4>3. CASE ~(i > L) /\ i \notin Places(text, old)
        <5>1. i + 1 \in 1 .. L + 1 /\ i + 1 # j
          BY <1>1, <3>6, <4>3
        <5> QED
          BY <1>2, <3>4, <4>3, <5>1
      <4> QED
        BY <4>1, <4>2, <4>3
    <3>7. ASSUME NEW i \in 1 .. L + 1, L + 1 - (n + 1) <= i
          PROVE  e[i] = Tally(text, old, e)[i]
      <4>1. j <= i
        BY <1>1, <3>1, <3>7
      <4>2. CASE i = j
        BY <3>5, <3>6, <4>1, <4>2
      <4>3. CASE i # j
        BY <1>1, <3>1, <3>4, <3>6, <4>1, <4>3
      <4> QED
        BY <4>2, <4>3
    <3>8. Solves(e, n + 1)
      BY <3>7
    <3> HIDE DEF Solves
    <3> QED
      BY <3>3, <3>8
  <2> QED
    BY <2>1, <2>2
<1>6. L \in S
  <2> HIDE DEF S
  <2> QED
    BY <1>1, <1>4, <1>5, Induction
<1>7. PICK d \in [1 .. L + 1 -> Nat] : Solves(d, L)
  BY <1>6
<1>8. d = Tally(text, old, d)
  <2>1. \A i \in 1 .. L + 1 : d[i] = Tally(text, old, d)[i]
    BY <1>1, <1>7
  <2>2. Tally(text, old, d) = [i \in 1 .. L + 1 |-> Tally(text, old, d)[i]]
    BY DEF Tally, L
  <2> QED
    BY <2>1, <2>2
<1> QED
  BY <1>8, Zenon DEF CountFrom

(* What the count from a place on says: 0 if no occurrence begins there or *)
(* later; 1 only if all that begin there or later overlap the first one.   *)
LEMMA CountSays ==
  ASSUME NEW text \in Seq(STRING), NEW old \in Seq(STRING) \ {<<>>}
  PROVE  MatchesOnce(text, old) =>
           \E p \in Places(text, old) :
             \A q \in Places(text, old) : p <= q /\ q < p + Len(old)
<1> DEFINE L == Len(text)
           c == CountFrom(text, old)
           P == Places(text, old)
           Zero(i) == c[i] = 0 => \A q \in P : q < i
           One(i) == c[i] = 1 =>
                       \E p \in P : /\ i <= p
                                    /\ \A q \in P : q < i \/ (p <= q /\ q < p + Len(old))
           S == {n \in Nat : \A i \in 1 .. L + 1 :
                               L + 1 - n <= i => c[i] \in Nat /\ Zero(i) /\ One(i)}
<1>1. L \in Nat /\ Len(old) \in Nat \ {0}
  OBVIOUS
<1>2. ASSUME NEW i \in 1 .. L + 1
      PROVE  c[i] = IF i > L THEN 0 ELSE IF i \in P THEN 1 + c[i + Len(old)]
                    ELSE c[i + 1]
  <2>1. c = Tally(text, old, c)
    BY TallyHasSolution
  <2> HIDE DEF c
  <2>2. Tally(text, old, c)[i] = IF i > L THEN 0
                                 ELSE IF i \in P THEN 1 + c[i + Len(old)] ELSE c[i + 1]
    BY DEF Tally
  <2> QED
    BY <2>1, <2>2
<1>3. \A i \in P : i \in 1 .. L /\ i + Len(old) \in 1 .. L + 1
  BY <1>1 DEF Places
<1>4. MatchesOnce(text, old) <=> c[1] = 1
  BY DEF MatchesOnce, Count, CountFrom, Tally
<1> HIDE DEF L, c, P
<1>5. 0 \in S
  BY <1>1, <1>2, <1>3
<1>6. ASSUME NEW n \in Nat, n \in S PROVE n + 1 \in S
  <2> SUFFICES ASSUME NEW i \in 1 .. L + 1, i = L - n
               PROVE  c[i] \in Nat /\ Zero(i) /\ One(i)
    BY <1>1, <1>6
  <2>1. ASSUME NEW k \in 1 .. L + 1, i < k
        PROVE  c[k] \in Nat /\ Zero(k) /\ One(k)
    BY <1>1, <1>6, <2>1
  <2>2. i \in 1 .. L
    BY <1>1
  <2>3. CASE i \in P
    <3>1. i + Len(old) \in 1 .. L + 1 /\ i < i + Len(old)
      BY <1>1, <1>3, <2>3
    <3>2. c[i] = 1 + c[i + Len(old)]
      BY <1>1, <1>2, <2>2, <2>3
    <3>3. c[i + Len(old)] \in Nat /\ Zero(i + Len(old))
      BY <2>1, <3>1
    <3>4. One(i)
      <4> SUFFICES ASSUME c[i] = 1
                   PROVE  \A q \in P : q < i \/ (i <= q /\ q < i + Len(old))
        BY <2>3
      <4>1. c[i + Len(old)] = 0
        BY <3>2, <3>3
      <4>2. \A q \in P : q < i + Len(old)
        BY <3>3, <4>1
      <4> QED
        BY <1>3, <4>2
    <3> QED
      BY <3>2, <3>3, <3>4
  <2>4. CASE i \notin P
    <3>1. i + 1 \in 1 .. L + 1 /\ c[i] = c[i + 1]
      BY <1>1, <1>2, <2>2, <2>4
    <3>2. c[i + 1] \in Nat /\ Zero(i + 1) /\ One(i + 1)
      BY <1>1, <2>1, <3>1
    <3>3. \A q \in P : q < i + 1 => q < i
      BY <1>1, <1>3, <2>4
    <3>4. Zero(i)
      BY <3>1, <3>2, <3>3
    <3>5. One(i)
      BY <1>1, <1>3, <3>1, <3>2, <3>3
    <3> QED
      BY <3>1, <3>2, <3>4, <3>5
  <2> QED
    BY <2>3, <2>4
<1>7. L \in S
  <2> HIDE DEF S
  <2> QED
    BY <1>1, <1>5, <1>6, Induction
<1>8. One(1)
  BY <1>1, <1>7
<1> QED
  BY <1>1, <1>3, <1>4, <1>8 DEF P
(* Where the characters of three texts in a row come from                  *)
LEMMA Spliced ==
  ASSUME NEW a \in Seq(STRING), NEW b \in Seq(STRING), NEW c \in Seq(STRING)
  PROVE  /\ a \o b \o c \in Seq(STRING)
         /\ Len(a \o b \o c) = Len(a) + Len(b) + Len(c)
         /\ \A k \in 1 .. Len(a) : (a \o b \o c)[k] = a[k]
         /\ \A k \in 1 .. Len(b) : (a \o b \o c)[Len(a) + k] = b[k]
         /\ \A k \in 1 .. Len(c) : (a \o b \o c)[Len(a) + Len(b) + k] = c[k]
<1> DEFINE ab == a \o b
<1>1. Len(a) \in Nat /\ Len(b) \in Nat /\ Len(c) \in Nat
  OBVIOUS
<1>2. /\ ab \in Seq(STRING) /\ Len(ab) = Len(a) + Len(b)
      /\ \A k \in 1 .. Len(a) + Len(b) :
           ab[k] = IF k <= Len(a) THEN a[k] ELSE b[k - Len(a)]
  BY ConcatProperties
<1> HIDE DEF ab
<1>a. ab \in Seq(STRING) /\ c \in Seq(STRING)
  BY <1>2
<1>3. /\ ab \o c \in Seq(STRING) /\ Len(ab \o c) = Len(ab) + Len(c)
      /\ \A k \in 1 .. Len(ab) + Len(c) :
           (ab \o c)[k] = IF k <= Len(ab) THEN ab[k] ELSE c[k - Len(ab)]
  BY ONLY <1>a, ConcatProperties
<1>4. \A k \in 1 .. Len(a) : (ab \o c)[k] = a[k]
  BY <1>1, <1>2, <1>3
<1>5. \A k \in 1 .. Len(b) : (ab \o c)[Len(a) + k] = b[k]
  BY <1>1, <1>2, <1>3
<1>6. \A k \in 1 .. Len(c) : (ab \o c)[Len(a) + Len(b) + k] = c[k]
  BY <1>1, <1>2, <1>3
<1> QED
  BY <1>2, <1>3, <1>4, <1>5, <1>6 DEF ab

(* A text that matches once has a first occurrence, at which it is taken   *)
(* apart.                                                                  *)
LEMMA TakenApart ==
  ASSUME NEW text \in Seq(STRING), NEW old \in Seq(STRING) \ {<<>>},
         MatchesOnce(text, old)
  PROVE  LET i == Min(Places(text, old))
             head == SubSeq(text, 1, i - 1)
             tail == SubSeq(text, i + Len(old), Len(text))
         IN  /\ i \in Places(text, old)
             /\ i \in 1 .. Len(text) /\ i + Len(old) - 1 <= Len(text)
             /\ head \in Seq(STRING) /\ Len(head) = i - 1
             /\ \A k \in 1 .. i - 1 : head[k] = text[k]
             /\ tail \in Seq(STRING) /\ Len(tail) = Len(text) - (i + Len(old)) + 1
             /\ \A k \in 1 .. Len(tail) : tail[k] = text[i + Len(old) + k - 1]
<1> DEFINE i == Min(Places(text, old))
           head == SubSeq(text, 1, i - 1)
           tail == SubSeq(text, i + Len(old), Len(text))
<1>1. i \in Places(text, old)
  <2>1. Places(text, old) # {}
    BY CountSays
  <2>2. Places(text, old) \subseteq Nat
    BY DEF Places
  <2> QED
    BY <2>1, <2>2, FirstPlace
<1>2. i \in 1 .. Len(text) /\ i + Len(old) - 1 <= Len(text) /\ Len(old) \in Nat \ {0}
  BY <1>1 DEF Places
<1> HIDE DEF i
<1>3. /\ head \in Seq(STRING) /\ Len(head) = i - 1
      /\ \A k \in 1 .. i - 1 : head[k] = text[k]
  BY <1>2
<1>4. /\ tail \in Seq(STRING) /\ Len(tail) = Len(text) - (i + Len(old)) + 1
      /\ \A k \in 1 .. Len(text) - (i + Len(old)) + 1 :
           tail[k] = text[i + Len(old) + k - 1]
  BY <1>2
<1> HIDE DEF head, tail
<1>5. \A k \in 1 .. Len(tail) : tail[k] = text[i + Len(old) + k - 1]
  BY <1>4
<1> QED
  BY ONLY <1>1, <1>2, <1>3, <1>4, <1>5 DEF i, head, tail

(* What a patch writes is a text again.                                    *)
LEMMA ReplacedIsText ==
  ASSUME NEW text \in Seq(STRING), NEW old \in Seq(STRING) \ {<<>>},
         NEW new \in Seq(STRING), MatchesOnce(text, old)
  PROVE  Replaced(text, old, new) \in Seq(STRING)
BY TakenApart, Spliced DEF Replaced

(* A patch whose new text shares no character with the old one leaves no   *)
(* occurrence of the old one behind.                                       *)
LEMMA NothingLeftToMatch ==
  ASSUME NEW text \in Seq(STRING), NEW old \in Seq(STRING) \ {<<>>},
         NEW new \in Seq(STRING) \ {<<>>}, MatchesOnce(text, old),
         \A j \in 1 .. Len(old), k \in 1 .. Len(new) : old[j] # new[k]
  PROVE  ~MatchesOnce(Replaced(text, old, new), old)
<1> DEFINE i == Min(Places(text, old))
           head == SubSeq(text, 1, i - 1)
           tail == SubSeq(text, i + Len(old), Len(text))
           after == Replaced(text, old, new)
<1>len. Len(old) \in Nat \ {0} /\ Len(new) \in Nat \ {0} /\ Len(text) \in Nat
  OBVIOUS
<1>1. /\ i \in Places(text, old) /\ i \in 1 .. Len(text)
      /\ after \in Seq(STRING)
      /\ Len(after) = Len(text) - Len(old) + Len(new)
      /\ \A k \in 1 .. i - 1 : after[k] = text[k]
      /\ \A k \in 1 .. Len(new) : after[i - 1 + k] = new[k]
      /\ \A k \in i + Len(old) .. Len(text) :
           after[k - Len(old) + Len(new)] = text[k]
  <2>1. /\ i \in Places(text, old)
        /\ i \in 1 .. Len(text) /\ i + Len(old) - 1 <= Len(text)
        /\ head \in Seq(STRING) /\ Len(head) = i - 1
        /\ \A k \in 1 .. i - 1 : head[k] = text[k]
        /\ tail \in Seq(STRING) /\ Len(tail) = Len(text) - (i + Len(old)) + 1
        /\ \A k \in 1 .. Len(tail) : tail[k] = text[i + Len(old) + k - 1]
    BY TakenApart
  <2>2. after = head \o new \o tail
    BY DEF Replaced
  <2> HIDE DEF i, head, tail, after
  <2>a. head \in Seq(STRING) /\ tail \in Seq(STRING) /\ new \in Seq(STRING)
    BY <2>1
  <2>3. /\ after \in Seq(STRING)
        /\ Len(after) = Len(head) + Len(new) + Len(tail)
        /\ \A k \in 1 .. Len(head) : after[k] = head[k]
        /\ \A k \in 1 .. Len(new) : after[Len(head) + k] = new[k]
        /\ \A k \in 1 .. Len(tail) : after[Len(head) + Len(new) + k] = tail[k]
    BY ONLY <2>2, <2>a, Spliced
  <2>4. Len(after) = Len(text) - Len(old) + Len(new)
    BY <1>len, <2>1, <2>3
  <2>5. ASSUME NEW k \in i + Len(old) .. Len(text)
        PROVE  after[k - Len(old) + Len(new)] = text[k]
    <3>a. i \in Nat /\ k \in Nat /\ Len(tail) = Len(text) - (i + Len(old)) + 1
      BY <1>len, <2>1
    <3>b. k - (i + Len(old)) + 1 \in 1 .. Len(tail)
      BY <1>len, <3>a
    <3>1. PICK j \in 1 .. Len(tail) : j = k - (i + Len(old)) + 1
      BY <3>b
    <3>2. after[Len(head) + Len(new) + j] = tail[j] /\ tail[j] = text[i + Len(old) + j - 1]
      BY <2>1, <2>3
    <3>3. /\ Len(head) + Len(new) + j = k - Len(old) + Len(new)
          /\ i + Len(old) + j - 1 = k
      BY <1>len, <2>1, <3>1
    <3> QED
      BY <3>2, <3>3
  <2> QED
    BY <2>1, <2>3, <2>4, <2>5
<1>2. \A q \in Places(text, old) : i <= q /\ q < i + Len(old)
  <2>1. PICK p \in Places(text, old) :
          \A q \in Places(text, old) : p <= q /\ q < p + Len(old)
    BY CountSays
  <2>2. Places(text, old) \subseteq Nat
    BY DEF Places
  <2>3. i = p
    BY <1>1, <2>1, <2>2, FirstPlace
  <2> QED
    BY <2>1, <2>3
<1>3. ASSUME NEW q \in 1 .. Len(text), q + Len(old) - 1 <= Len(text),
             \A j \in 1 .. Len(old) : text[q + j - 1] = old[j]
      PROVE  q \in Places(text, old)
  <2>1. /\ SubSeq(text, q, q + Len(old) - 1) \in Seq(STRING)
        /\ Len(SubSeq(text, q, q + Len(old) - 1)) = Len(old)
        /\ \A j \in 1 .. Len(old) :
             SubSeq(text, q, q + Len(old) - 1)[j] = text[q + j - 1]
    BY <1>len, <1>3
  <2>2. SubSeq(text, q, q + Len(old) - 1) = old
    BY <1>3, <2>1, SeqEqual
  <2> QED
    BY <1>3, <2>2 DEF Places
<1> HIDE DEF i, head, tail, after
<1> SUFFICES ASSUME NEW q \in Places(after, old) PROVE FALSE
  BY <1>1, CountSays DEF after
<1>4. /\ q \in 1 .. Len(after) /\ q + Len(old) - 1 <= Len(after)
      /\ \A j \in 1 .. Len(old) : after[q + j - 1] = old[j]
  <2>1. /\ q \in 1 .. Len(after) /\ q + Len(old) - 1 <= Len(after)
        /\ SubSeq(after, q, q + Len(old) - 1) = old
    BY DEF Places
  <2>2. \A j \in 1 .. Len(old) :
          SubSeq(after, q, q + Len(old) - 1)[j] = after[q + j - 1]
    BY <1>1, <1>len, <2>1
  <2> QED
    BY <2>1, <2>2
<1>5. CASE q + Len(old) - 1 < i
  <2>1. q \in 1 .. Len(text) /\ q + Len(old) - 1 <= Len(text)
    BY <1>1, <1>len, <1>4, <1>5
  <2>2. ASSUME NEW j \in 1 .. Len(old) PROVE text[q + j - 1] = old[j]
    <3>1. q + j - 1 \in 1 .. i - 1
      BY <1>1, <1>len, <1>4, <1>5
    <3> QED
      BY <1>1, <1>4, <3>1
  <2>3. q \in Places(text, old)
    BY <1>3, <2>1, <2>2
  <2> QED
    BY <1>2, <1>len, <1>5, <1>1, <1>4, <2>3
<1>6. CASE q < i /\ ~(q + Len(old) - 1 < i)
  <2>1. i - q + 1 \in 1 .. Len(old) /\ q + (i - q + 1) - 1 = i - 1 + 1
    BY <1>1, <1>len, <1>4, <1>6
  <2>2. after[i - 1 + 1] = new[1]
    BY <1>1, <1>len
  <2>3. after[q + (i - q + 1) - 1] = old[i - q + 1]
    BY <1>4, <2>1
  <2>4. old[i - q + 1] = new[1]
    BY <2>1, <2>2, <2>3
  <2> QED
    BY <1>len, <2>1, <2>4
<1>7. CASE ~(q < i) /\ q < i + Len(new)
  <2>1. q - i + 1 \in 1 .. Len(new) /\ i - 1 + (q - i + 1) = q + 1 - 1
    BY <1>1, <1>len, <1>4, <1>7
  <2>2. old[1] = new[q - i + 1]
    BY <1>1, <1>len, <1>4, <2>1
  <2> QED
    BY <1>len, <2>1, <2>2
<1>8. CASE ~(q < i + Len(new))
  <2> DEFINE p == q - Len(new) + Len(old)
  <2>1. /\ p \in 1 .. Len(text) /\ p + Len(old) - 1 <= Len(text)
        /\ i + Len(old) <= p
    BY <1>1, <1>len, <1>4, <1>8
  <2>2. ASSUME NEW j \in 1 .. Len(old) PROVE text[p + j - 1] = old[j]
    <3>1. /\ p + j - 1 \in i + Len(old) .. Len(text)
          /\ (p + j - 1) - Len(old) + Len(new) = q + j - 1
      BY <1>1, <1>len, <1>4, <2>1
    <3> QED
      BY <1>1, <1>4, <3>1
  <2>3. p \in Places(text, old)
    BY <1>3, <2>1, <2>2
  <2> QED
    BY <1>1, <1>2, <1>len, <1>4, <2>1, <2>3
<1> QED
  BY <1>1, <1>4, <1>5, <1>6, <1>7, <1>8

-----------------------------------------------------------------------------
(* Every text in the system is a text, and every patch in the log, or in   *)
(* the hands of apply_patch, matched what it was applied to.               *)

Matching(p, text) ==
  /\ p.old \in Seq(STRING) \ {<<>>} /\ p.new \in Seq(STRING)
  /\ text \in Seq(STRING) /\ MatchesOnce(text, p.old)

LoggedOK(r) ==
  /\ Matching(r.patch, r.before)
  /\ r.whole => r.after = Replaced(r.before, r.patch.old, r.patch.new)

PlacesOK ==
  /\ plan \in Plans /\ next \in Nat \ {0}
  /\ pc \in {"execute", "truncate", "write"} => next <= Len(plan)
  /\ pc \in {"verify", "verified"} => next <= Len(Commands)
  /\ pc \notin {"execute", "truncate", "write", "verify", "verified"} =>
       next <= Len(plan) + Len(Commands)

TextInv ==
  /\ TypeOK /\ PlacesOK
  /\ checkout \in [Files -> Seq(STRING)]
  /\ pc \in {"truncate", "write"} => Change.path \in Files /\ Matching(Change, content)
  /\ (\E S : log \in Seq(S)) /\ \A i \in 1 .. Len(log) : LoggedOK(log[i])

LEMMA TextInitially == Init => TextInv
<1> SUFFICES ASSUME Init PROVE TextInv
  OBVIOUS
<1>1. <<>> \in Plans /\ Len(<<>>) = 0
  <2>1. <<>> \in [1 .. 0 -> Directives] /\ 0 \in 0 .. MaxPlan
    BY StagesAssumption
  <2> QED
    BY <2>1 DEF Plans
<1>2. Len(Commands) \in Nat \ {0}
  BY StagesAssumption
<1> QED
  BY <1>1, <1>2, StagesAssumption DEF Init, TextInv, TypeOK, PlacesOK

(* Writing all of a text or its beginning leaves texts, and the log says   *)
(* what was written.                                                       *)
LEMMA WrittenTexts ==
  ASSUME TextInv, pc = "write", NEW text, text \in Beginnings \cup {Updated},
         Written(text)
  PROVE  /\ tree' \in [Files -> Seq(STRING)]
         /\ (\E S : log' \in Seq(S)) /\ \A i \in 1 .. Len(log') : LoggedOK(log'[i])
         /\ UNCHANGED <<checkout, plan>> /\ content' = NULL
<1> DEFINE r == [patch |-> Change, attempt |-> attempts, before |-> content,
                 after |-> text, whole |-> text = Updated]
<1>1. /\ tree' = [tree EXCEPT ![Change.path] = text]
      /\ log' = Append(log, r)
      /\ UNCHANGED <<checkout, plan>> /\ content' = NULL
  BY DEF Written
<1>2. Change.path \in Files /\ Matching(Change, content)
  BY DEF TextInv
<1>3. Updated \in Seq(STRING)
  BY <1>2, ReplacedIsText DEF Matching, Updated
<1>4. text \in Seq(STRING)
  <2>1. ASSUME NEW u \in Seq(STRING), NEW n \in 0 .. Len(u)
        PROVE  SubSeq(u, 1, n) \in Seq(STRING)
    OBVIOUS
  <2> QED
    BY <1>3, <2>1, Zenon DEF Beginnings
<1>5. LoggedOK(r)
  BY <1>2 DEF LoggedOK, Updated
<1> HIDE DEF r
<1>6. PICK S : log \in Seq(S)
  BY DEF TextInv
<1>7. /\ log' \in Seq(S \cup {r}) /\ Len(log') = Len(log) + 1
      /\ \A i \in 1 .. Len(log) : log'[i] = log[i]
      /\ log'[Len(log) + 1] = r
  BY <1>1, <1>6
<1>8. ASSUME NEW i \in 1 .. Len(log') PROVE LoggedOK(log'[i])
  <2>1. CASE i \in 1 .. Len(log)
    BY <1>7, <2>1 DEF TextInv
  <2>2. CASE i = Len(log) + 1
    BY <1>5, <1>7, <2>2
  <2> QED
    BY <1>6, <1>7, <2>1, <2>2
<1>9. tree' \in [Files -> Seq(STRING)]
  BY <1>1, <1>4 DEF TextInv, TypeOK
<1> QED
  BY <1>1, <1>7, <1>8, <1>9

LEMMA TextStep == TextInv /\ [Next]_vars => TextInv'
<1> SUFFICES ASSUME TextInv, [Next]_vars PROVE TextInv'
  OBVIOUS
<1>len. /\ Len(Commands) \in Nat \ {0} /\ Len(plan) \in Nat
        /\ \A p \in Plans : Len(p) \in Nat /\ p \in [1 .. Len(p) -> Directives]
  <2>1. \A p \in Plans : Len(p) \in Nat /\ p \in [1 .. Len(p) -> Directives]
    BY StagesAssumption DEF Plans
  <2> QED
    BY <2>1, StagesAssumption DEF TextInv, PlacesOK
<1>keep. ASSUME checkout' = checkout,
                \/ UNCHANGED <<tree, log>>
                \/ /\ tree' \in [Files -> Seq(STRING)] /\ \E S : log' \in Seq(S)
                   /\ \A i \in 1 .. Len(log') : LoggedOK(log'[i]),
                PlacesOK',
                pc' \in {"queued", "rejected", "execute", "stopped", "verify", "verified"},
                content' = NULL,
                status' = "verified" <=> pc' = "verified",
                pc' = "verify" => status' = "verification-pending"
         PROVE  TextInv'
  <2>1. next' \in 1 .. Len(plan') + Len(Commands)
    BY <1>keep, <1>len DEF PlacesOK
  <2>2. TypeOK'
    BY <1>keep, <2>1 DEF TextInv, TypeOK
  <2> QED
    BY <1>keep, <2>2 DEF TextInv
<1>proceed. ASSUME Proceed, pc \in {"execute", "write"}, plan' = plan
            PROVE  /\ PlacesOK' /\ pc' \in {"execute", "verify"}
                   /\ status' # "verified"
                   /\ pc' = "verify" => status' = "verification-pending"
  <2>1. next \in Nat \ {0} /\ next <= Len(plan) /\ plan \in Plans
        /\ status # "verified"
    BY <1>proceed DEF TextInv, TypeOK, PlacesOK
  <2>2. CASE next < Len(plan)
    BY <1>len, <1>proceed, <2>1, <2>2 DEF Proceed, PlacesOK
  <2>3. CASE ~(next < Len(plan))
    BY <1>len, <1>proceed, <2>1, <2>3 DEF Proceed, PlacesOK
  <2> QED
    BY <2>2, <2>3
<1>0. CASE UNCHANGED vars
  <2>1. TypeOK' /\ PlacesOK'
    BY <1>0 DEF vars, toolVars, jobVars, TextInv, TypeOK, PlacesOK
  <2> QED
    BY <1>0, <2>1 DEF vars, toolVars, history, TextInv, Change
<1>1. ASSUME NEW copy \in {tree, checkout}, Remediate(copy) PROVE TextInv'
  <2>1. /\ plan' \in Plans /\ next' = 1 /\ checkout' = checkout
        /\ pc' = IF Compiles(plan') THEN "execute" ELSE "rejected"
        /\ status' = "ready-for-remediation"
        /\ tree' \in [Files -> Seq(STRING)]
        /\ content' = NULL
        /\ log' \in {log, <<>>}
    BY <1>1 DEF Remediate, TextInv, TypeOK
  <2>2. Len(plan') \in Nat /\ (Compiles(plan') => Len(plan') >= 1)
    <3>1. Len(plan') \in Nat /\ plan' \in [1 .. Len(plan') -> Directives]
      BY <1>len, <2>1
    <3>2. Len(plan') = 0 => plan' = <<>>
      BY <3>1
    <3> QED
      BY <3>1, <3>2 DEF Compiles
  <2>3. PlacesOK'
    BY <1>len, <2>1, <2>2 DEF PlacesOK
  <2>4. TypeOK'
    BY <1>len, <2>1, <2>2 DEF TypeOK
  <2>5. (\E S : log' \in Seq(S)) /\ \A i \in 1 .. Len(log') : LoggedOK(log'[i])
    <3>1. CASE log' = log
      BY <3>1 DEF TextInv
    <3>2. CASE log' = <<>>
      BY <3>2
    <3> QED
      BY <2>1, <3>1, <3>2
  <2> QED
    BY <2>1, <2>3, <2>4, <2>5 DEF TextInv, LoggedOK, Matching
<1>2. CASE Look
  BY <1>2, <1>proceed, <1>keep DEF Look, history, TextInv, TypeOK
<1>3. CASE ReadForPatch
  <2>1. /\ pc = "execute" /\ pc' = "truncate" /\ Patchable
        /\ content' = tree[Change.path]
        /\ UNCHANGED <<checkout, tree, log, plan, next, status>>
    BY <1>3 DEF ReadForPatch, Current, jobVars, history
  <2>2. Change \in Directives
    BY <1>len, <2>1 DEF TextInv, PlacesOK, Change
  <2>3. Change.path \in Files /\ Matching(Change, tree[Change.path])
    BY <2>1, <2>2, StagesAssumption
    DEF Patchable, Current, Matching, TextInv, TypeOK
  <2>4. content' # NULL
    BY <2>1, <2>3, StagesAssumption DEF Matching
  <2>5. TypeOK' /\ PlacesOK'
    BY <2>1, <2>4 DEF TextInv, TypeOK, PlacesOK
  <2> QED
    BY <2>1, <2>3, <2>5 DEF TextInv, Change
<1>4. CASE Truncate
  <2>1. /\ pc = "truncate" /\ pc' = "write"
        /\ tree' = [tree EXCEPT ![Change.path] = <<>>]
        /\ UNCHANGED <<checkout, log, plan, next, content, status>>
    BY <1>4 DEF Truncate, toolVars, jobVars, history
  <2>2. tree' \in [Files -> Seq(STRING)]
    BY <2>1 DEF TextInv, TypeOK
  <2>3. TypeOK' /\ PlacesOK'
    BY <2>1, <2>2 DEF TextInv, TypeOK, PlacesOK
  <2> QED
    BY <2>1, <2>3 DEF TextInv, Change
<1>5. CASE WriteBack
  <2>1. pc = "write" /\ Proceed /\ Written(Updated)
    BY <1>5 DEF WriteBack
  <2>2. /\ tree' \in [Files -> Seq(STRING)]
        /\ (\E S : log' \in Seq(S)) /\ \A i \in 1 .. Len(log') : LoggedOK(log'[i])
        /\ UNCHANGED <<checkout, plan>> /\ content' = NULL
    BY <2>1, WrittenTexts
  <2>3. /\ PlacesOK' /\ pc' \in {"execute", "verify"} /\ status' # "verified"
        /\ pc' = "verify" => status' = "verification-pending"
    BY <2>1, <2>2, <1>proceed
  <2> QED
    BY <2>2, <2>3, <1>keep
<1>6. CASE ToolFails
  <2>1. /\ pc' = "stopped" /\ pc = "execute"
        /\ UNCHANGED <<checkout, tree, log, plan, next, content, status>>
    BY <1>6 DEF ToolFails, toolVars, jobVars, history
  <2>2. PlacesOK'
    BY <1>len, <2>1 DEF TextInv, PlacesOK
  <2> QED
    BY <2>1, <2>2, <1>keep DEF TextInv, TypeOK
<1>11. CASE CannotOpen
  <2>1. /\ pc' = "stopped" /\ pc = "truncate" /\ content' = NULL
        /\ UNCHANGED <<checkout, tree, log, plan, next, status>>
    BY <1>11 DEF CannotOpen, jobVars, history
  <2>2. PlacesOK'
    BY <1>len, <2>1 DEF TextInv, PlacesOK
  <2> QED
    BY <2>1, <2>2, <1>keep DEF TextInv, TypeOK
<1>12. CASE WriteFails
  <2>1. PICK text \in Beginnings : Written(text)
    BY <1>12 DEF WriteFails
  <2>2. pc = "write" /\ pc' = "stopped" /\ UNCHANGED <<next, status>>
    BY <1>12 DEF WriteFails, jobVars
  <2>3. /\ tree' \in [Files -> Seq(STRING)]
        /\ (\E S : log' \in Seq(S)) /\ \A i \in 1 .. Len(log') : LoggedOK(log'[i])
        /\ UNCHANGED <<checkout, plan>> /\ content' = NULL
    BY <2>1, <2>2, WrittenTexts
  <2>4. PlacesOK'
    BY <1>len, <2>2, <2>3 DEF TextInv, PlacesOK
  <2> QED
    BY <2>2, <2>3, <2>4, <1>keep DEF TextInv, TypeOK
<1>7. CASE NoResult
  <2>1. /\ pc' = "stopped" /\ pc = "verify" /\ status' = "failed"
        /\ UNCHANGED <<checkout, tree, log, plan, next, content>>
    BY <1>7 DEF NoResult, VerificationFails, history
  <2>2. PlacesOK'
    BY <1>len, <2>1 DEF TextInv, PlacesOK
  <2> QED
    BY <2>1, <2>2, <1>keep DEF TextInv, TypeOK
<1>8. CASE Result
  <2>1. /\ pc = "verify" /\ (VerificationGoesOn \/ VerificationFails)
        /\ UNCHANGED <<checkout, tree, log, plan, content>>
    BY <1>8 DEF Result
  <2>2. content = NULL /\ next \in Nat \ {0} /\ next <= Len(Commands)
        /\ plan \in Plans /\ status = "verification-pending"
    BY <2>1 DEF TextInv, TypeOK, PlacesOK
  <2>3. CASE VerificationGoesOn
    <3>1. PlacesOK'
      BY <1>len, <2>1, <2>2, <2>3 DEF VerificationGoesOn, PlacesOK
    <3> QED
      BY <2>1, <2>2, <2>3, <3>1, <1>keep DEF VerificationGoesOn
  <2>4. CASE VerificationFails
    <3>1. PlacesOK'
      BY <1>len, <2>1, <2>2, <2>4 DEF VerificationFails, PlacesOK
    <3> QED
      BY <2>1, <2>2, <2>4, <3>1, <1>keep DEF VerificationFails
  <2> QED
    BY <2>1, <2>3, <2>4
<1>13. CASE SandboxRaises
  <2>1. /\ pc' = "stopped" /\ pc = "verify"
        /\ UNCHANGED <<checkout, tree, log, plan, next, content, status>>
    BY <1>13 DEF SandboxRaises, toolVars
  <2>2. PlacesOK'
    BY <1>len, <2>1 DEF TextInv, PlacesOK
  <2> QED
    BY <2>1, <2>2, <1>keep DEF TextInv, TypeOK
<1>9. CASE Requeue
  <2>1. PlacesOK'
    BY <1>9 DEF Requeue, TextInv, PlacesOK
  <2> QED
    BY <1>9, <2>1, <1>keep DEF Requeue, history
<1>10. CASE Crash
  <2>0. content' = NULL /\ UNCHANGED <<checkout, plan>>
    <3>1. CASE pc = "write"
      <4>1. PICK text \in Beginnings : Written(text)
        BY <1>10, <3>1 DEF Crash
      <4> QED
        BY <4>1 DEF Written
    <3>2. CASE pc # "write"
      BY <1>10, <3>2 DEF Crash
    <3> QED
      BY <3>1, <3>2
  <2>1. PlacesOK' /\ content' = NULL /\ checkout' = checkout
    BY <1>10, <1>len, <2>0 DEF Crash, TextInv, PlacesOK
  <2>2. /\ pc' \in {"queued", "verify"} /\ status' # "verified"
        /\ pc' = "verify" => status' = "verification-pending"
    BY <1>10 DEF Crash, TextInv, TypeOK
  <2>3. CASE pc = "write"
    <3>1. PICK text \in Beginnings : Written(text)
      BY <1>10, <2>3 DEF Crash
    <3> QED
      BY <2>1, <2>2, <2>3, <3>1, WrittenTexts, <1>keep
  <2>4. CASE pc # "write"
    BY <1>10, <2>1, <2>2, <2>4, <1>keep DEF Crash
  <2> QED
    BY <2>3, <2>4
<1> QED
  BY <1>0, <1>1, <1>2, <1>3, <1>4, <1>5, <1>6, <1>7, <1>8, <1>9, <1>10, <1>11,
     <1>12, <1>13 DEF Next

(* Every variable of the stages holds a value of its type; in particular a *)
(* patched file is a text again.                                           *)
THEOREM StagesTypeCorrect == Spec => []TypeOK
<1>1. TextInv => TypeOK
  BY DEF TextInv
<1> QED
  BY <1>1, TextInitially, TextStep, PTL DEF Spec

(* However often a plan is tried again on the same working copy, a patch   *)
(* whose new text is not empty and shares no character with the old one is *)
(* not applied again right after it was written whole                      *)
(* (ApplyPatchTool.invoke): that leaves nothing that it would match.       *)
THEOREM StagesRetryDoesNotRepeat == Spec => []RetryDoesNotRepeat
<1>1. TextInv /\ CompositionInv => RetryDoesNotRepeat
  <2> SUFFICES ASSUME TextInv, CompositionInv,
                      NEW i \in 1 .. Len(log), NEW k \in 1 .. Len(log), i < k,
                      log[i].whole,
                      NEW p, p = log[i].patch,
                      \A between \in i + 1 .. k - 1 : log[between].patch.path # p.path,
                      p.new # <<>>,
                      {p.new[c] : c \in 1 .. Len(p.new)}
                        \cap {p.old[c] : c \in 1 .. Len(p.old)} = {},
                      log[k].patch = p
               PROVE  FALSE
    BY DEF RetryDoesNotRepeat
  <2>1. LoggedOK(log[i]) /\ LoggedOK(log[k])
    BY DEF TextInv
  <2>2. Made(p.path, k - 1, log[k].before)
    BY DEF CompositionInv, LogComposes
  <2>3. i \in 1 .. k - 1
    OBVIOUS
  <2>4. PICK j \in 1 .. k - 1 :
          /\ log[j].patch.path = p.path /\ log[k].before = log[j].after
          /\ \A l \in j + 1 .. k - 1 : log[l].patch.path # p.path
    BY <2>2, <2>3 DEF Made
  <2>5. j = i
    BY <2>3, <2>4
  <2>6. /\ p.old \in Seq(STRING) \ {<<>>} /\ p.new \in Seq(STRING) \ {<<>>}
        /\ log[i].before \in Seq(STRING) /\ MatchesOnce(log[i].before, p.old)
        /\ MatchesOnce(Replaced(log[i].before, p.old, p.new), p.old)
    BY <2>1, <2>4, <2>5 DEF LoggedOK, Matching
  <2>7. \A a \in 1 .. Len(p.old), b \in 1 .. Len(p.new) : p.old[a] # p.new[b]
    OBVIOUS
  <2> QED
    BY <2>6, <2>7, NothingLeftToMatch
<1> QED
  BY <1>1, TextInitially, TextStep, CompositionInitially, CompositionStep, PTL DEF Spec
-----------------------------------------------------------------------------
(* Only whole plans are verified.                                          *)

PatchWritten(n) ==
  plan[n].tool = "apply_patch" =>
    \E i \in 1 .. Len(log) : log[i].attempt = attempts /\ log[i].patch = plan[n]

(* No write of the attempt in hand was cut short, and the patches before   *)
(* the change in hand are written.                                         *)
WholeSoFar ==
  /\ \A i \in 1 .. Len(log) : log[i].attempt = attempts => log[i].whole
  /\ pc \in {"execute", "truncate", "write"} =>
       \A n \in 1 .. next - 1 : PatchWritten(n)
  /\ pc \in {"verify", "verified"} =>
       \A n \in 1 .. Len(plan) : PatchWritten(n)

WholeInv ==
  /\ attempts \in Nat
  /\ \A i \in 1 .. Len(log) : log[i].attempt \in 0 .. attempts
  /\ pc \in {"execute", "truncate", "write", "verify", "verified"} => WholeSoFar

LEMMA WholeInitially == Init => WholeInv
BY DEF Init, WholeInv

(* A step that ends the attempt, or goes on with it and writes nothing     *)
LEMMA WholeKept ==
  ASSUME WholeInv, UNCHANGED <<log, attempts>>,
         \/ pc' \in {"queued", "rejected", "stopped"}
         \/ pc \in {"execute", "truncate"} /\ pc' \in {"truncate", "write"}
            /\ UNCHANGED <<plan, next>>
         \/ pc \in {"verify", "verified"} /\ pc' \in {"verify", "verified"}
            /\ UNCHANGED plan
         \/ UNCHANGED <<pc, plan, next>>
  PROVE  WholeInv'
BY DEF WholeInv, WholeSoFar, PatchWritten

(* What a write appends to the log                                         *)
LEMMA WrittenLogged ==
  ASSUME TextInv, WholeInv, NEW text, Written(text)
  PROVE  /\ Len(log) \in Nat /\ Len(log') = Len(log) + 1
         /\ \A i \in 1 .. Len(log) : log'[i] = log[i]
         /\ log'[Len(log) + 1].attempt = attempts
         /\ log'[Len(log) + 1].patch = Change
         /\ log'[Len(log) + 1].whole = (text = Updated)
         /\ attempts' = attempts /\ plan' = plan
         /\ \A i \in 1 .. Len(log') : log'[i].attempt \in 0 .. attempts'
<1> DEFINE r == [patch |-> Change, attempt |-> attempts, before |-> content,
                 after |-> text, whole |-> text = Updated]
<1>1. log' = Append(log, r) /\ attempts' = attempts /\ plan' = plan
  BY DEF Written
<1>2. r.attempt = attempts /\ r.patch = Change /\ r.whole = (text = Updated)
  OBVIOUS
<1> HIDE DEF r
<1>3. PICK S : log \in Seq(S)
  BY DEF TextInv
<1>4. /\ Len(log) \in Nat /\ Len(log') = Len(log) + 1
      /\ \A i \in 1 .. Len(log) : log'[i] = log[i]
      /\ log'[Len(log) + 1] = r
  BY <1>1, <1>3
<1>5. \A i \in 1 .. Len(log') : log'[i].attempt \in 0 .. attempts'
  BY <1>1, <1>2, <1>4 DEF WholeInv
<1> QED
  BY <1>1, <1>2, <1>4, <1>5

(* A change that has been made, and written if it is a patch               *)
LEMMA WholeProceeds ==
  ASSUME TextInv, Proceed, plan' = plan, attempts' = attempts,
         pc \in {"execute", "write"},
         \A i \in 1 .. Len(log') : log'[i].attempt \in 0 .. attempts',
         \A i \in 1 .. Len(log') : log'[i].attempt = attempts' => log'[i].whole,
         \A n \in 1 .. next : PatchWritten(n)',
         attempts \in Nat
  PROVE  WholeInv'
<1>1. next \in Nat \ {0} /\ next <= Len(plan) /\ Len(plan) \in Nat
  <2>1. \A p \in Plans : Len(p) \in Nat
    BY StagesAssumption DEF Plans
  <2> QED
    BY <2>1 DEF TextInv, PlacesOK
<1>2. CASE next < Len(plan)
  BY <1>1, <1>2 DEF Proceed, WholeInv, WholeSoFar
<1>3. CASE ~(next < Len(plan))
  <2>1. next = Len(plan)
    BY <1>1, <1>3
  <2> QED
    BY <1>1, <1>3, <2>1 DEF Proceed, WholeInv, WholeSoFar
<1> QED
  BY <1>2, <1>3

LEMMA WholeStep == TextInv /\ WholeInv /\ [Next]_vars => WholeInv'
<1> SUFFICES ASSUME TextInv, WholeInv, [Next]_vars PROVE WholeInv'
  OBVIOUS
<1>0. CASE UNCHANGED vars
  BY <1>0, WholeKept DEF vars, toolVars, history
<1>1. ASSUME NEW copy \in {tree, checkout}, Remediate(copy) PROVE WholeInv'
  <2>1. attempts' = attempts + 1 /\ attempts \in Nat /\ next' = 1
        /\ pc' \in {"execute", "rejected"}
    BY <1>1 DEF Remediate, WholeInv
  <2>2. \A i \in 1 .. Len(log') : log'[i].attempt \in 0 .. attempts
    <3>1. CASE log' = log
      BY <3>1 DEF WholeInv
    <3>2. CASE log' = <<>>
      BY <3>2
    <3> QED
      BY <1>1, <3>1, <3>2 DEF Remediate
  <2>3. \A i \in 1 .. Len(log') : /\ log'[i].attempt \in 0 .. attempts'
                                  /\ log'[i].attempt # attempts'
    BY <2>1, <2>2
  <2> QED
    BY <2>1, <2>3 DEF WholeInv, WholeSoFar
<1>2. CASE Look
  <2>1. /\ pc = "execute" /\ Proceed /\ Change.tool # "apply_patch"
        /\ UNCHANGED <<plan, log, attempts>>
    BY <1>2 DEF Look, history
  <2>2. \A n \in 1 .. next : PatchWritten(n)'
    <3>1. \A n \in 1 .. next - 1 : PatchWritten(n)
      BY <2>1 DEF WholeInv, WholeSoFar
    <3>2. PatchWritten(next)
      BY <2>1 DEF PatchWritten, Change
    <3>3. next \in Nat
      BY DEF TextInv, PlacesOK
    <3>4. \A n \in 1 .. next : PatchWritten(n)
      BY <3>1, <3>2, <3>3
    <3> QED
      BY <2>1, <3>4 DEF PatchWritten
  <2> QED
    BY <2>1, <2>2, WholeProceeds DEF WholeInv, WholeSoFar
<1>3. CASE ReadForPatch
  BY <1>3, WholeKept DEF ReadForPatch, history
<1>4. CASE Truncate
  BY <1>4, WholeKept DEF Truncate, toolVars, history
<1>5. CASE WriteBack
  <2>1. pc = "write" /\ Proceed /\ Written(Updated)
    BY <1>5 DEF WriteBack
  <2>2. /\ Len(log) \in Nat /\ Len(log') = Len(log) + 1
        /\ \A i \in 1 .. Len(log) : log'[i] = log[i]
        /\ log'[Len(log) + 1].attempt = attempts
        /\ log'[Len(log) + 1].patch = Change
        /\ log'[Len(log) + 1].whole
        /\ attempts' = attempts /\ plan' = plan
        /\ \A i \in 1 .. Len(log') : log'[i].attempt \in 0 .. attempts'
    BY <2>1, WrittenLogged
  <2>3. \A i \in 1 .. Len(log') : log'[i].attempt = attempts' => log'[i].whole
    BY <2>1, <2>2 DEF WholeInv, WholeSoFar
  <2>4. \A n \in 1 .. next : PatchWritten(n)'
    <3>1. ASSUME NEW n \in 1 .. next - 1 PROVE PatchWritten(n)'
      <4>1. PatchWritten(n)
        BY <2>1 DEF WholeInv, WholeSoFar
      <4> QED
        BY <2>2, <4>1 DEF PatchWritten
    <3>2. ASSUME NEW n, n = next PROVE PatchWritten(n)'
      <4>1. Len(log) + 1 \in 1 .. Len(log')
        BY <2>2
      <4> QED
        BY <2>2, <3>2, <4>1 DEF PatchWritten, Change
    <3>3. next \in Nat
      BY DEF TextInv, PlacesOK
    <3> QED
      BY <3>1, <3>2, <3>3
  <2> QED
    BY <2>1, <2>2, <2>3, <2>4, WholeProceeds DEF WholeInv
<1>6. CASE ToolFails
  BY <1>6, WholeKept DEF ToolFails, history
<1>7. CASE CannotOpen
  BY <1>7, WholeKept DEF CannotOpen, history
<1>written. ASSUME NEW text, Written(text), pc' \in {"queued", "stopped"}
            PROVE  WholeInv'
  BY <1>written, WrittenLogged DEF WholeInv
<1>8. CASE WriteFails
  BY <1>8, <1>written DEF WriteFails
<1>9. CASE NoResult
  BY <1>9, WholeKept DEF NoResult, VerificationFails, history
<1>10. CASE Result
  <2>1. /\ pc = "verify" /\ pc' \in {"verify", "verified", "stopped"}
        /\ UNCHANGED <<plan, log, attempts>>
    BY <1>10 DEF Result, VerificationGoesOn, VerificationFails
  <2> QED
    BY <2>1, WholeKept
<1>11. CASE SandboxRaises
  BY <1>11, WholeKept DEF SandboxRaises
<1>12. CASE Requeue
  BY <1>12, WholeKept DEF Requeue, history
<1>13. CASE Crash
  <2>1. CASE pc = "write"
    BY <1>13, <2>1, <1>written DEF Crash
  <2>2. CASE pc # "write"
    BY <1>13, <2>2, WholeKept DEF Crash
  <2> QED
    BY <2>1, <2>2
<1> QED
  BY <1>0, <1>1, <1>2, <1>3, <1>4, <1>5, <1>6, <1>7, <1>8, <1>9, <1>10, <1>11,
     <1>12, <1>13 DEF Next

(* What is verified was patched with the whole of its plan: no patch of    *)
(* the attempt is missing, and none was cut short by a write that failed   *)
(* (PolicyGatedToolExecutor.execute turns every exception into an error    *)
(* that ends remediate).                                                   *)
THEOREM StagesWholePlanVerified == Spec => []WholePlanVerified
<1>1. WholeInv => WholePlanVerified
  BY DEF WholeInv, WholeSoFar, PatchWritten, WholePlanVerified
<1>2. TextInv /\ WholeInv /\ [Next]_vars => TextInv' /\ WholeInv'
  BY TextStep, WholeStep
<1> QED
  BY <1>1, <1>2, TextInitially, WholeInitially, PTL DEF Spec
=============================================================================
