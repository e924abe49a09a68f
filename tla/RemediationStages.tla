-------------------------- MODULE RemediationStages --------------------------
(***************************************************************************)
(* What the worker's stages do to a working copy: the run of a model's     *)
(* plan through the policy-gated tools (sentinel/remediation_orchestrator  *)
(* .py, tool_requests.py, tool_executor.py, tool_policy.py, patch_tool.py, *)
(* repository_tools.py) and the verification of the result                 *)
(* (verification_workflow.py, verification.py, sandbox.py).                *)
(*                                                                         *)
(* The handlers that call them are injected and not in the repository.     *)
(* They are taken to work on one working copy, which a retry may find as   *)
(* the last attempt left it or may get anew; the model and the sandbox are *)
(* external.  The worker (RemediationWorker) puts a job that failed back   *)
(* to the first stage, and resumes a job whose process died where its last *)
(* checkpoint was.  A file is the sequence of characters that read_text    *)
(* gives, where every line ending is one character.                        *)
(***************************************************************************)
EXTENDS Naturals, Sequences, FiniteSets, FiniteSetsExt

CONSTANTS
  Files,        \* the files of the working copy
  Checkouts,    \* contents of a fresh working copy, one is the revision's
  Directives,   \* changes that a plan may contain
  MaxPlan,      \* how many changes a plan has at most
  Registered,   \* names of the tools in the registry
  Commands,     \* the commands to verify with, in order
  Allowed,      \* the commands on the engine's allowlist
  MaxAttempts,  \* how often the first stage runs
  MaxFaults,    \* how many processes die
  NULL

ASSUME StagesAssumption ==
  /\ Checkouts \subseteq [Files -> Seq(STRING)] /\ NULL \notin Seq(STRING)
  /\ \A d \in Directives : d.tool = "apply_patch" =>
                             d.old \in Seq(STRING) /\ d.new \in Seq(STRING)
  /\ Commands \in Seq(STRING) \ {<<>>}
  /\ MaxPlan \in Nat /\ MaxAttempts \in Nat /\ MaxFaults \in Nat

VARIABLES
  checkout,  \* the revision
  sandbox,   \* whether an isolated sandbox is configured
  tree,      \* the working copy
  pc,
  plan,      \* the changes of the plan in hand
  next,      \* the change, or the command, that comes next
  content,   \* what apply_patch has read and is about to write back
  results,   \* the verification results so far
  status,    \* the status of the job
  attempts, faults,
  start,     \* history: the working copy when the attempt began
  log,       \* history: the patches written to this working copy
  ran        \* history: the working copies that commands ran on

toolVars == <<plan, next, content>>
jobVars == <<results, status>>
history == <<start, log, ran>>
vars == <<checkout, sandbox, tree, pc, toolVars, jobVars, attempts, faults, history>>

Init ==
  /\ checkout \in Checkouts /\ sandbox \in BOOLEAN
  /\ tree = checkout /\ start = checkout
  /\ pc = "queued" /\ status = "queued"
  /\ plan = <<>> /\ next = 1 /\ content = NULL
  /\ results = <<>> /\ log = <<>> /\ ran = <<>>
  /\ attempts = 0 /\ faults = 0

-----------------------------------------------------------------------------
(* Texts *)

Places(text, old) ==
  {i \in 1 .. Len(text) : /\ i + Len(old) - 1 <= Len(text)
                          /\ SubSeq(text, i, i + Len(old) - 1) = old}

(* str.count: occurrences from the left that do not overlap                *)
Count(text, old) ==
  LET c[i \in 1 .. Len(text) + 1] ==
        IF i > Len(text) THEN 0
        ELSE IF i \in Places(text, old) THEN 1 + c[i + Len(old)]
        ELSE c[i + 1]
  IN  c[1]

(* str.replace(old, new, 1)                                                *)
ReplacedKeepingOld(text, old, new) ==
  LET i == Min(Places(text, old))
  IN  SubSeq(text, 1, i - 1) \o old \o new \o SubSeq(text, i + Len(old), Len(text))
Replaced(text, old, new) ==
  LET i == Min(Places(text, old))
  IN  SubSeq(text, 1, i - 1) \o new \o SubSeq(text, i + Len(old), Len(text))

-----------------------------------------------------------------------------
(* compile_tool_requests and the policy: the plan is refused as a whole if *)
(* it is empty or one of its changes is no request for an allowed tool.    *)
AllowedTools == {"read_file", "search_code", "apply_patch"}
Compiles(changes) ==
  changes # <<>> /\ \A i \in 1 .. Len(changes) : changes[i].tool \in AllowedTools

Plans == UNION {[1 .. n -> Directives] : n \in 0 .. MaxPlan}

(* remediate: the model answers, and its plan is compiled.                 *)
Remediate(copy) ==
  /\ pc = "queued" /\ attempts < MaxAttempts
  /\ attempts' = attempts + 1
  /\ tree' = copy /\ start' = copy
  /\ log' = IF copy = tree THEN log ELSE <<>>
  /\ plan' \in Plans
  /\ next' = 1
  /\ pc' = IF Compiles(plan') THEN "execute" ELSE "rejected"
  /\ status' = "ready-for-remediation"
  /\ results' = <<>> /\ ran' = <<>>
  /\ UNCHANGED <<checkout, sandbox, content, faults>>

(* After the last change the job goes to verification-pending.             *)
Proceed ==
  IF next < Len(plan)
  THEN next' = next + 1 /\ pc' = "execute" /\ UNCHANGED status
  ELSE next' = 1 /\ pc' = "verify" /\ status' = "verification-pending"

(* PolicyGatedToolExecutor.execute, with tools that look only.             *)
Change == plan[next]
Look ==
  /\ pc = "execute"
  /\ Change.tool \in {"read_file", "search_code"} \cap Registered
  /\ Change.tool = "read_file" => Change.path \in Files
  /\ Proceed
  /\ UNCHANGED <<checkout, sandbox, tree, plan, content, results, attempts,
                 faults, history>>

(* ApplyPatchTool.invoke, up to its write                                  *)
MatchesOnce(text, old) == Count(text, old) = 1
CurrentAtStart(path) == start[path]
Current(path) == tree[path]
Patchable ==
  /\ Change.tool = "apply_patch" /\ "apply_patch" \in Registered
  /\ Change.old # <<>>
  /\ Change.path \in Files
  /\ MatchesOnce(Current(Change.path), Change.old)
ReadForPatch ==
  /\ pc = "execute" /\ Patchable
  /\ content' = Current(Change.path)
  /\ pc' = "truncate"
  /\ UNCHANGED <<checkout, sandbox, tree, plan, next, jobVars, attempts, faults,
                 history>>

(* write_text opens the file, which empties it, and then writes.           *)
Truncate ==
  /\ pc = "truncate"
  /\ tree' = [tree EXCEPT ![Change.path] = <<>>]
  /\ pc' = "write"
  /\ UNCHANGED <<checkout, sandbox, toolVars, jobVars, attempts, faults, history>>

Updated == Replaced(content, Change.old, Change.new)
Written(text) ==
  /\ tree' = [tree EXCEPT ![Change.path] = text]
  /\ log' = Append(log, [patch |-> Change, attempt |-> attempts,
                         before |-> content, after |-> text,
                         whole |-> text = Updated])
  /\ content' = NULL
  /\ UNCHANGED <<checkout, sandbox, plan, attempts, start>>
WriteBack ==
  /\ pc = "write"
  /\ Written(Updated)
  /\ Proceed
  /\ UNCHANGED <<results, ran, faults>>

(* Nothing of the text is written when it cannot be encoded, and only the  *)
(* beginning when the disk is full.  The executor turns what write_text    *)
(* raises, on opening the file too, into a ToolExecutionError, which ends  *)
(* the attempt and leaves the file as it is by then.                       *)
Beginnings == {SubSeq(Updated, 1, n) : n \in 0 .. Len(Updated)}
CannotOpen ==
  /\ pc = "truncate"
  /\ pc' = "stopped"
  /\ content' = NULL
  /\ UNCHANGED <<checkout, sandbox, tree, plan, next, jobVars, attempts, faults,
                 history>>
WriteFailsUnnoticed ==
  /\ pc = "write"
  /\ \E text \in Beginnings : Written(text)
  /\ Proceed
  /\ UNCHANGED <<results, ran, faults>>
WriteFails ==
  /\ pc = "write"
  /\ \E text \in Beginnings : Written(text)
  /\ pc' = "stopped"
  /\ UNCHANGED <<next, jobVars, ran, faults>>

(* Any other request: not registered, outside the root, no such file, no   *)
(* single match.  RemediationOrchestrationError ends the attempt.          *)
ToolFails ==
  /\ pc = "execute"
  /\ ~Patchable
  /\ ~(/\ Change.tool \in {"read_file", "search_code"} \cap Registered
       /\ Change.tool = "read_file" => Change.path \in Files)
  /\ pc' = "stopped"
  /\ UNCHANGED <<checkout, sandbox, tree, toolVars, jobVars, attempts, faults,
                 history>>

-----------------------------------------------------------------------------
(* verify_remediation_job: a command either fails closed, without a        *)
(* result, or has an exit code.                                            *)
Command == Commands[next]
Runnable == Command \in Allowed /\ sandbox

VerificationFails ==
  /\ status' = "failed" /\ pc' = "stopped" /\ UNCHANGED next
VerificationGoesOn ==
  IF next < Len(Commands)
  THEN next' = next + 1 /\ UNCHANGED <<pc, status>>
  ELSE next' = next /\ pc' = "verified" /\ status' = "verified"

(* Not on the allowlist, no sandbox, OSError or TimeoutError.              *)
NoResultSkipsCommand ==
  /\ pc = "verify"
  /\ VerificationGoesOn
  /\ UNCHANGED <<checkout, sandbox, tree, plan, content, results, attempts,
                 faults, history>>
NoResult ==
  /\ pc = "verify"
  /\ VerificationFails
  /\ UNCHANGED <<checkout, sandbox, tree, plan, content, results, attempts,
                 faults, history>>

Result ==
  /\ pc = "verify" /\ Runnable
  /\ ran' = Append(ran, tree)
  /\ \E passed \in BOOLEAN :
       /\ results' = Append(results, [command |-> Command, passed |-> passed])
       /\ IF passed THEN VerificationGoesOn ELSE VerificationFails
  /\ UNCHANGED <<checkout, sandbox, tree, plan, content, attempts, faults, start,
                 log>>

(* A sandbox raises something else, which fails the job in the worker.     *)
SandboxRaises ==
  /\ pc = "verify"
  /\ pc' = "stopped"
  /\ results' = <<>> /\ ran' = <<>>
  /\ UNCHANGED <<checkout, sandbox, tree, toolVars, status, attempts, faults,
                 start, log>>

-----------------------------------------------------------------------------
(* The worker requeues a job that failed, with what the failed attempt     *)
(* left behind.                                                            *)
Requeue ==
  /\ pc \in {"rejected", "stopped"}
  /\ pc' = "queued" /\ status' = "queued"
  /\ content' = NULL
  /\ UNCHANGED <<checkout, sandbox, tree, plan, next, results, attempts, faults,
                 history>>

(* The process dies: a job whose patch is checkpointed is verified again   *)
(* from the first command, any other job starts over.                      *)
Crash ==
  /\ pc \in {"execute", "truncate", "write", "verify"}
  /\ faults < MaxFaults
  /\ faults' = faults + 1
  /\ IF pc = "write" THEN \E text \in Beginnings : Written(text)
     ELSE content' = NULL
          /\ UNCHANGED <<checkout, sandbox, tree, plan, attempts, start, log>>
  /\ next' = 1
  /\ results' = <<>> /\ ran' = <<>>
  /\ IF pc = "verify" THEN UNCHANGED <<pc, status>>
     ELSE pc' = "queued" /\ status' = "queued"

Next ==
  \/ \E copy \in {tree, checkout} : Remediate(copy)
  \/ Look \/ ReadForPatch \/ Truncate \/ WriteBack
  \/ ToolFails \/ CannotOpen \/ WriteFails
  \/ NoResult \/ Result \/ SandboxRaises
  \/ Requeue \/ Crash

Spec == Init /\ [][Next]_vars

-----------------------------------------------------------------------------
(* Every variable holds a value of its type, and the status belongs to the *)
(* stage.                                                                  *)
TypeOK ==
  /\ tree \in [Files -> Seq(STRING)]
  /\ pc \in {"queued", "rejected", "execute", "truncate", "write", "stopped",
             "verify", "verified"}
  /\ pc \in {"truncate", "write"} <=> content # NULL
  /\ next \in 1 .. Len(plan) + Len(Commands)
  /\ status = "verified" <=> pc = "verified"
  /\ pc = "verify" => status = "verification-pending"

(* What the first n patches of the log made of file f: what the last of    *)
(* them that is about f wrote, or else what was checked out.               *)
Made(f, n, text) ==
  \/ /\ text = checkout[f]
     /\ \A i \in 1 .. n : log[i].patch.path # f
  \/ \E i \in 1 .. n : /\ log[i].patch.path = f /\ text = log[i].after
                       /\ \A k \in i + 1 .. n : log[k].patch.path # f

(* The writes to a file build on one another, over all attempts, failing   *)
(* writes and crashes since the checkout: each patch starts from what the  *)
(* write before it left, no update is lost, and the file is what the last  *)
(* one left unless a write is under way, all of its text or, when it       *)
(* failed, the beginning of it.                                            *)
PatchesCompose ==
  /\ \A i \in 1 .. Len(log) : Made(log[i].patch.path, i - 1, log[i].before)
  /\ \A f \in Files :
       \/ Made(f, Len(log), tree[f])
       \/ tree[f] = <<>> /\ pc = "write" /\ f = Change.path

(* A working copy goes on to verification only with its whole plan: in the *)
(* attempt that made it each patch of the plan was written, and none was   *)
(* cut short, whatever failed in the attempts before (remediate,           *)
(* "remediation stopped safely").                                          *)
WholePlanVerified ==
  pc \in {"verify", "verified"} =>
    /\ \A i \in 1 .. Len(log) : log[i].attempt = attempts => log[i].whole
    /\ \A n \in 1 .. Len(plan) : plan[n].tool = "apply_patch" =>
         \E i \in 1 .. Len(log) :
           log[i].attempt = attempts /\ log[i].patch = plan[n]

(* Trying a plan again on the same working copy does not apply a patch     *)
(* again right after it was written whole, if its new text is not empty    *)
(* and has no character of the old one.                                    *)
RetryDoesNotRepeat ==
  \A i, k \in 1 .. Len(log) :
    LET p == log[i].patch
        Chars(t) == {t[c] : c \in 1 .. Len(t)}
    IN  /\ i < k /\ log[i].whole
        /\ \A between \in i + 1 .. k - 1 : log[between].patch.path # p.path
        /\ p.new # <<>> /\ Chars(p.new) \cap Chars(p.old) = {}
        => log[k].patch # p

(* Verified means that every command ran, in order, in a sandbox, from the *)
(* allowlist, on the working copy as it now is, and passed; errors are     *)
(* never taken for success (verify_remediation_job, "represented as a      *)
(* failed job rather than being silently treated as a successful           *)
(* verification").                                                         *)
VerifiedMeansPassed ==
  status = "verified" =>
    /\ sandbox
    /\ results = [i \in 1 .. Len(Commands) |->
                    [command |-> Commands[i], passed |-> TRUE]]
    /\ \A i \in 1 .. Len(Commands) : Commands[i] \in Allowed
    /\ ran = [i \in 1 .. Len(Commands) |-> tree]
=============================================================================
