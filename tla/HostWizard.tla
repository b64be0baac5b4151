----------------------------- MODULE HostWizard -----------------------------
(***************************************************************************)
(* The wizard a host starts a session with (screens/host.rs) and the       *)
(* executor thread its network work runs on (exec.rs): pick a provider,    *)
(* check and save its credential, survey its regions, launch in one.       *)
(* Answers come back a frame or a minute later, to whatever the wizard     *)
(* shows by then.  Leaving the screen loses the wizard and its pending     *)
(* answers, not the work: the executor runs what it was given, in order.   *)
(*                                                                         *)
(* A credential is one value, whatever its fields; Empty is also anything  *)
(* the fields refuse.  What is only displayed, and the recording, are left *)
(* out.                                                                    *)
(***************************************************************************)
EXTENDS Naturals, Sequences

CONSTANTS
    Accounts,   \* the cloud providers
    Secrets,    \* credentials that can be typed
    FromEnv,    \* providers the environment has a credential for
    MaxJobs     \* bound: jobs the executor has not finished

ASSUME HostWizardAssumption ==
    /\ "local" \notin Accounts /\ FromEnv \subseteq Accounts
    /\ MaxJobs \in Nat \ {0}

Empty == "no credential"
NoRow == "none"

VARIABLES
    w,        \* the wizard
    vault,    \* the keychain
    exec,     \* the executor's queue, the job at its head running
    passed    \* what any check found to work

wizardVars == <<w, vault, exec, passed>>

Rows == Accounts \cup {"local"}
(* creds::build_provider.                                                  *)
Buildable(v, k) == k \in {"local"} \cup FromEnv \cup {a \in Accounts : v[a] # Empty}

(* A new wizard: the rows are read from the keychain, the rest is blank.   *)
NewWizard(v) ==
    [step |-> "Provider", picked |-> NoRow, open |-> FALSE,
     ready |-> [k \in Rows |-> Buildable(v, k)],
     fields |-> [k \in Accounts |-> Empty],
     rows |-> NoRow, chosen |-> FALSE, failed |-> FALSE]

WizardInit ==
    /\ vault \in [Accounts -> Secrets \cup {Empty}]
    /\ w = NewWizard(vault)
    /\ exec = <<>>
    /\ passed = {<<k, vault[k]>> : k \in {a \in Accounts : vault[a] # Empty}}

-----------------------------------------------------------------------------
(* kept: the wizard still polls for the answer.                            *)
Job(what, kind, secret, region) ==
    [what |-> what, kind |-> kind, secret |-> secret, region |-> region, kept |-> TRUE]
Submits(job) == Len(exec) < MaxJobs /\ exec' = Append(exec, job)
Waiting(what) == \E i \in DOMAIN exec : exec[i].what = what /\ exec[i].kept
Forgets(whats) ==
    exec' = [i \in DOMAIN exec |-> IF exec[i].what \in whats THEN [exec[i] EXCEPT !.kept = FALSE] ELSE exec[i]]
Finishes(what) == exec # <<>> /\ Head(exec).what = what /\ exec' = Tail(exec)

SelectProvider(k) ==
    /\ w.step = "Provider"
    /\ w' = [w EXCEPT !.picked = k, !.open = ~w.ready[k]]
    /\ UNCHANGED <<vault, exec, passed>>

(* The setup pane is drawn under a row that still needs setting up.  Only  *)
(* its Check button waits for the check.                                   *)
PaneShown == w.step = "Provider" /\ w.picked \in Accounts /\ w.open /\ ~w.ready[w.picked]

Types(x) ==
    /\ PaneShown
    /\ w' = [w EXCEPT !.fields[w.picked] = x]
    /\ UNCHANGED <<vault, exec, passed>>

BeginCheck ==
    /\ PaneShown /\ ~Waiting("check") /\ w.fields[w.picked] # Empty
    /\ Submits(Job("check", w.picked, w.fields[w.picked], NoRow))
    /\ UNCHANGED <<w, vault, passed>>

(* apply_check_result saves what the fields of the provider selected by    *)
(* now hold by now.  The keychain may refuse the write.                    *)
Written == IF w.picked \in Accounts THEN [vault EXCEPT ![w.picked] = w.fields[w.picked]] ELSE vault
ApplyCheckResult(saves) ==
    /\ vault' = IF saves THEN Written ELSE vault
    /\ w' = IF w.picked = NoRow THEN w ELSE [w EXCEPT !.ready[w.picked] = Buildable(vault', w.picked)]

CheckLands(works, saves) ==
    /\ Finishes("check")
    /\ passed' = IF works THEN passed \cup {<<Head(exec).kind, Head(exec).secret>>} ELSE passed
    /\ IF works /\ Head(exec).kept THEN ApplyCheckResult(saves) ELSE UNCHANGED <<w, vault>>

-----------------------------------------------------------------------------
(* advance_from_provider.  A provider that no longer builds is re-gated.   *)
\* Fault: the table of the provider before stays.
NewTableKept(s) == s
NewTable(s) == [s EXCEPT !.rows = NoRow, !.chosen = FALSE]
Advance ==
    /\ w.step = "Provider" /\ w.picked # NoRow /\ w.ready[w.picked]
    /\ CASE w.picked = "local" ->
              /\ w' = [w EXCEPT !.rows = "local", !.chosen = TRUE, !.step = "Preview"]
              /\ UNCHANGED exec
         [] w.picked # "local" /\ Buildable(vault, w.picked) ->
              /\ w' = [NewTable(w) EXCEPT !.step = "Region"]
              /\ Submits(Job("survey", w.picked, Empty, NoRow))
         [] OTHER ->
              /\ w' = [w EXCEPT !.ready[w.picked] = FALSE, !.open = TRUE]
              /\ UNCHANGED exec
    /\ UNCHANGED <<vault, passed>>

(* The survey's table, its top row preselected when it was measured; an    *)
(* error, or an account that can run nothing anywhere, shows no row.       *)
SurveyLands(found, measured) ==
    /\ Finishes("survey")
    /\ w' = IF Head(exec).kept /\ found
              THEN [w EXCEPT !.rows = Head(exec).kind, !.chosen = measured] ELSE w
    /\ UNCHANGED <<vault, passed>>

SelectRegion ==
    /\ w.step = "Region" /\ ~Waiting("survey") /\ w.rows # NoRow
    /\ w' = [w EXCEPT !.chosen = TRUE]
    /\ UNCHANGED <<vault, exec, passed>>

ContinueToPreview ==
    /\ w.step = "Region" /\ w.chosen
    /\ w' = [w EXCEPT !.step = "Preview"]
    /\ UNCHANGED <<vault, exec, passed>>

(* begin_launch.  A provider that no longer builds, a bucket key that is   *)
(* gone and an artifact that does not resolve refuse it at once.           *)
BeginLaunch(refused) ==
    /\ w.step = "Preview" /\ w.chosen /\ ~Waiting("launch")
    /\ refused \/ Buildable(vault, w.picked)
    /\ w' = [w EXCEPT !.step = "Launching", !.failed = refused]
    /\ IF refused THEN UNCHANGED exec ELSE Submits(Job("launch", w.picked, Empty, w.rows))
    /\ UNCHANGED <<vault, passed>>

(* A session that came up takes the app to it.                             *)
LaunchLands(up) ==
    /\ Finishes("launch")
    /\ w' = CASE ~Head(exec).kept -> w
              [] Head(exec).kept /\ up -> [w EXCEPT !.step = "Left"]
              [] OTHER -> [w EXCEPT !.failed = TRUE]
    /\ UNCHANGED <<vault, passed>>

AbandonLaunch ==
    /\ w.step = "Launching" /\ ~w.failed
    /\ w' = [w EXCEPT !.step = "Preview"]
    /\ Forgets({"launch"})
    /\ UNCHANGED <<vault, passed>>

(* Nothing to go back from while the survey runs.                          *)
Back ==
    /\ \/ /\ w.step = "Region" /\ ~Waiting("survey")
          /\ w' = [w EXCEPT !.step = "Provider"]
       \/ /\ w.step = "Preview"
          /\ w' = [w EXCEPT !.step = IF w.picked = "local" THEN "Provider" ELSE "Region"]
       \/ /\ w.step = "Launching" /\ w.failed
          /\ w' = [w EXCEPT !.step = "Preview", !.failed = FALSE]
    /\ UNCHANGED <<vault, exec, passed>>

(* The screen is left, for a session or for home, and Host opens it anew.  *)
Reopens ==
    /\ w' = NewWizard(vault)
    /\ Forgets({"check", "survey", "launch"})
    /\ UNCHANGED <<vault, passed>>

EntryVanishes(k) ==
    /\ vault' = [vault EXCEPT ![k] = Empty]
    /\ UNCHANGED <<w, exec, passed>>

WizardNext ==
    \/ \E k \in Rows : SelectProvider(k)
    \/ \E x \in Secrets \cup {Empty} : Types(x)
    \/ BeginCheck \/ Advance \/ SelectRegion \/ ContinueToPreview
    \/ \E yes, also \in BOOLEAN : CheckLands(yes, also) \/ SurveyLands(yes, also)
    \/ \E yes \in BOOLEAN : BeginLaunch(yes) \/ LaunchLands(yes)
    \/ AbandonLaunch \/ Back \/ Reopens
    \/ \E k \in Accounts : EntryVanishes(k)

WizardSpec == WizardInit /\ [][WizardNext]_wizardVars

-----------------------------------------------------------------------------
(* A launch goes to a region of the provider it is asked of: a table       *)
(* surveyed for one provider is never the one picked from for another,     *)
(* whatever was picked, gone back from or still being surveyed.            *)
LaunchesItsOwnRegion ==
    \A i \in DOMAIN exec : exec[i].what = "launch" => exec[i].region = exec[i].kind

(* setup_ui: "the check runs a real API call and only a passing check      *)
(* writes the keychain": what the keychain holds passed one.               *)
SavedWasChecked ==
    \A k \in Accounts : vault[k] # Empty => <<k, vault[k]>> \in passed

(* exec.rs: the wizard "never has two network jobs outstanding".           *)
NeverTwoJobs ==
    \A i, j \in DOMAIN exec : exec[i].kept /\ exec[j].kept => i = j
=============================================================================
