------------------------------- MODULE Issues -------------------------------
(***************************************************************************)
(* GitHub Issues as the origin of workflows (factory-github, factory.rs,   *)
(* runtime lib.rs, core/github.rs): an import asks for an issue, finds the *)
(* repository the project tracks, fetches the issue, inserts a run whose   *)
(* objective is the issue's bounded text, stores the link, and only then   *)
(* has the run planned. Every mission given afterwards carries the notice  *)
(* that part of its objective is untrusted, read from the link; the text   *)
(* of the pull request is made of the link and of the attempts recorded so *)
(* far, for any run, and may be brought back when they are more. Meanwhile *)
(* others edit the issue, owners re-point remotes, statements and the      *)
(* programs that are called fail, and the server stops.                    *)
(*                                                                         *)
(* An issue is its edition and how many of its comments are told; the url  *)
(* it comes with is its repository. An attempt is what its row says when   *)
(* it has ended. Claims, pushes and retries of a delivery are in Delivery, *)
(* plans in PlanIntake, the states of tasks in RunEngine: here a run is    *)
(* executed, ends, and may be executed again.                              *)
(***************************************************************************)
EXTENDS Integers, Sequences, FiniteSets

CONSTANTS
    Importers,     \* requests that create workflows
    Repositories,  \* "owner/name" slugs on GitHub
    RepositoryOf,  \* url of a remote -> its slug, or NotGitHub
    RemoteSets,    \* the remotes a project may be given, in the order of its config
    FirstRemotes,  \* the remotes it has at first
    References,    \* what may be asked for: [number, repository]
    Histories,     \* the attempts of a run that completes
    MaxIssues,     \* every repository has the issues 1 .. MaxIssues
    MaxComments,   \* MAX_COMMENTS
    MaxPlannings,  \* planner::MAX_ATTEMPTS
    MaxRuns,       \* bound: runs created
    MaxEditions,   \* bound: editions of an issue
    MaxStops       \* bound: stops of the server

VARIABLES
    remotes,    \* the project's remotes, as git config lists them
    issues,     \* <<repository, number>> -> [edition, comments] on GitHub
    importer,   \* importer -> the request it serves
    runs,       \* the runs of the database
    planner,    \* run -> its planning operation, while it runs
    mission,    \* run -> the last mission given for it
    briefed,    \* run -> the notices its implementations were given, while it is executed
    preview,    \* run -> the pull request text last shown for it
    pull,       \* run -> the pull request made of it
    moved,      \* the remotes were changed since the project began
    stops       \* how often the server was stopped

ASSUME IssuesAssumption == MaxRuns \in Nat /\ MaxComments \in Nat

IssueVars == <<remotes, issues, importer, runs, planner, mission, briefed, preview, pull,
               moved, stops>>

NotGitHub == "none"
NoRepository == "none"
NoText == [number |-> 0, edition |-> 0, comments |-> 0]
NoIssue == [repository |-> NoRepository, number |-> 0, edition |-> 0, comments |-> 0]
NoNotice == [repository |-> NoRepository, number |-> 0]
NoMission == [kind |-> "none", objective |-> NoText, notice |-> NoNotice]
NoPull == [repository |-> NoRepository, eligible |-> FALSE, closes |-> 0, summary |-> NoText,
           reviews |-> {}, commands |-> {}]
NoPlanning == [state |-> "none", notice |-> NoNotice, tries |-> 0]
NoImport == [stage |-> "idle", ref |-> [number |-> 0, repository |-> NoRepository],
              repository |-> NoRepository, issue |-> NoIssue, run |-> 0]

Runs == 1 .. Len(runs)
AllIssues == Repositories \X (1 .. MaxIssues)

IssuesInit ==
  /\ remotes = FirstRemotes /\ moved = FALSE
  /\ issues = [i \in AllIssues |-> [edition |-> 1, comments |-> MaxComments]]
  /\ importer = [i \in Importers |-> NoImport]
  /\ runs = <<>>
  /\ planner = [r \in 1 .. MaxRuns |-> NoPlanning]
  /\ mission = [r \in 1 .. MaxRuns |-> NoMission]
  /\ briefed = [r \in 1 .. MaxRuns |-> {}]
  /\ preview = [r \in 1 .. MaxRuns |-> NoPull]
  /\ pull = [r \in 1 .. MaxRuns |-> NoPull]
  /\ stops = 0

-----------------------------------------------------------------------------
(* The repository of the project.                                          *)

(* list_remotes: the remotes that have a name and a url.                   *)
ListRemotes(configured) == SelectSeq(configured, LAMBDA r : r.name # "" /\ r.url # "")

(* detect: the remote named origin, where its url is of GitHub. The search *)
(* for it has used up the candidates, so there is no other choice.         *)
OnGitHub(listed) == SelectSeq(listed, LAMBDA r : RepositoryOf[r.url] # NotGitHub)
NamedOrigin(listed) == SelectSeq(OnGitHub(listed), LAMBDA r : r.name = "origin")
Detect(configured) ==
  LET found == NamedOrigin(ListRemotes(configured))
  IN  IF found = <<>> THEN NoRepository ELSE RepositoryOf[found[1].url]
GithubRemote == Detect(remotes)

(* The reference of an issue: a positive number, of the repository of its  *)
(* url when it was given as one.                                           *)
ParsesReference(ref) == ref.number > 0

\* Mutant: an issue of whatever repository is asked for.
AnyRepository(ref, repository) == TRUE

Tracked(ref, repository) == ref.repository \in {NoRepository, repository}

-----------------------------------------------------------------------------
(* An import, statement by statement. Each may fail, and the request with  *)
(* it; what was stored by then stays.                                      *)

Serve(i, request) == importer' = [importer EXCEPT ![i] = request]
Dismiss(i) == Serve(i, NoImport)
AtStage(i, stage) == importer[i].stage = stage
RequestVars == <<remotes, issues, runs, planner, mission, briefed, preview, pull, moved, stops>>
RowVars == <<remotes, issues, planner, mission, briefed, preview, pull, moved, stops>>

AskIssue(i) ==
  /\ AtStage(i, "idle") /\ Len(runs) < MaxRuns
  /\ \E ref \in References :
       /\ ParsesReference(ref)
       /\ Serve(i, [NoImport EXCEPT !.stage = "remote", !.ref = ref])
  /\ UNCHANGED RequestVars

(* A workflow whose objective its owner wrote.                             *)
AskObjective(i) ==
  /\ AtStage(i, "idle") /\ Len(runs) < MaxRuns
  /\ Serve(i, [NoImport EXCEPT !.stage = "begin"])
  /\ UNCHANGED RequestVars

(* No such remote, another repository than the url's, or git fails.        *)
FindRemote(i) ==
  /\ AtStage(i, "remote")
  /\ \/ /\ GithubRemote # NoRepository /\ Tracked(importer[i].ref, GithubRemote)
        /\ Serve(i, [importer[i] EXCEPT !.stage = "auth", !.repository = GithubRemote])
     \/ Dismiss(i)
  /\ UNCHANGED RequestVars

(* gh is missing, has no account, or fails.                                *)
AuthStatus(i) ==
  /\ AtStage(i, "auth")
  /\ \/ Serve(i, [importer[i] EXCEPT !.stage = "view"])
     \/ Dismiss(i)
  /\ UNCHANGED RequestVars

(* parse_issue keeps the first comments only.                              *)
ParseIssue(repository, number) ==
  LET issue == issues[<<repository, number>>]
  IN  [repository |-> repository, number |-> number, edition |-> issue.edition,
       comments |-> IF issue.comments > MaxComments THEN MaxComments ELSE issue.comments]

(* gh answers with the issue, or with a failure of some class: no such     *)
(* issue, no network, a deadline, output past its limit.                   *)
ViewIssue(i) ==
  /\ AtStage(i, "view")
  /\ LET asked == importer[i]
     IN  \/ /\ <<asked.repository, asked.ref.number>> \in AllIssues
            /\ Serve(i, [asked EXCEPT !.stage = "begin",
                                      !.issue = ParseIssue(asked.repository, asked.ref.number)])
         \/ Dismiss(i)
  /\ UNCHANGED RequestVars

(* The objective has the number and the text; no repository is named.      *)
ObjectiveFromIssue(issue) ==
  [number |-> issue.number, edition |-> issue.edition, comments |-> issue.comments]

(* origin: where the issue was fetched, which no column keeps.             *)
Row(request) ==
  [status |-> "planning", planned |-> FALSE, objective |-> ObjectiveFromIssue(request.issue),
   link |-> NoIssue, attempts |-> <<>>, asked |-> request.ref, origin |-> request.issue.repository]

(* begin_run_with_recipe: the row, and from then on everyone sees the run; *)
(* or no row, for a team or a recipe the project cannot serve.             *)
InsertRun(i) ==
  /\ AtStage(i, "begin") /\ Len(runs) < MaxRuns
  /\ \/ /\ runs' = Append(runs, Row(importer[i]))
        /\ Serve(i, [importer[i] EXCEPT
                        !.run = Len(runs) + 1,
                        !.stage = IF importer[i].issue = NoIssue THEN "reserve" ELSE "link"])
     \/ Dismiss(i) /\ UNCHANGED runs
  /\ UNCHANGED RowVars

\* Mutant: the issue is looked at again for its link.
LinkOfIssueNow(issue, repository) == ParseIssue(repository, issue.number)

(* The link is of the repository found at first and of the issue fetched.  *)
IssueLink(issue, repository) == [issue EXCEPT !.repository = repository]

LinkIssue(i) ==
  /\ AtStage(i, "link")
  /\ runs' = [runs EXCEPT ![importer[i].run].link =
                 IssueLink(importer[i].issue, importer[i].repository)]
  /\ Serve(i, [importer[i] EXCEPT !.stage = "reserve"])
  /\ UNCHANGED RowVars

(* A statement after the row fails: the import does, and the row stays.    *)
StatementFails(i) ==
  /\ AtStage(i, "link") \/ AtStage(i, "reserve")
  /\ Dismiss(i)
  /\ UNCHANGED RequestVars

SpawnPlanning(i) ==
  /\ AtStage(i, "reserve")
  /\ planner' = [planner EXCEPT ![importer[i].run] = [NoPlanning EXCEPT !.state = "spawned"]]
  /\ Dismiss(i)
  /\ UNCHANGED <<remotes, issues, runs, mission, briefed, preview, pull, moved, stops>>

-----------------------------------------------------------------------------
(* Missions.                                                               *)

(* The notice of a run, read from its link when a mission is built.        *)
UntrustedIssueNotice(r) ==
  [repository |-> runs[r].link.repository, number |-> runs[r].link.number]

Mission(r, kind, notice) == [kind |-> kind, objective |-> runs[r].objective, notice |-> notice]
Give(r, kind, notice) == mission' = [mission EXCEPT ![r] = Mission(r, kind, notice)]
SetStatus(r, status) == runs' = [runs EXCEPT ![r].status = status]
ElsewhereVars == <<remotes, issues, importer, preview, pull, moved, stops>>

(* plan_run reads the run and its link once, and tells both to the planner *)
(* as often as it asks.                                                    *)
StartPlanning(r) ==
  /\ planner[r].state = "spawned"
  /\ planner' = [planner EXCEPT ![r] =
                    [state |-> "asking", notice |-> UntrustedIssueNotice(r), tries |-> 0]]
  /\ UNCHANGED <<ElsewhereVars, runs, mission, briefed>>

PlannerMission(r) ==
  /\ planner[r].state = "asking"
  /\ Give(r, "planner", planner[r].notice)
  /\ planner' = [planner EXCEPT ![r].state = "answering", ![r].tries = @ + 1]
  /\ UNCHANGED <<ElsewhereVars, runs, briefed>>

(* The answer is a plan, which is stored, or is none, and it is asked      *)
(* again.                                                                  *)
AnswerPlanner(r) ==
  /\ planner[r].state = "answering"
  /\ \/ /\ runs' = [runs EXCEPT ![r].status = "planned", ![r].planned = TRUE]
        /\ planner' = [planner EXCEPT ![r] = NoPlanning]
     \/ /\ planner[r].tries < MaxPlannings
        /\ planner' = [planner EXCEPT ![r].state = "asking"]
        /\ UNCHANGED runs
  /\ UNCHANGED <<ElsewhereVars, mission, briefed>>

(* Whatever ends planning else: no team, a planner that cannot be started  *)
(* or fails, no plan in the last answer, a cancellation. The status is     *)
(* written if it can be, and not where the project could not be opened.    *)
PlanningFails(r) ==
  /\ planner[r].state # "none"
  /\ (\E status \in {"failed", "cancelled"} : SetStatus(r, status)) \/ UNCHANGED runs
  /\ planner' = [planner EXCEPT ![r] = NoPlanning]
  /\ UNCHANGED <<ElsewhereVars, mission, briefed>>

(* start_workflow, or a retry of one of the run's tasks.                   *)
StartRun(r) ==
  /\ \/ runs[r].status \in {"planned", "blocked"}
     \/ runs[r].planned /\ runs[r].status \in {"failed", "cancelled"}
  /\ SetStatus(r, "active")
  /\ UNCHANGED <<ElsewhereVars, planner, mission, briefed>>

(* The missions of tasks; that of a final review has the notice which its  *)
(* implementation was given.                                               *)
ImplementMission(r) ==
  /\ runs[r].status = "active"
  /\ Give(r, "implement", UntrustedIssueNotice(r))
  /\ briefed' = [briefed EXCEPT ![r] = @ \cup {UntrustedIssueNotice(r)}]
  /\ UNCHANGED <<ElsewhereVars, runs, planner>>

FinalReviewMission(r) ==
  /\ runs[r].status = "active"
  /\ \E notice \in briefed[r] : Give(r, "final_review", notice)
  /\ UNCHANGED <<ElsewhereVars, runs, planner, briefed>>

AdvisoryMission(r) ==
  /\ runs[r].status = "active"
  /\ Give(r, "advisory", UntrustedIssueNotice(r))
  /\ UNCHANGED <<ElsewhereVars, runs, planner, briefed>>

\* Mutant: a review is taken to need no notice.
ReviewUnmarked(r) ==
  /\ runs[r].status = "active"
  /\ Give(r, "review", NoNotice)
  /\ UNCHANGED <<ElsewhereVars, runs, planner, briefed>>

ReviewMission(r) ==
  /\ runs[r].status = "active"
  /\ Give(r, "review", UntrustedIssueNotice(r))
  /\ UNCHANGED <<ElsewhereVars, runs, planner, briefed>>

(* An attempt ends, after the last mission it gives.                       *)
LastMissionOf(a) ==
  IF a.operation = "review" THEN "review" ELSE IF a.review = "none" THEN "implement" ELSE "final_review"
RecordAttempt(r) ==
  /\ runs[r].status = "active"
  /\ \E h \in Histories :
       LET n == Len(runs[r].attempts)
       IN  /\ n < Len(h) /\ runs[r].attempts = SubSeq(h, 1, n)
           /\ mission[r].kind = LastMissionOf(h[n + 1])
           /\ runs' = [runs EXCEPT ![r].attempts = Append(@, h[n + 1])]
  /\ UNCHANGED <<ElsewhereVars, planner, mission, briefed>>

EndRun(r) ==
  /\ runs[r].status = "active"
  /\ \E status \in {"completed", "failed", "cancelled", "blocked"} :
       /\ status = "completed" => runs[r].attempts \in Histories
       /\ SetStatus(r, status)
  /\ briefed' = [briefed EXCEPT ![r] = {}]
  /\ UNCHANGED <<ElsewhereVars, planner, mission>>

-----------------------------------------------------------------------------
(* The text of a pull request.                                             *)
Recorded(attempts) == {attempts[n] : n \in DOMAIN attempts}

(* What an attempt adds: a review by its role, approved when the attempt   *)
(* was, and a recorded decision, which is the built-in reviewer's here.    *)
LinesOf(a) ==
  (IF a.operation = "review" THEN {<<a.role, a.status = "approved">>} ELSE {})
    \cup (IF a.review = "none" THEN {} ELSE {<<"reviewer", a.review = "approve">>})

\* Mutant: a role's approval takes the place of its refusals.
ApprovalsOnly(attempts) ==
  LET lines == UNION {LinesOf(a) : a \in Recorded(attempts)}
  IN  {line \in lines : line[2] \/ <<line[1], TRUE>> \notin lines}

(* record_review: a role's approval and its refusal are one line each.     *)
Reviews(attempts) == UNION {LinesOf(a) : a \in Recorded(attempts)}

VerificationCommands(attempts) ==
  UNION {a.commands : a \in {b \in Recorded(attempts) : b.status = "approved"}}

(* build_pr_body: the objective, the commands, the reviews, and the issue  *)
(* that merging closes, which GitHub takes to be of the repository that    *)
(* the pull request is made in. It is shown for any run; a run that has    *)
(* completed is eligible, but for its branch, which is in Delivery.        *)
PullRequestText(r) ==
  [repository |-> GithubRemote, eligible |-> runs[r].status = "completed",
   closes |-> runs[r].link.number, summary |-> runs[r].objective,
   reviews |-> Reviews(runs[r].attempts), commands |-> VerificationCommands(runs[r].attempts)]

TextVars == <<remotes, issues, importer, runs, planner, mission, briefed, moved, stops>>
PreviewPull(r) ==
  /\ GithubRemote # NoRepository
  /\ preview' = [preview EXCEPT ![r] = PullRequestText(r)]
  /\ UNCHANGED <<TextVars, pull>>

(* The request brings the text it was shown, or none: then it is made now. *)
(* The repository is that of the remote now.                               *)
MakePull(r) ==
  /\ runs[r].status = "completed" /\ GithubRemote # NoRepository /\ pull[r] = NoPull
  /\ \E text \in {preview[r], PullRequestText(r)} \ {NoPull} :
       pull' = [pull EXCEPT ![r] = [text EXCEPT !.repository = GithubRemote]]
  /\ UNCHANGED <<TextVars, preview>>

-----------------------------------------------------------------------------
(* Others, and the server.                                                 *)

(* Someone edits an issue and comments on it.                              *)
EditIssue ==
  /\ \E i \in AllIssues :
       /\ issues[i].edition < MaxEditions
       /\ issues' = [issues EXCEPT ![i].edition = @ + 1, ![i].comments = @ + 1]
  /\ UNCHANGED <<remotes, importer, runs, planner, mission, briefed, preview, pull, moved, stops>>

SetRemotes ==
  /\ ~moved /\ remotes' \in RemoteSets /\ moved' = TRUE
  /\ UNCHANGED <<issues, importer, runs, planner, mission, briefed, preview, pull, stops>>

(* The server stops, between any two statements, and the next one fails    *)
(* the runs that were being planned or executed.                           *)
StopServer ==
  /\ stops < MaxStops /\ stops' = stops + 1
  /\ importer' = [i \in Importers |-> NoImport]
  /\ planner' = [r \in 1 .. MaxRuns |-> NoPlanning]
  /\ briefed' = [r \in 1 .. MaxRuns |-> {}]
  /\ runs' = [r \in Runs |-> IF runs[r].status \in {"planning", "active"}
                             THEN [runs[r] EXCEPT !.status = "failed"] ELSE runs[r]]
  /\ UNCHANGED <<remotes, issues, mission, preview, pull, moved>>

ImportStep(i) ==
  \/ AskIssue(i) \/ AskObjective(i) \/ FindRemote(i) \/ AuthStatus(i) \/ ViewIssue(i)
  \/ InsertRun(i) \/ LinkIssue(i) \/ StatementFails(i) \/ SpawnPlanning(i)
RunStep(r) ==
  \/ StartPlanning(r) \/ PlannerMission(r) \/ AnswerPlanner(r) \/ PlanningFails(r) \/ StartRun(r)
  \/ ImplementMission(r) \/ FinalReviewMission(r) \/ AdvisoryMission(r) \/ ReviewMission(r)
  \/ RecordAttempt(r) \/ EndRun(r) \/ PreviewPull(r) \/ MakePull(r)
IssuesNext ==
  \/ \E i \in Importers : ImportStep(i)
  \/ \E r \in Runs : RunStep(r)
  \/ EditIssue \/ SetRemotes \/ StopServer

IssuesSpec == IssuesInit /\ [][IssuesNext]_IssueVars

-----------------------------------------------------------------------------
(* Properties.                                                             *)

NoticeOf(run) == [repository |-> run.origin, number |-> run.objective.number]

(* No mission ever holds an issue's text without the notice of that issue, *)
(* nor a notice without such text: docs/github.md, "The Planner and every  *)
(* task mission carries an explicit notice".                               *)
MissionsMarked ==
  \A r \in Runs :
    mission[r] # NoMission =>
      mission[r].objective = runs[r].objective /\ mission[r].notice = NoticeOf(runs[r])

(* A run's link is of the very text its objective is, and of where that    *)
(* was fetched; a run with a plan has the link of its issue, if it is of   *)
(* one.                                                                    *)
LinkTells(run) == run.link.repository = run.origin /\ ObjectiveFromIssue(run.link) = run.objective
LinksTell ==
  \A r \in Runs : (runs[r].planned \/ runs[r].link # NoIssue) => LinkTells(runs[r])

(* Who asked for an issue by its url has got that one.                     *)
ImportsAsked ==
  \A r \in Runs :
    runs[r].objective # NoText =>
      /\ runs[r].objective.number = runs[r].asked.number
      /\ runs[r].asked.repository \in {NoRepository, runs[r].origin}

(* A pull request closes no issue but its run's, in the issue's repository *)
(* while the remotes are what they were, and shows no approval and no      *)
(* command that none of the approved attempts stands for. When its text    *)
(* was made of the completed run, it closes the issue and shows every      *)
(* refusal recorded.                                                       *)
PullsTell ==
  \A r \in Runs :
    LET text == pull[r]
        recorded == Recorded(runs[r].attempts)
        approved == {a \in recorded : a.status = "approved"}
    IN  text # NoPull =>
          /\ text.closes \in {0, runs[r].objective.number}
          /\ (text.closes # 0 /\ ~moved) => text.repository = runs[r].origin
          /\ \A line \in text.reviews :
               line[2] => \E a \in recorded :
                            \/ a.review = "approve"
                            \/ a.operation = "review" /\ a.role = line[1] /\ a \in approved
          /\ \A c \in text.commands : \E a \in approved : c \in a.commands
          /\ text.eligible =>
               /\ text.closes = runs[r].objective.number
               /\ \A a \in recorded :
                    /\ a.review = "request_changes" => <<"reviewer", FALSE>> \in text.reviews
                    /\ (a.operation = "review" /\ a \notin approved) => <<a.role, FALSE>> \in text.reviews

IssuesSound == MissionsMarked /\ LinksTell /\ ImportsAsked /\ PullsTell
=============================================================================
