------------------------------ MODULE OpsAgent ------------------------------
(***************************************************************************)
(* The operations agent's bundles and their bookkeeping (ops_agent/cli.py, *)
(* bundle.py, state.py, retention.py).  A run of `collect` builds a bundle *)
(* in a staging directory, publishes it by a rename, notes the run in a    *)
(* state file and removes old bundles; `mark-report-success` certifies a   *)
(* bundle a report was written from, and the next automatic period begins  *)
(* where that one ended.  Nothing keeps runs apart, any step may fail, and *)
(* a run may be killed at any point.  Saving the state file is one step    *)
(* here (a temporary file and a rename).                                   *)
(***************************************************************************)
EXTENDS Integers, Sequences, FiniteSets

CONSTANTS
    Bundles,        \* bundle_id, one run of collect each
    NoBundle,
    AskedPeriods,   \* periods that operators ask for
    FirstPeriod,    \* 24 hours
    LongestPeriod,  \* MAX_COLLECTION_PERIOD
    MaxBundles,     \* OPS_AGENT_MAX_BUNDLES
    KeepFor,        \* OPS_AGENT_RETENTION_DAYS
    RecentRuns,     \* 20 runs are remembered
    LastHourOfOps   \* bound on the time, the first FirstPeriod hours of which are past

ASSUME OpsAssumption ==
    /\ NoBundle \notin Bundles
    /\ AskedPeriods \subseteq [start : Int, end : Nat, auto : {FALSE}]
    /\ {FirstPeriod, LongestPeriod, MaxBundles, RecentRuns} \subseteq Nat \ {0}
    /\ KeepFor \in Nat /\ LastHourOfOps \in Nat /\ FirstPeriod <= LastHourOfOps

VARIABLES
    opsHour,        \* the time
    opsState,       \* state.json: last_successful_report and recent_runs
    runStep,        \* runStep[b]: what the run that makes b does
    period,         \* period[b]: [start, end, auto] where auto is the source
    seenState,      \* seenState[b]: the state its run has read
    home,           \* home[b]: the directory b is in
    parts,          \* parts[b]: the files in it
    manifest,       \* manifest[b]: [status, inventory], or NoManifest
    changedAt,      \* changedAt[b]: mtime of the directory, once it is published
    toRemove,       \* toRemove[b]: the bundles its run has yet to remove
    certifying,     \* the bundle mark-report-success has validated
    certifierSaw,   \* the state it has read
    touched,        \* bundles whose removal has begun (history)
    certified,      \* bundles once recorded as successfully reported (history)
    lastReport,     \* the one recorded last (history)
    noted,          \* the runs that noted themselves, newest first (history)
    undone,         \* since that report was recorded, a run has written back
                    \* the state file as it was before (history)
    overwritten     \* somebody wrote it back as it was before a run was noted
                    \* (history)

runVars == <<runStep, period, seenState, toRemove>>
directoryVars == <<home, parts, manifest, changedAt, touched>>
keptVars == <<lastReport, noted, undone, overwritten>>
certifierVars == <<certifying, certifierSaw, certified, keptVars>>
opsVars == <<opsHour, opsState, runVars, directoryVars, certifierVars>>

Files == {"redaction_report", "aggregates", "excerpts"}

\* NON_DROPPABLE_BUNDLE_FILES, apart from the manifest.
Mandatory == Files \ {"excerpts"}

\* What a bundle over the hard cap may lose, in several rounds.
Droppable == Files \ Mandatory

NoManifest == [status |-> "none", inventory |-> {}]

NoPeriod == [start |-> 0, end |-> 0, auto |-> FALSE]

NoState == [success |-> NoBundle, recent |-> <<>>]

InitOps ==
    /\ opsHour = FirstPeriod
    /\ opsState = NoState
    /\ runStep = [b \in Bundles |-> "idle"]
    /\ period = [b \in Bundles |-> NoPeriod]
    /\ seenState = [b \in Bundles |-> NoState]
    /\ home = [b \in Bundles |-> "nowhere"]
    /\ parts = [b \in Bundles |-> {}]
    /\ manifest = [b \in Bundles |-> NoManifest]
    /\ changedAt = [b \in Bundles |-> 0]
    /\ toRemove = [b \in Bundles |-> {}]
    /\ certifying = NoBundle /\ certifierSaw = NoState
    /\ touched = {} /\ certified = {}
    /\ lastReport = NoBundle /\ noted = <<>> /\ undone = FALSE /\ overwritten = FALSE

\* The state a run has read is of no use to it any more.
Forget(b) == seenState' = [seenState EXCEPT ![b] = NoState]

OpsStep(b, from, to) == runStep[b] = from /\ runStep' = [runStep EXCEPT ![b] = to]

-----------------------------------------------------------------------------
(***************************************************************************)
(* Periods.                                                                *)
(***************************************************************************)

ValidPeriod(p) == p.start < p.end /\ p.end - p.start <= LongestPeriod

AutoPeriodSince(report) ==
    [start |-> IF report = NoBundle THEN opsHour - FirstPeriod ELSE period[report].end,
     end |-> opsHour, auto |-> TRUE]

\* Bug: the period begins where the newest collection ended.
AutoPeriodSinceCollection ==
    AutoPeriodSince(IF opsState.recent = <<>> THEN NoBundle ELSE opsState.recent[1])

AutoPeriod == AutoPeriodSince(opsState.success)

Explicit == {p \in AskedPeriods : p.end <= opsHour}

-----------------------------------------------------------------------------
(***************************************************************************)
(* collect.                                                                *)
(***************************************************************************)

\* The period is resolved from the state file, and a staging directory made.
StartCollection(b) ==
    /\ OpsStep(b, "idle", "build")
    /\ \E p \in Explicit \cup {AutoPeriod} :
           ValidPeriod(p) /\ period' = [period EXCEPT ![b] = p]
    /\ seenState' = [seenState EXCEPT ![b] = opsState]
    /\ home' = [home EXCEPT ![b] = "staging"]
    /\ UNCHANGED <<opsHour, opsState, parts, manifest, changedAt, toRemove, touched,
                   certifierVars>>

\* What a round of finalize says of a bundle that has these files.
FinalStatus(files) == IF files = Files THEN "complete" ELSE "partial"

\* write_manifest
ManifestOf(files) == [status |-> FinalStatus(files), inventory |-> files]

\* A collector that fails notes that in place of what it would have found, and
\* rounds of finalize drop optional files until the bundle fits the hard cap:
\* either leaves it partial.  The manifest is written last.
Build(b) ==
    /\ OpsStep(b, "build", "publish")
    /\ \E dropped \in SUBSET Droppable :
           /\ parts' = [parts EXCEPT ![b] = Files \ dropped]
           /\ manifest' = [manifest EXCEPT ![b] = ManifestOf(Files \ dropped)]
    /\ changedAt' = [changedAt EXCEPT ![b] = opsHour]
    /\ UNCHANGED <<opsHour, opsState, period, seenState, toRemove, home, touched, certifierVars>>

Publish(b) ==
    /\ OpsStep(b, "publish", "record")
    /\ manifest[b] # NoManifest
    /\ home' = [home EXCEPT ![b] = "bundles"]
    /\ UNCHANGED <<opsHour, opsState, period, seenState, toRemove, parts, manifest, changedAt,
                   touched, certifierVars>>

\* The newest RecentRuns runs are remembered.
InFront(b, runs) == SubSeq(<<b>> \o runs, 1, IF Len(runs) < RecentRuns THEN Len(runs) + 1 ELSE RecentRuns)

\* The state it has read, and not the one in the file by now, with this run in front.
RecordCollection(b) ==
    /\ OpsStep(b, "record", "retain")
    /\ opsState' = [seenState[b] EXCEPT !.recent = InFront(b, @)]
    /\ noted' = InFront(b, noted)
    /\ undone' = (undone \/ seenState[b].success # opsState.success)
    /\ overwritten' = (overwritten \/ seenState[b].recent # opsState.recent)
    /\ Forget(b)
    /\ UNCHANGED <<opsHour, period, toRemove, directoryVars, certifying, certifierSaw,
                   certified, lastReport>>

\* --no-state-update, or the state file cannot be written.
SkipRecord(b) ==
    /\ OpsStep(b, "record", "retain")
    /\ Forget(b)
    /\ UNCHANGED <<opsHour, opsState, period, toRemove, directoryVars, certifierVars>>

-----------------------------------------------------------------------------
(***************************************************************************)
(* retention: bundles beyond the newest MaxBundles go, and those too old.  *)
(***************************************************************************)

Published == {b \in Bundles : home[b] = "bundles"}

\* Bundles of the same time come in any order.
Kept(order) ==
    {order[i] : i \in {j \in DOMAIN order : j <= MaxBundles /\ changedAt[order[j]] >= opsHour - KeepFor}}

NewestFirst(order) ==
    \A i, j \in DOMAIN order : i < j => changedAt[order[i]] >= changedAt[order[j]]

Orders == {f \in [1..Cardinality(Published) -> Published] :
              {f[i] : i \in DOMAIN f} = Published /\ NewestFirst(f)}

StartRetention(b) ==
    /\ runStep[b] = "retain"
    /\ \E order \in Orders : toRemove' = [toRemove EXCEPT ![b] = Published \ Kept(order)]
    /\ runStep' = [runStep EXCEPT ![b] = IF toRemove'[b] = {} THEN "ended" ELSE "remove"]
    /\ UNCHANGED <<opsHour, opsState, period, seenState, directoryVars, certifierVars>>

\* The redaction report is the first to go, by its name; then the rest, and the
\* directory.
RemoveNext(d) ==
    /\ touched' = touched \cup {d}
    /\ \/ /\ "redaction_report" \in parts[d]
          /\ parts' = [parts EXCEPT ![d] = @ \ {"redaction_report"}]
          /\ changedAt' = [changedAt EXCEPT ![d] = opsHour]
          /\ UNCHANGED <<home, manifest>>
       \/ /\ "redaction_report" \notin parts[d]
          /\ parts' = [parts EXCEPT ![d] = {}]
          /\ manifest' = [manifest EXCEPT ![d] = NoManifest]
          /\ home' = [home EXCEPT ![d] = "gone"]
          /\ changedAt' = [changedAt EXCEPT ![d] = 0]

\* A run that finds nothing left to remove ends.
RemoveFile(b) ==
    /\ runStep[b] = "remove"
    /\ \E d \in toRemove[b] :
           /\ home[d] = "bundles"
           /\ RemoveNext(d)
           /\ toRemove' = [r \in Bundles |-> IF home'[d] = "gone" THEN toRemove[r] \ {d} ELSE toRemove[r]]
    /\ runStep' = [r \in Bundles |->
           IF runStep[r] = "remove" /\ toRemove'[r] = {} THEN "ended" ELSE runStep[r]]
    /\ UNCHANGED <<opsHour, opsState, period, seenState, certifierVars>>

\* A step before the publication fails, or the run is killed: nobody reads what
\* it leaves in its staging directory.
FailInStaging(b) ==
    /\ runStep[b] \in {"build", "publish"}
    /\ runStep' = [runStep EXCEPT ![b] = "ended"]
    /\ parts' = [parts EXCEPT ![b] = {}]
    /\ manifest' = [manifest EXCEPT ![b] = NoManifest]
    /\ changedAt' = [changedAt EXCEPT ![b] = 0]
    /\ period' = [period EXCEPT ![b] = NoPeriod]
    /\ Forget(b)
    /\ UNCHANGED <<opsHour, opsState, home, toRemove, touched, certifierVars>>

\* A step after the publication fails, or the run
\* is killed: what it has done remains.
EndRun(b) ==
    /\ runStep[b] \in {"record", "retain", "remove"}
    /\ runStep' = [runStep EXCEPT ![b] = "ended"]
    /\ toRemove' = [toRemove EXCEPT ![b] = {}]
    /\ Forget(b)
    /\ UNCHANGED <<opsHour, opsState, period, directoryVars, certifierVars>>

-----------------------------------------------------------------------------
(***************************************************************************)
(* mark-report-success.                                                    *)
(***************************************************************************)

\* _validate_bundle_contents
Valid(b) ==
    /\ manifest[b] # NoManifest
    /\ Mandatory \subseteq parts[b]
    /\ manifest[b].inventory \subseteq parts[b]

\* A partial bundle needs --accept-partial; any other status but "complete" is
\* refused.  One report is written from a bundle.
StartCertification(b) ==
    /\ certifying = NoBundle /\ b \notin certified
    /\ home[b] = "bundles" /\ Valid(b)
    /\ manifest[b].status \in {"complete", "partial"}
    /\ ValidPeriod(period[b])
    /\ certifying' = b /\ certifierSaw' = opsState
    /\ UNCHANGED <<opsHour, opsState, runVars, directoryVars, certified, keptVars>>

\* The bundle has been hashed; the state it has read is written with this report.
Certify ==
    /\ certifying # NoBundle
    /\ opsState' = [certifierSaw EXCEPT !.success = certifying]
    /\ certified' = certified \cup {certifying} /\ lastReport' = certifying /\ undone' = FALSE
    /\ overwritten' = (overwritten \/ certifierSaw.recent # opsState.recent)
    /\ certifying' = NoBundle /\ certifierSaw' = NoState
    /\ UNCHANGED <<opsHour, runVars, directoryVars, noted>>

\* It fails, or is killed.
AbandonCertification ==
    /\ certifying # NoBundle
    /\ certifying' = NoBundle /\ certifierSaw' = NoState
    /\ UNCHANGED <<opsHour, opsState, runVars, directoryVars, certified, keptVars>>

PassHour ==
    /\ opsHour < LastHourOfOps
    /\ opsHour' = opsHour + 1
    /\ UNCHANGED <<opsState, runVars, directoryVars, certifierVars>>

NextOps ==
    \/ \E b \in Bundles : StartCollection(b) \/ Build(b) \/ Publish(b)
    \/ \E b \in Bundles : RecordCollection(b) \/ SkipRecord(b)
    \/ \E b \in Bundles : StartRetention(b) \/ RemoveFile(b) \/ EndRun(b) \/ FailInStaging(b)
    \/ \E b \in Bundles : StartCertification(b)
    \/ Certify \/ AbandonCertification \/ PassHour

SpecOps == InitOps /\ [][NextOps]_opsVars

-----------------------------------------------------------------------------
(***************************************************************************)
(* Properties.                                                             *)
(***************************************************************************)

StateFiles ==
    [success : Bundles \cup {NoBundle}, recent : Seq(Bundles)]

Periods == [start : Int, end : 0..LastHourOfOps, auto : BOOLEAN]

TypeOKOps ==
    /\ opsHour \in 0..LastHourOfOps
    /\ opsState \in StateFiles /\ Len(opsState.recent) <= RecentRuns
    /\ runStep \in [Bundles -> {"idle", "build", "publish", "record",
                                "retain", "remove", "ended"}]
    /\ period \in [Bundles -> Periods]
    /\ seenState \in [Bundles -> StateFiles]
    /\ home \in [Bundles -> {"nowhere", "staging", "bundles", "gone"}]
    /\ parts \in [Bundles -> SUBSET Files]
    /\ manifest \in [Bundles -> [status : {"none", "complete", "partial"}, inventory : SUBSET Files]]
    /\ changedAt \in [Bundles -> 0..LastHourOfOps]
    /\ toRemove \in [Bundles -> SUBSET Bundles]
    /\ certifying \in Bundles \cup {NoBundle} /\ certifierSaw \in StateFiles
    /\ touched \subseteq Bundles /\ certified \subseteq Bundles
    /\ lastReport \in Bundles \cup {NoBundle} /\ noted \in Seq(Bundles)
    /\ undone \in BOOLEAN /\ overwritten \in BOOLEAN

\* A published bundle says the truth about itself wherever its run or a round of
\* it ended: its manifest lists the files it has, the mandatory ones among them,
\* and calls it complete only if nothing was dropped.
PublishedTruthful ==
    \A b \in Published \ touched :
        /\ manifest[b].inventory = parts[b] /\ Mandatory \subseteq parts[b]
        /\ manifest[b].status = "complete" => parts[b] = Files
        /\ manifest[b].status # "none"

\* A run in the state file has published its bundle, whatever failed or was
\* overwritten (cli.py:367: "never certify a state entry before that publication
\* can succeed").
RecordedPublished ==
    \A i \in DOMAIN opsState.recent : home[opsState.recent[i]] \in {"bundles", "gone"}

\* A report or a run is lost to the state file only if a run, or for runs a
\* certification, overlapped it: one that had read the file before wrote it back
\* after.  Runs that overlap otherwise, fail, are killed or note nothing lose none.
StateKept ==
    /\ ~undone => opsState.success = lastReport
    /\ ~overwritten => opsState.recent = noted

\* No hour after the last report is left out: an automatic period begins where
\* the report that was certified last has ended, and one of FirstPeriod is taken
\* only while there is none, unless that report has been undone since.
ReportsChain ==
    [][\A b \in Bundles :
           runStep[b] = "idle" /\ runStep'[b] = "build" /\ period'[b].auto =>
               \/ period'[b] = AutoPeriodSince(lastReport)
               \/ undone]_opsVars

\* A bundle whose removal was interrupted is not taken for a whole one when a
\* report of it is certified.
BrokenNotCertified ==
    [][\A b \in Bundles : certifying # b /\ certifying' = b => b \notin touched]_opsVars

\* After every step the agent's bundles, its state file and its reports agree
\* wherever a run, a removal or a certification was interrupted or overlapped.
BundlesHonest ==
    /\ [][PublishedTruthful' /\ RecordedPublished' /\ StateKept']_opsVars
    /\ ReportsChain /\ BrokenNotCertified

=============================================================================
