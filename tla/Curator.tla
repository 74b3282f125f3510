------------------------------ MODULE Curator -------------------------------
(***************************************************************************)
(* Curator.synthesize (curator.py) over the incident collection while it   *)
(* is written: a run reads the window's resolved incidents, lists the      *)
(* pattern files there are, and then takes cluster after cluster: skip it  *)
(* if its file exists, else ask the model and write the file.  It is a     *)
(* process of its own, started by cron or by hand, so runs may overlap,    *)
(* fail in the middle and be stopped anywhere.                             *)
(*                                                                         *)
(* A pattern file is known by its name: service, failure mode and the      *)
(* incidents behind the digest.  What the model writes is left out.        *)
(***************************************************************************)
EXTENDS MemoryStore

CONSTANTS
  Processes,       \* the processes runs execute in
  ServiceOf,       \* incident -> service
  KeyOrder,        \* where a <<service, failure mode>> stands in sorted order
  MinClusterSize,  \* min_cluster_size
  MaxBatches       \* bound of the model: runs

Services == {ServiceOf[i] : i \in Incidents}

ASSUME CuratorAssumption ==
  /\ ServiceOf \in [Incidents -> Services]
  /\ KeyOrder \in [Services \X Causes -> Nat]
  /\ \A a, b \in Services \X Causes : KeyOrder[a] = KeyOrder[b] => a = b
  /\ MinClusterSize \in Nat \ {0}
  /\ MaxBatches \in Nat

VARIABLES
  stage,     \* how far the run of each process got
  window,    \* eligible: the clusters it read that are large enough
  todo,      \* those it has not come to yet
  active,    \* active_keys, as it found them
  bank,      \* the pattern files there are
  torn,      \* those that are not written to their end
  asked,     \* history: how often the model was asked for each pattern
  batches,   \* history: runs started
  overlaps,  \* history: runs started while another was under way
  wasted,    \* history: for each pattern, the askings that filed nothing
  spoiled    \* history: the patterns a run was writing when it ended, or that
             \* two runs wrote into each other

runs  == <<stage, window, todo, active>>
files == <<bank, torn>>
curatorHistory == <<asked, batches, overlaps, wasted, spoiled>>
curatorVars == <<memory, runs, files, curatorHistory>>

Patterns == [service : Services, mode : Causes, ids : SUBSET Incidents]

CuratorInit ==
  /\ MemoryInit
  /\ stage = [r \in Processes |-> "off"]
  /\ window = [r \in Processes |-> {}]
  /\ todo = [r \in Processes |-> {}]
  /\ active = [r \in Processes |-> {}]
  /\ bank = {}
  /\ torn = {}
  /\ asked = [t \in Patterns |-> 0]
  /\ batches = 0
  /\ overlaps = 0
  /\ wasted = [t \in Patterns |-> 0]
  /\ spoiled = {}

\* _cluster_records: the incidents of one service and failure mode.
Cluster(read, s, c) == {i \in read : ServiceOf[i] = s /\ cause[i] = c}

Eligible(read) ==
  {[service |-> k[1], mode |-> k[2], ids |-> Cluster(read, k[1], k[2])] :
     k \in {k \in Services \X Causes :
              Cardinality(Cluster(read, k[1], k[2])) >= MinClusterSize}}

\* The cluster run r is at: the first in order of service and failure mode.
Current(r) ==
  CHOOSE t \in todo[r] : \A u \in todo[r] :
    KeyOrder[<<t.service, t.mode>>] <= KeyOrder[<<u.service, u.mode>>]

\* FAULT: any file of the service and the failure mode counts.
FaultyKnown(r, t) ==
  \E u \in bank : u.service = t.service /\ u.mode = t.mode

\* FAULT: the names compared are never the names of files.
NeverKnown(r, t) == t \in active[r] /\ t \notin bank

\* The two legs of the dedup: the keys listed at the start, and the file now.
Known(r, t) == t \in active[r] \/ t \in bank

Go(r, from, to) == stage[r] = from /\ stage' = [stage EXCEPT ![r] = to]

-----------------------------------------------------------------------------
\* A run starts: since is anything the command line says.
Start(r, since) ==
  /\ batches < MaxBatches
  /\ stage[r] \in {"off", "done"}
  /\ stage' = [stage EXCEPT ![r] = "listing"]
  /\ window' = [window EXCEPT ![r] = Eligible(ResolvedSince(since))]
  /\ todo' = [todo EXCEPT ![r] = Eligible(ResolvedSince(since))]
  /\ active' = [active EXCEPT ![r] = {}]
  /\ batches' = batches + 1
  /\ overlaps' = IF \E q \in Processes : stage[q] \notin {"off", "done"}
                   THEN overlaps + 1 ELSE overlaps
  /\ UNCHANGED <<memory, files, asked, wasted, spoiled>>

\* list_active_few_shot_keys.
List(r) ==
  /\ Go(r, "listing", "choosing")
  /\ active' = [active EXCEPT ![r] = bank]
  /\ UNCHANGED <<memory, window, todo, files, curatorHistory>>

Skip(r) ==
  /\ todo[r] # {}
  /\ Known(r, Current(r))
  /\ Go(r, "choosing", "choosing")
  /\ todo' = [todo EXCEPT ![r] = @ \ {Current(r)}]
  /\ UNCHANGED <<memory, window, active, files, curatorHistory>>

Ask(r) ==
  /\ todo[r] # {}
  /\ ~Known(r, Current(r))
  /\ Go(r, "choosing", "asking")
  /\ asked' = [asked EXCEPT ![Current(r)] = @ + 1]
  /\ UNCHANGED <<memory, window, todo, active, files, batches, overlaps, wasted,
                 spoiled>>

\* The answer is there and write_text opens the file: it exists, and whatever
\* it held is gone.
OpenFile(r) ==
  /\ Go(r, "asking", "writing")
  /\ bank' = bank \cup {Current(r)}
  /\ torn' = torn \cup {Current(r)}
  /\ UNCHANGED <<memory, window, todo, active, curatorHistory>>

\* The text is in the file.  If another run has filled it since this one
\* opened it, the longer text may stick out behind the shorter one.
CloseFile(r) ==
  /\ Go(r, "writing", "choosing")
  /\ todo' = [todo EXCEPT ![r] = @ \ {Current(r)}]
  /\ \/ torn' = torn \ {Current(r)} /\ UNCHANGED spoiled
     \/ /\ Current(r) \notin torn
        /\ torn' = torn \cup {Current(r)}
        /\ spoiled' = spoiled \cup {Current(r)}
  /\ UNCHANGED <<memory, window, active, bank, asked, batches, overlaps, wasted>>

\* Every cluster was taken: the report.
Report(r) ==
  /\ todo[r] = {}
  /\ Go(r, "choosing", "done")
  /\ UNCHANGED <<memory, window, todo, active, files, curatorHistory>>

\* The run ends early: the model's client or the disk raises (nothing in
\* synthesize catches it), or the process is stopped.
Break(r) ==
  /\ stage[r] \in {"listing", "choosing", "asking", "writing"}
  /\ stage' = [stage EXCEPT ![r] = "off"]
  /\ wasted' = IF stage[r] = "asking"
                 THEN [wasted EXCEPT ![Current(r)] = @ + 1] ELSE wasted
  /\ IF stage[r] = "writing"
       THEN /\ spoiled' = spoiled \cup {Current(r)}
            /\ torn' \in {torn, torn \cup {Current(r)}}
       ELSE UNCHANGED <<spoiled, torn>>
  /\ window' = [window EXCEPT ![r] = {}]
  /\ todo' = [todo EXCEPT ![r] = {}]
  /\ active' = [active EXCEPT ![r] = {}]
  /\ UNCHANGED <<memory, bank, asked, batches, overlaps>>

RunStep(r) ==
  \/ List(r) \/ Skip(r) \/ Ask(r) \/ OpenFile(r) \/ CloseFile(r) \/ Report(r)
  \/ Break(r)

\* Meanwhile the collection is written.
Remember == MemoryNext /\ UNCHANGED <<runs, files, curatorHistory>>

CuratorNext ==
  \/ Remember
  \/ \E r \in Processes, since \in 0..MaxTime : Start(r, since)
  \/ \E r \in Processes : RunStep(r)

CuratorSpec == CuratorInit /\ [][CuratorNext]_curatorVars

-----------------------------------------------------------------------------
\* A run that reported has left a whole pattern for every cluster of its
\* window, whatever became of the memory and whatever other runs did meanwhile:
\* only a pattern that was being written when some run ended, or by two runs at
\* once, or is being written by another run just now, may not be whole.
ReportedRunsCoverTheirWindow ==
  \A r \in Processes : stage[r] = "done" =>
    \A t \in window[r] :
      /\ t \in bank
      /\ t \in torn => \/ t \in spoiled
                       \/ \E q \in Processes :
                            stage[q] = "writing" /\ Current(q) = t

\* "Idempotent": the model is paid for a pattern once, and once more only for
\* each time its answer was not filed and for each run that overlapped another.
PatternsArePaidOnce ==
  \A t \in Patterns : asked[t] <= 1 + wasted[t] + overlaps
=============================================================================
