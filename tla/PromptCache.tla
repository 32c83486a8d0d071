----------------------------- MODULE PromptCache -----------------------------
(***************************************************************************)
(* pkg/agent/context.go: the cached static system prompt.  It is built     *)
(* from source files (bootstrap files and memory) and skill files; a       *)
(* request takes the cached prompt if the files' existence and             *)
(* modification times say that nothing changed since.  Files are written   *)
(* at any moment, also during a build, with the clock's time or, when a    *)
(* copy keeps its time stamp, an older one.                                *)
(***************************************************************************)
EXTENDS Naturals, FiniteSets

CONSTANTS
  Sources,     \* source files
  Skills,      \* skill files
  MaxClock,    \* bound: the clock
  MaxWrites    \* bound: writes and deletions

ASSUME PromptAssumption == MaxClock \in Nat \ {0} /\ MaxWrites \in Nat

Files == Sources \cup Skills

VARIABLES
  clock,     \* the clock that stamps files
  file,      \* file[f]: exists, mtime, and the version of its content
  cache,     \* what the ContextBuilder holds: the prompt and its baseline
  builder,   \* a request that builds: place, baseline, prompt
  served,    \* the prompt the last request got
  writes,    \* versions written
  high,      \* history: the newest time stamp a file ever had
  fresh      \* history: files whose last write had a stamp newer than all before

promptVars == <<clock, file, cache, builder, served, writes, high, fresh>>

Gone == [exists |-> FALSE, mtime |-> 0, version |-> 0]
NoBaseline == [existed |-> [f \in Sources |-> FALSE], skills |-> [f \in Skills |-> 0], max |-> 0]
Empty == [built |-> FALSE, prompt |-> [f \in Files |-> 0], baseline |-> NoBaseline]
Prompt == [f \in Files |-> file[f].version]

PromptInit ==
  /\ clock = 1 /\ writes = 0
  /\ file = [f \in Files |-> Gone]
  /\ cache = Empty
  /\ builder = [at |-> "idle", baseline |-> NoBaseline, prompt |-> Prompt]
  /\ served = Prompt /\ high = 0 /\ fresh = {}

(* buildCacheBaseline: what exists and the newest time stamp, which is     *)
(* never the zero time.                                                    *)
Newest == CHOOSE t \in 1..MaxClock :
            /\ \A f \in Files : file[f].mtime <= t
            /\ t = 1 \/ \E f \in Files : file[f].mtime = t
Baseline ==
  [existed |-> [f \in Sources |-> file[f].exists],
   skills  |-> [f \in Skills |-> file[f].mtime],
   max     |-> Newest]

(* fileChangedSince; skillFilesChangedSince. *)
SourceChanged(f) ==
  \/ cache.baseline.existed[f] # file[f].exists
  \/ file[f].exists /\ file[f].mtime > cache.baseline.max
SkillChanged(f) == cache.baseline.skills[f] # file[f].mtime
Valid ==
  /\ cache.built
  /\ ~(\E f \in Sources : SourceChanged(f))
  /\ ~(\E f \in Skills : SkillChanged(f))

(* The fast path, under the read lock. *)
Serve ==
  /\ builder.at = "idle" /\ Valid
  /\ served' = cache.prompt
  /\ UNCHANGED <<clock, file, cache, builder, writes, high, fresh>>

(* Under the write lock: the baseline first, then the files, then the      *)
(* cache's fields.                                                         *)
TakeBaseline ==
  /\ builder.at = "idle" /\ ~Valid
  /\ builder' = [builder EXCEPT !.at = "based", !.baseline = Baseline]
  /\ UNCHANGED <<clock, file, cache, served, writes, high, fresh>>
ReadFiles ==
  /\ builder.at = "based"
  /\ builder' = [builder EXCEPT !.at = "built", !.prompt = Prompt]
  /\ UNCHANGED <<clock, file, cache, served, writes, high, fresh>>
BaselineLast == [built |-> TRUE, prompt |-> builder.prompt, baseline |-> Baseline]
Built == [built |-> TRUE, prompt |-> builder.prompt, baseline |-> builder.baseline]
Build ==
  /\ builder.at = "built"
  /\ cache' = Built /\ served' = builder.prompt
  /\ builder' = [builder EXCEPT !.at = "idle"]
  /\ UNCHANGED <<clock, file, writes, high, fresh>>

InvalidateCache ==
  /\ builder.at = "idle" /\ cache.built
  /\ cache' = Empty
  /\ UNCHANGED <<clock, file, builder, served, writes, high, fresh>>

(* The world: writes, deletions, time. *)
Write(f, stamp) ==
  /\ writes < MaxWrites
  /\ writes' = writes + 1
  /\ file' = [file EXCEPT ![f] = [exists |-> TRUE, mtime |-> stamp, version |-> writes']]
  /\ fresh' = IF stamp > high THEN fresh \cup {f} ELSE fresh \ {f}
  /\ high' = IF stamp > high THEN stamp ELSE high
  /\ UNCHANGED <<clock, cache, builder, served>>
Delete(f) ==
  /\ writes < MaxWrites /\ file[f].exists
  /\ writes' = writes + 1
  /\ file' = [file EXCEPT ![f] = Gone]
  /\ fresh' = fresh \ {f}
  /\ UNCHANGED <<clock, cache, builder, served, high>>
ClockTick == clock < MaxClock /\ clock' = clock + 1 /\ UNCHANGED <<file, cache, builder, served, writes, high, fresh>>

PromptNext ==
  \/ Serve \/ TakeBaseline \/ ReadFiles \/ Build \/ InvalidateCache \/ ClockTick
  \/ \E f \in Files : Delete(f) \/ \E stamp \in 1..clock : Write(f, stamp)

PromptSpec == PromptInit /\ [][PromptNext]_promptVars
-----------------------------------------------------------------------------
PromptTypeOK ==
  /\ clock \in 1..MaxClock /\ writes \in 0..MaxWrites
  /\ file \in [Files -> [exists : BOOLEAN, mtime : 0..MaxClock, version : 0..MaxWrites]]
  /\ cache.prompt \in [Files -> 0..MaxWrites] /\ cache.built \in BOOLEAN
  /\ served \in [Files -> 0..MaxWrites] /\ builder.at \in {"idle", "based", "built"}
  /\ high \in 0..clock /\ fresh \subseteq Files

(* A file whose last write has a stamp newer than any before is never      *)
(* stale in a prompt that passes for current, also when it was written     *)
(* while that prompt was built: the baseline is taken before the files.    *)
NewerIsSeen == Valid => \A f \in fresh : cache.prompt[f] = file[f].version
PromptIsCurrent == PromptTypeOK /\ NewerIsSeen
=============================================================================
