---------------------------- MODULE TemplatePool ----------------------------
(***************************************************************************)
(* TemplateImagePool (sandbox_pool.py 77-385) and the case threads that    *)
(* use it: get_or_create() looks a phase's image up or builds it under a   *)
(* lock of its key, and a timer's thread evicts what has not been used for *)
(* max_age.  Each block under the pool's lock is one step, each Docker     *)
(* request another.                                                        *)
(*                                                                         *)
(* The clock is a set of keys that are stale.  A key gets stale only while *)
(* no case holds it: max_age is days, a case minutes.  The name of the     *)
(* image follows from the key.  The key "base" stands for phases without   *)
(* dependencies, whose image is the base image itself.                     *)
(***************************************************************************)
EXTENDS Naturals, FiniteSets

CONSTANTS
  Callers,      \* case threads
  Keys,         \* keys of phases with dependencies
  Base,         \* the key "base"
  MaxEvictions, \* bound: how often each key is evicted
  MaxFaults     \* bound: builds and removals that fail

NoKey == <<>>

ASSUME TemplateAssumption ==
  /\ IsFiniteSet(Callers)
  /\ Base \notin Keys /\ NoKey \notin Keys \cup {Base}
  /\ MaxEvictions \in Nat /\ MaxFaults \in Nat

VARIABLES
  templates,  \* keys of _templates
  stale,      \* keys whose _last_used is older than max_age
  epoch,      \* which lock _build_locks has, or will have, for each key
  stage, key, \* each case thread: where it is, for which key
  lock,       \* the build lock it found: the epoch of its key at that time
  image,      \* what get_or_create gave it: "template", "base" or nothing yet
  gcPc,       \* where the thread of the GC timer is
  chosen,     \* the stale items it still has to evict
  removed,     \* the one whose image it has just removed
  images,     \* Docker: keys whose image exists
  faults,
  doomed,     \* history: threads whose image the GC had already chosen
  leaked      \* history: images the pool forgot, never knew or will not know

pool == <<templates, stale, epoch>>
caller == <<stage, key, lock, image>>
gc == <<gcPc, chosen, removed>>
imageVars == <<pool, caller, gc, images, faults, doomed, leaked>>

AllKeys == Keys \cup {Base}
Stages == {"idle", "lookup", "wait", "recheck", "build", "publish", "use"}

PoolTypeOK ==
  /\ templates \subseteq AllKeys /\ stale \subseteq Keys \cap templates
  /\ epoch \in [Keys -> 0..MaxEvictions]
  /\ stage \in [Callers -> Stages]
  /\ key \in [Callers -> AllKeys \cup {NoKey}]
  /\ \A c \in Callers : key[c] = NoKey <=> stage[c] = "idle"
  /\ lock \in [Callers -> 0..MaxEvictions]
  /\ image \in [Callers -> {"none", "template", "base"}]
  /\ gcPc \in {"sleep", "remove", "forget"}
  /\ chosen \subseteq Keys /\ removed \subseteq chosen
  /\ images \subseteq Keys
  /\ faults \in 0..MaxFaults
  /\ doomed \subseteq Callers
  /\ leaked \subseteq Keys

(* Images of an earlier process with the same base image are kept by the   *)
(* startup cleanup, but the pool does not learn of them.                   *)
ImageInit ==
  /\ templates = {} /\ stale = {}
  /\ epoch = [k \in Keys |-> 0]
  /\ stage = [c \in Callers |-> "idle"]
  /\ key = [c \in Callers |-> NoKey]
  /\ lock = [c \in Callers |-> 0]
  /\ image = [c \in Callers |-> "none"]
  /\ gcPc = "sleep" /\ chosen = {} /\ removed = {}
  /\ images \in SUBSET Keys
  /\ faults = 0
  /\ doomed = {}
  /\ leaked = images

CallerGoes(c, from, to) == stage[c] = from /\ stage' = [stage EXCEPT ![c] = to]
Fault == faults < MaxFaults /\ faults' = faults + 1

-----------------------------------------------------------------------------
(* get_or_create, on a case's thread *)

Call(c) ==
  /\ CallerGoes(c, "idle", "lookup")
  /\ \E k \in AllKeys : key' = [key EXCEPT ![c] = k]
  /\ UNCHANGED <<pool, lock, image, gc, images, faults, doomed, leaked>>

(* Mutant: the entry is not touched. *)
FoundUntouched(c) ==
  /\ key[c] \in templates
  /\ stage' = [stage EXCEPT ![c] = "use"]
  /\ image' = [image EXCEPT ![c] = IF key[c] = Base THEN "base" ELSE "template"]
  /\ doomed' = IF key[c] \in chosen THEN doomed \cup {c} ELSE doomed
  /\ UNCHANGED <<pool, key, lock, gc, images, faults, leaked>>

Found(c) ==
  /\ key[c] \in templates
  /\ stage' = [stage EXCEPT ![c] = "use"]
  /\ stale' = stale \ {key[c]}
  /\ image' = [image EXCEPT ![c] = IF key[c] = Base THEN "base" ELSE "template"]
  /\ doomed' = IF key[c] \in chosen THEN doomed \cup {c} ELSE doomed
  /\ UNCHANGED <<templates, epoch, key, lock, gc, images, faults, leaked>>

(* Not cached: the key's build lock is found or made. *)
Lookup(c) ==
  /\ stage[c] = "lookup"
  /\ \/ Found(c)
     \/ /\ key[c] \notin templates
        /\ stage' = [stage EXCEPT ![c] = "wait"]
        /\ lock' = [lock EXCEPT ![c] = IF key[c] = Base THEN 0 ELSE epoch[key[c]]]
        /\ UNCHANGED <<pool, key, image, gc, images, faults, doomed, leaked>>

Locked(c) == stage[c] \in {"recheck", "build", "publish"}
SameLock(c, d) == key[c] = key[d] /\ lock[c] = lock[d]

EnterBuildLock(c) ==
  /\ CallerGoes(c, "wait", "recheck")
  /\ \A d \in Callers : ~(Locked(d) /\ SameLock(c, d))
  /\ UNCHANGED <<pool, key, lock, image, gc, images, faults, doomed, leaked>>

(* Mutant: the cache is not looked at again. *)
BuildUnchecked(c) ==
  /\ CallerGoes(c, "recheck", IF key[c] = Base THEN "publish" ELSE "build")
  /\ UNCHANGED <<pool, key, lock, image, gc, images, faults, doomed, leaked>>

Recheck(c) ==
  /\ stage[c] = "recheck"
  /\ \/ Found(c)
     \/ /\ key[c] \notin templates
        /\ stage' = [stage EXCEPT ![c] = IF key[c] = Base THEN "publish" ELSE "build"]
        /\ UNCHANGED <<pool, key, lock, image, gc, images, faults, doomed, leaked>>

(* Mutant: an image is not committed over another. *)
BuildRefused(c) ==
  /\ key[c] \notin images
  /\ CallerGoes(c, "build", "publish")
  /\ images' = images \cup {key[c]}
  /\ UNCHANGED <<pool, key, lock, image, gc, faults, doomed, leaked>>

(* Dependencies are installed in a container, which is committed: an image *)
(* of that name from before is replaced by one the pool will know.         *)
Build(c) ==
  /\ CallerGoes(c, "build", "publish")
  /\ images' = images \cup {key[c]}
  /\ leaked' = leaked \ {key[c]}
  /\ UNCHANGED <<pool, key, lock, image, gc, faults, doomed>>

(* Mutant: a build that failed is published. *)
BuildFailsQuietly(c) ==
  /\ CallerGoes(c, "build", "publish")
  /\ Fault
  /\ UNCHANGED <<pool, key, lock, image, gc, images, doomed, leaked>>

(* It raises: the lock is left, the evaluator falls back to the base image. *)
(* A commit whose answer is late or lost leaves an image all the same, at   *)
(* some time before the next build of the key is through.                   *)
BuildFails(c) ==
  /\ CallerGoes(c, "build", "use")
  /\ Fault
  /\ image' = [image EXCEPT ![c] = "base"]
  /\ leaked' \in {leaked, leaked \cup {key[c]}}
  /\ UNCHANGED <<pool, key, lock, gc, images, doomed>>

CommitActs(k) ==
  /\ k \in leaked \ images
  /\ images' = images \cup {k}
  /\ UNCHANGED <<pool, caller, gc, faults, doomed, leaked>>

Publish(c) ==
  /\ CallerGoes(c, "publish", "use")
  /\ templates' = templates \cup {key[c]}
  /\ stale' = stale \ {key[c]}
  /\ image' = [image EXCEPT ![c] = IF key[c] = Base THEN "base" ELSE "template"]
  /\ UNCHANGED <<epoch, key, lock, gc, images, faults, doomed, leaked>>

(* The session has created its last sandbox from the image, or failed to. *)
Leave(c) ==
  /\ CallerGoes(c, "use", "idle")
  /\ key' = [key EXCEPT ![c] = NoKey]
  /\ image' = [image EXCEPT ![c] = "none"]
  /\ lock' = [lock EXCEPT ![c] = 0]
  /\ doomed' = doomed \ {c}
  /\ UNCHANGED <<pool, gc, images, faults, leaked>>

GetOrCreate(c) ==
  \/ Lookup(c) \/ EnterBuildLock(c) \/ Recheck(c) \/ Build(c) \/ BuildFails(c) \/ Publish(c)

-----------------------------------------------------------------------------
(* evict_stale, on the timer's thread *)

Age(k) ==
  /\ k \in templates \ stale
  /\ \A c \in Callers : key[c] # k
  /\ epoch[k] < MaxEvictions
  /\ k \notin chosen
  /\ stale' = stale \cup {k}
  /\ UNCHANGED <<templates, epoch, caller, gc, images, faults, doomed, leaked>>

(* Mutant: the timer's thread waits until nobody uses the pool. *)
ChooseWhenIdle ==
  /\ gcPc = "sleep"
  /\ stale # {} /\ \A c \in Callers : stage[c] = "idle"
  /\ gcPc' = "remove"
  /\ chosen' = stale
  /\ UNCHANGED <<pool, caller, removed, images, faults, doomed, leaked>>

ChooseStale ==
  /\ gcPc = "sleep"
  /\ stale # {}
  /\ gcPc' = "remove"
  /\ chosen' = stale
  /\ UNCHANGED <<pool, caller, removed, images, faults, doomed, leaked>>

(* One image after the other is removed, whoever has got it meanwhile. *)
RemoveImage ==
  /\ gcPc = "remove"
  /\ gcPc' = "forget"
  /\ \E k \in chosen :
       /\ removed' = {k}
       /\ \/ images' = images \ {k} /\ UNCHANGED <<faults, leaked>>
          \/ Fault /\ UNCHANGED images /\ leaked' = leaked \cup {k}
  /\ UNCHANGED <<pool, caller, chosen, doomed>>

(* Mutant: the time of the last use is kept. *)
ForgetHalf ==
  /\ gcPc = "forget"
  /\ templates' = templates \ removed
  /\ epoch' = [k \in Keys |-> IF k \in removed THEN epoch[k] + 1 ELSE epoch[k]]
  /\ chosen' = chosen \ removed
  /\ removed' = {}
  /\ gcPc' = IF chosen' = {} THEN "sleep" ELSE "remove"
  /\ UNCHANGED <<stale, caller, images, faults, doomed, leaked>>

(* The pool forgets it, and its build lock, also if the removal failed and *)
(* although somebody may have looked it up since it was chosen.            *)
Forget ==
  /\ gcPc = "forget"
  /\ templates' = templates \ removed
  /\ stale' = stale \ removed
  /\ epoch' = [k \in Keys |-> IF k \in removed THEN epoch[k] + 1 ELSE epoch[k]]
  /\ chosen' = chosen \ removed
  /\ removed' = {}
  /\ gcPc' = IF chosen' = {} THEN "sleep" ELSE "remove"
  /\ UNCHANGED <<caller, images, faults, doomed, leaked>>

EvictStale == ChooseStale \/ RemoveImage \/ Forget

ImageNext ==
  \/ \E c \in Callers : Call(c) \/ GetOrCreate(c) \/ Leave(c)
  \/ \E k \in Keys : Age(k) \/ CommitActs(k)
  \/ EvictStale

(* The threads of the cases and of the timer run; builds and removals end. *)
ImageFairness == WF_imageVars(EvictStale) /\ \A c \in Callers : WF_imageVars(GetOrCreate(c))

ImageSpec == ImageInit /\ [][ImageNext]_imageVars /\ ImageFairness

-----------------------------------------------------------------------------
(* Properties *)

(* `per-key build locks prevent duplicate concurrent builds' (sandbox_pool *)
(* 107), and nothing is built that is cached.  The lock is found under one *)
(* lock and taken outside it, and eviction replaces it: it is safe because *)
(* a key that somebody waits for is not cached, so not evicted.            *)
OneBuilder ==
  \A c \in Callers :
    stage[c] \in {"build", "publish"} =>
      /\ key[c] \notin templates
      /\ \A d \in Callers \ {c} : stage[d] \in {"build", "publish"} => key[d] # key[c]

(* A session creates its sandboxes from an image that is there, all of     *)
(* them and however long it takes: what was just used is not evicted.  The *)
(* exception are the sessions that look an image up after the collector    *)
(* chose it and before it forgot it (sandbox_pool.py 328-347): the touch   *)
(* comes too late, and containers.run fails.                               *)
InUseExists ==
  \A c \in Callers : image[c] = "template" /\ c \notin doomed => key[c] \in images

(* Cache and disk agree whatever fails: a cached image exists unless it is *)
(* being evicted, and an image is cached unless it is being published, its *)
(* removal failed (it is never tried again), it is an earlier process's or *)
(* its build failed although the commit acted (sandbox_pool.py 299): these *)
(* are the leaked ones, which no eviction finds unless the key is built.   *)
CacheMatchesDisk ==
  /\ templates \cap Keys \subseteq images \cup chosen
  /\ images \subseteq templates \cup leaked \cup {key[c] : c \in {d \in Callers : stage[d] = "publish"}}

(* Whoever fails in between, every caller gets an image, the base if need  *)
(* be: no build lock is kept or lost.                                      *)
CallersServed == \A c \in Callers : stage[c] = "lookup" ~> stage[c] = "use"

(* `Stale images are periodically evicted', unless used again. *)
StaleEvicted == \A k \in Keys : k \in stale ~> k \notin stale

(* The callers and the collector share locks and never wait for ever. *)
PoolProgress == CallersServed /\ StaleEvicted
=============================================================================
