---------------------------- MODULE SessionSetup ----------------------------
(***************************************************************************)
(* How a session gets its sandboxes ready before it routes the first       *)
(* message, and what it leaves when it is over: _setup_sandboxes_and_      *)
(* runtime and _cleanup of the pair and of the isolated session, on the    *)
(* Docker and on the local backend, with the files and the environment     *)
(* each program gets and the probing of its bridge.  Box 0 is the judge's. *)
(* Any request to a sandbox may raise; a bridge serves, or dies, whenever  *)
(* it likes.                                                               *)
(***************************************************************************)
EXTENDS Naturals, Sequences

CONSTANTS
  Agents,       \* of an isolated session: 1..Agents
  Npcs,         \* those whose code is part of the problem
  ServedNames,  \* names, as indices of _SERVICE_CANDIDATES, a bridge may serve
  MaxProbes     \* bound: rounds of wait_for_ready before its deadline

SetupAssumption == Agents \in Nat

VARIABLES
  setting,    \* which evaluator, which backend, ...: chosen initially
  pc, stage,  \* the step of the script; where the session is
  sandbox,    \* box -> none, debris (made, but not given), alive, gone or stuck
  code, envs, \* box -> what was written, what was passed: name -> origin
  bridge,     \* box -> none, starting, serving or dead
  channel,    \* box -> none, or the name asked for, or closed
  asked, probes   \* the running wait_for_ready: name it asks for, rounds so far

setupVars == <<setting, pc, stage, sandbox, code, envs, bridge, channel, asked, probes>>

LastCandidate == 3
Closed == 99
Unconnected == 0

Isolated == setting.evaluator = "isolated"
OnDocker == setting.backend = "docker"
Boxes == 0..(IF Isolated THEN Agents ELSE 1)

Settings ==
  {s \in [evaluator : {"dual", "local", "isolated"}, backend : {"docker", "local"},
          token : BOOLEAN, adapter : BOOLEAN, overlap : BOOLEAN, name : ServedNames] :
     /\ s.evaluator # "isolated" => s.adapter
     /\ s.evaluator = "local" => ~s.token}

PairScript == <<
  <<"create", 0>>, <<"create", 1>>, <<"prepare", 0>>, <<"prepare", 1>>,
  <<"address", 0>>, <<"address", 1>>,
  <<"start", 0>>, <<"connect", 0>>, <<"wait", 0>>,
  <<"start", 1>>, <<"connect", 1>>, <<"wait", 1>> >>

IsolatedScript ==
  LET ops == <<"create", "prepare", "start", "connect", "wait">> IN
  [n \in 1..(5 * (Agents + 1)) |-> <<ops[((n - 1) % 5) + 1], (n - 1) \div 5>>]

Script == IF Isolated THEN IsolatedScript ELSE PairScript

SetupInit ==
  /\ setting \in Settings
  /\ pc = 1 /\ stage = "setup"
  /\ sandbox = [b \in Boxes |-> "none"]
  /\ code = [b \in Boxes |-> <<>>]
  /\ envs = [b \in Boxes |-> <<>>]
  /\ bridge = [b \in Boxes |-> "none"]
  /\ channel = [b \in Boxes |-> Unconnected]
  /\ asked = 0 /\ probes = 0

At(op, b) == stage = "setup" /\ Script[pc] = <<op, b>>
Proceed ==
  /\ pc' = pc + 1
  /\ stage' = IF pc = Len(Script) THEN "routing" ELSE "setup"
Raise == stage' = "failed" /\ UNCHANGED pc

-----------------------------------------------------------------------------
(* Files and variables: later ones replace earlier ones of the same name.  *)
(* If setting.overlap, submission, artifact and configuration bring files  *)
(* and variables of every name that is also generated.                     *)

From(origin, names) == [n \in names |-> origin]
Update(f, more) == [n \in DOMAIN f \cup DOMAIN more |-> IF n \in DOMAIN more THEN more[n] ELSE f[n]]

Owner(b) == IF b = 0 THEN "artifact" ELSE IF Isolated /\ b \in Npcs THEN "npc" ELSE "user"
OwnFiles(b) ==
  From(Owner(b), IF setting.overlap THEN {"program", "wrapper", "adapter", "runtime"} ELSE {"program"})
SupportFiles == From("support", {"runtime"})

(* The wrapper, the managed bridge, and the adapter of the artifact. *)
Wrapped(files) == Update(files, From("generated", {"wrapper"}))
PairFiles(b) == Wrapped(Update(OwnFiles(b), From("artifact", {"adapter"})))
AgentFiles(b) ==
  Wrapped(Update(OwnFiles(b), From("artifact", IF setting.adapter THEN {"adapter"} ELSE {})))

(* Mutant: the support files are written first. *)
FilesSupportFirst(b) ==
  Update(SupportFiles,
         IF b = 0 THEN OwnFiles(b) ELSE IF Isolated THEN AgentFiles(b) ELSE PairFiles(b))

Files(b) ==
  Update(IF b = 0 THEN OwnFiles(b) ELSE IF Isolated THEN AgentFiles(b) ELSE PairFiles(b),
         SupportFiles)

ExtraEnvs == From("config", IF setting.overlap THEN {"mode", "llm", "port", "agent"} ELSE {})
GatewayEnvs == From("gateway", IF setting.token THEN {"llm"} ELSE {})
BaseEnvs == Update(From("runtime", {"mode"}), ExtraEnvs)
JudgeEnvs == Update(BaseEnvs, GatewayEnvs)
UserEnvs == Update(BaseEnvs, GatewayEnvs)
LocalEnvs == Update(BaseEnvs, From("key", {"llm"}))

(* SANDBOX_GRPC_PORT is a socket of the local sandbox or a port number. *)
PairEnvs(b) ==
  Update(IF setting.evaluator = "local" THEN LocalEnvs ELSE IF b = 0 THEN JudgeEnvs ELSE UserEnvs,
         From("socket", {"port"}))
IsolatedEnvs(b) ==
  Update(IF b = 0 THEN JudgeEnvs ELSE Update(UserEnvs, From("session", {"agent"})),
         From("number", {"port"}))

(* Where the transport looks for the bridge. *)
Host == IF OnDocker THEN "number" ELSE "socket"

-----------------------------------------------------------------------------
(* The steps *)

(* The backend is chosen once in a process. *)
Create(b) ==
  /\ At("create", b)
  /\ \/ Proceed /\ sandbox' = [sandbox EXCEPT ![b] = "alive"]
     \/ Raise /\ UNCHANGED sandbox
  /\ UNCHANGED <<setting, code, envs, bridge, channel, asked, probes>>

(* What raises half-way leaves what it had made, and nobody knows of it: a *)
(* local sandbox its directory, a Docker sandbox a container that runs.    *)
CreateHalfway(b) ==
  /\ At("create", b)
  /\ Raise /\ sandbox' = [sandbox EXCEPT ![b] = "debris"]
  /\ UNCHANGED <<setting, code, envs, bridge, channel, asked, probes>>

(* Directory, files, requirements.  Whether the requirements could be      *)
(* installed is not looked at; that a variable cannot be built is raised.  *)
Prepare(b) ==
  /\ At("prepare", b)
  /\ code' = [code EXCEPT ![b] = Files(b)]
  /\ envs' = [envs EXCEPT ![b] = IF Isolated THEN IsolatedEnvs(b) ELSE PairEnvs(b)]
  /\ Proceed \/ Raise
  /\ UNCHANGED <<setting, sandbox, bridge, channel, asked, probes>>

(* grpc_bind_address: only a LocalSandbox has one. *)
BindAddress(b) ==
  /\ At("address", b)
  /\ IF OnDocker THEN Raise ELSE Proceed
  /\ UNCHANGED <<setting, sandbox, code, envs, bridge, channel, asked, probes>>

Start(b) ==
  /\ At("start", b)
  /\ \/ Proceed /\ bridge' = [bridge EXCEPT ![b] = "starting"]
     \/ Raise /\ UNCHANGED bridge
  /\ UNCHANGED <<setting, sandbox, code, envs, channel, asked, probes>>

Connect(b) ==
  /\ At("connect", b)
  /\ Proceed
  /\ channel' = [channel EXCEPT ![b] = 1]
  /\ asked' = 0 /\ probes' = 0
  /\ UNCHANGED <<setting, sandbox, code, envs, bridge>>

-----------------------------------------------------------------------------
(* wait_for_ready.  asked = 0: it waits for the channel; asked = i: it     *)
(* calls CheckReady of the i-th candidate, first the one that is bound.    *)

Reachable(b) == bridge[b] = "serving" /\ envs[b]["port"] = Host
Answers(b) == Reachable(b) /\ asked = setting.name

(* Half a second later, if there is time left. *)
Round ==
  /\ asked' = 0
  /\ IF probes + 1 < MaxProbes THEN probes' = probes + 1 /\ UNCHANGED <<pc, stage>>
     ELSE Raise /\ UNCHANGED probes

AwaitChannel(b) ==
  /\ At("wait", b) /\ asked = 0
  /\ IF Reachable(b) THEN asked' = 1 /\ UNCHANGED <<pc, stage, probes>> ELSE Round
  /\ UNCHANGED <<setting, sandbox, code, envs, bridge, channel>>

(* The name that answers is kept. *)
Ready(b) ==
  /\ At("wait", b) /\ asked > 0 /\ Answers(b)
  /\ channel' = [channel EXCEPT ![b] = asked]
  /\ Proceed
  /\ UNCHANGED <<setting, sandbox, code, envs, bridge, asked, probes>>

(* Mutant: a bridge that went away counts as one of another name. *)
SwitchHasty(b) ==
  /\ At("wait", b) /\ asked > 0 /\ ~Answers(b)
  /\ channel' = [channel EXCEPT ![b] = asked + 1]
  /\ Proceed
  /\ UNCHANGED <<setting, sandbox, code, envs, bridge, asked, probes>>

(* UNIMPLEMENTED, NOT_FOUND or UNAVAILABLE: is there another name? *)
Switch(b) ==
  /\ At("wait", b) /\ asked > 0 /\ ~Answers(b)
  /\ IF asked = LastCandidate THEN Round
     ELSE asked' = asked + 1 /\ UNCHANGED <<pc, stage, probes>>
  /\ UNCHANGED <<setting, sandbox, code, envs, bridge, channel>>

(* Any other error, a missed deadline say, is final for the first name. *)
Refused(b) ==
  /\ At("wait", b) /\ asked = 1 /\ Reachable(b)
  /\ Raise
  /\ UNCHANGED <<setting, sandbox, code, envs, bridge, channel, asked, probes>>

-----------------------------------------------------------------------------
(* The programs *)

Serve(b) ==
  /\ stage # "over" /\ bridge[b] = "starting"
  /\ bridge' = [bridge EXCEPT ![b] = "serving"]
  /\ UNCHANGED <<setting, pc, stage, sandbox, code, envs, channel, asked, probes>>

Die(b) ==
  /\ stage # "over" /\ bridge[b] \in {"starting", "serving"}
  /\ bridge' = [bridge EXCEPT ![b] = "dead"]
  /\ UNCHANGED <<setting, pc, stage, sandbox, code, envs, channel, asked, probes>>

(* _cleanup.  An isolated session knows the transport of an agent only     *)
(* once it is ready.                                                       *)
WaitedFor(b) == pc <= Len(Script) /\ Script[pc] = <<"wait", b>>
Known(b) == ~(Isolated /\ b > 0 /\ WaitedFor(b))

(* Stopping a process does nothing on Docker: it goes with its container,  *)
(* unless that cannot be destroyed.                                        *)
StopProcess(b) == bridge[b] # "none" /\ ~OnDocker
Destroyed(b, survivors) ==
  IF sandbox[b] # "alive" THEN sandbox[b] ELSE IF b \in survivors THEN "stuck" ELSE "gone"
Stopped(b, survivors) ==
  bridge[b] # "none" /\ (StopProcess(b) \/ Destroyed(b, survivors) = "gone")

(* Mutant: the cleanup stops at the box the setup has come to. *)
CleanupKnown(survivors) ==
  /\ stage \in {"routing", "failed"} /\ stage' = "over"
  /\ channel' = [b \in Boxes |-> IF channel[b] # Unconnected /\ Known(b) THEN Closed ELSE channel[b]]
  /\ sandbox' = [b \in Boxes |-> IF Known(b) THEN Destroyed(b, survivors) ELSE sandbox[b]]
  /\ bridge' = [b \in Boxes |-> IF Stopped(b, survivors) THEN "dead" ELSE bridge[b]]
  /\ UNCHANGED <<setting, pc, code, envs, asked, probes>>

Cleanup(survivors) ==
  /\ stage \in {"routing", "failed"} /\ stage' = "over"
  /\ channel' = [b \in Boxes |-> IF channel[b] # Unconnected /\ Known(b) THEN Closed ELSE channel[b]]
  /\ sandbox' = [b \in Boxes |-> Destroyed(b, survivors)]
  /\ bridge' = [b \in Boxes |-> IF Stopped(b, survivors) THEN "dead" ELSE bridge[b]]
  /\ UNCHANGED <<setting, pc, code, envs, asked, probes>>

SetupNext ==
  \/ \E b \in Boxes :
       \/ Create(b) \/ CreateHalfway(b) \/ Prepare(b) \/ BindAddress(b) \/ Start(b) \/ Connect(b)
       \/ AwaitChannel(b) \/ Ready(b) \/ Switch(b) \/ Refused(b)
       \/ Serve(b) \/ Die(b)
  \/ \E survivors \in SUBSET {b \in Boxes : sandbox[b] = "alive"} : Cleanup(survivors)

-----------------------------------------------------------------------------
(* What is routed to is what was started: its bridge has answered under    *)
(* the name that is used, it runs its owner's program in the wrapper and   *)
(* runtime of this package, whatever names were brought along, and the     *)
(* keys it was given are those of its submission.  The pair session does   *)
(* not get that far on Docker, nor the isolated one on the local backend.  *)
RoutingStartsReady ==
  stage = "routing" =>
    /\ Isolated <=> OnDocker
    /\ \A b \in Boxes :
         /\ sandbox[b] = "alive" /\ bridge[b] \in {"serving", "dead"}
         /\ channel[b] = setting.name
         /\ code[b]["runtime"] = "support" /\ code[b]["program"] = Owner(b)
         /\ b > 0 => code[b]["wrapper"] = "generated"
         /\ b > 0 /\ setting.adapter => code[b]["adapter"] = "artifact"
         /\ envs[b]["port"] = Host
         /\ setting.token => envs[b]["llm"] = "gateway"
         /\ Isolated /\ b > 0 => envs[b]["agent"] = "session"

(* Wherever the setup broke off, every sandbox the session was given has   *)
(* been destroyed if that was possible, and no program runs elsewhere.     *)
(* What a creation that raised has made stays, so it is one box at most,   *)
(* and the channel to the agent an isolated session gave up waiting for    *)
(* stays open.                                                             *)
NothingLeftBehind ==
  stage = "over" =>
    \A b \in Boxes :
      /\ sandbox[b] \in {"none", "gone", "stuck", "debris"}
      /\ sandbox[b] = "debris" => pc <= Len(Script) /\ Script[pc] = <<"create", b>>
      /\ bridge[b] \in {"starting", "serving"} => OnDocker /\ sandbox[b] = "stuck"
      /\ channel[b] \notin {Unconnected, Closed} => Isolated /\ b > 0 /\ WaitedFor(b)

SetupRight == RoutingStartsReady /\ NothingLeftBehind
=============================================================================
