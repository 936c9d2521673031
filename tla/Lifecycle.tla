------------------------------- MODULE Lifecycle -------------------------------
(***************************************************************************)
(* Processes of the gateway: Config::from_env, the order in which main.rs  *)
(* starts things, the keys that open the routes, the systemd unit that     *)
(* starts the service again, and a second process started by hand          *)
(* (`cargo run --release') with the same .env.                             *)
(*                                                                         *)
(* What a process does to table and files while it serves is in Gateway.   *)
(***************************************************************************)
EXTENDS Naturals

CONSTANTS
  Secret,    \* texts of keys, none of them empty
  Address    \* host and port to bind; no two of them overlap

ASSUME SecretAssumption == "" \notin Secret

Process == {"unit", "hand"}

VARIABLES
  env,      \* the environment, as .env has it
  conf,     \* the Config of each process
  state,    \* how far main has come in each process
  loop,     \* the task main has spawned in it
  outcome   \* how the unit ended last, as systemd sees it

lifeVars == <<env, conf, state, loop, outcome>>

Environment == [ api    : Secret \cup {""},   \* GATEWAY_API_KEY
                 worker : Secret \cup {""},   \* GATEWAY_WORKER_KEY
                 bind   : Address,            \* GATEWAY_HOST, GATEWAY_PORT
                 rest   : BOOLEAN ]           \* whether they can be parsed
                                              \* and WHISPERX_* are set

\* Mutant: the two keys may be the same.
AcceptsEqualKeys(e) == e.api # "" /\ e.worker # "" /\ e.rest

\* Config::from_env: required keys are set and not empty, and differ.
Accepted(e) == e.api # "" /\ e.worker # "" /\ e.rest /\ e.api # e.worker

LifeInit ==
  /\ env \in {e \in Environment : Accepted(e)}
  /\ conf = [p \in Process |-> env]
  /\ state = [p \in Process |-> "down"]
  /\ loop = [p \in Process |-> "none"]
  /\ outcome = "none"

Serves(p) == state[p] = "serving"

\* The address p is to bind has a listener.  It is closed when a process
\* begins to drain.
Taken(p) == \E q \in Process : Serves(q) /\ conf[q].bind = conf[p].bind

Enter(p, s) == state' = [state EXCEPT ![p] = s]

\* The runtime is dropped, and the loop with it.
End(p, how) ==
  /\ Enter(p, "down")
  /\ loop' = [loop EXCEPT ![p] = "none"]
  /\ outcome' = IF p = "unit" THEN how ELSE outcome
  /\ UNCHANGED <<env, conf>>

-----------------------------------------------------------------------------
(* main.                                                                   *)

\* from_env comes first, and nothing else happens if it fails.
Launch(p) ==
  /\ state[p] = "down"
  /\ \/ ~Accepted(env) /\ End(p, "failure")
     \/ /\ Accepted(env)
        /\ conf' = [conf EXCEPT ![p] = env]
        /\ Enter(p, "connecting")
        /\ UNCHANGED <<env, loop, outcome>>

\* prepare_data_dirs, db::connect and its migrations; then the loop is spawned.
Connect(p) ==
  /\ state[p] = "connecting"
  /\ Enter(p, "binding")
  /\ loop' = [loop EXCEPT ![p] = "reset"]
  /\ UNCHANGED <<env, conf, outcome>>

\* Mutant: the address is shared.
BindShared(p) ==
  /\ state[p] = "binding"
  /\ Enter(p, "serving")
  /\ UNCHANGED <<env, conf, loop, outcome>>

\* An address has one listener; TcpListener::bind takes the one that .env had
\* when this process read it.
Bind(p) ==
  /\ state[p] = "binding" /\ ~Taken(p)
  /\ Enter(p, "serving")
  /\ UNCHANGED <<env, conf, loop, outcome>>

\* Files, database or address are not to be had: main returns an error.
StartupError(p) == state[p] \in {"connecting", "binding"} /\ End(p, "failure")

\* The reset may fail, which is logged; the loop ends if it has no client.
LoopReset(p) ==
  /\ loop[p] = "reset"
  /\ \E next \in {"running", "stopped"} : loop' = [loop EXCEPT ![p] = next]
  /\ UNCHANGED <<env, conf, state, outcome>>

\* SIGTERM or SIGINT: before main waits for them they just end the process,
\* and systemd counts that as a clean end.
Signal(p) ==
  \/ Serves(p) /\ Enter(p, "draining") /\ UNCHANGED <<env, conf, loop, outcome>>
  \/ state[p] \in {"connecting", "binding"} /\ End(p, "success")

Drained(p) == state[p] = "draining" /\ End(p, "success")

Crash(p) == state[p] \in {"serving", "draining"} /\ End(p, "failure")

\* Mutant: Restart=no.
NeverRestarts(how) == FALSE

\* Restart=on-failure.
Restarts(how) == how = "failure"

\* systemd after RestartSec, or an operator.
Relaunch == Restarts(outcome) /\ Launch("unit")
StartByHand(p) == Launch(p)

EditEnv ==
  /\ env' \in Environment
  /\ UNCHANGED <<conf, state, loop, outcome>>

-----------------------------------------------------------------------------
(* Requests.                                                               *)

\* require_api_key and require_worker_key compare the Authorization header
\* with `Bearer ' and the key: key is what follows it.
OpensClientRoutes(p, key) == Serves(p) /\ key = conf[p].api
OpensWorkerRoutes(p, key) == Serves(p) /\ key = conf[p].worker

LifeNext ==
  \/ Relaunch
  \/ EditEnv
  \/ \E p \in Process :
       \/ StartByHand(p)
       \/ Connect(p)
       \/ Bind(p)
       \/ StartupError(p)
       \/ LoopReset(p)
       \/ Signal(p)
       \/ Drained(p)
       \/ Crash(p)

LifeSpec == LifeInit /\ [][LifeNext]_lifeVars

\* systemd restarts the unit; files, database and a free address are not out of
\* reach for ever.
FairLifeSpec ==
  /\ LifeSpec
  /\ WF_lifeVars(Relaunch)
  /\ SF_lifeVars(Connect("unit"))
  /\ SF_lifeVars(Bind("unit"))
  /\ WF_lifeVars(Bind("unit") \/ StartupError("unit"))

-----------------------------------------------------------------------------
(* Properties.                                                             *)

\* A process that waits for its address or serves has spawned its loop, and one
\* that has not, or has ended, runs none; and an address has one listener.
LifeTypeOK ==
  /\ env \in Environment /\ conf \in [Process -> Environment]
  /\ state \in [Process -> {"down", "connecting", "binding", "serving", "draining"}]
  /\ loop \in [Process -> {"none", "reset", "running", "stopped"}]
  /\ outcome \in {"none", "success", "failure"}
  /\ \A p \in Process :
       loop[p] = "none" <=> state[p] \in {"down", "connecting"}
  /\ \A p, q \in Process : Serves(p) /\ Serves(q) /\ conf[p].bind = conf[q].bind => p = q

\* README.md:86 and 212: whatever is put into .env, and whenever processes are
\* started, stopped or crash after that, no key opens client and internal routes
\* alike at one address.  (At two it may: a process started before the keys were
\* swapped and the address changed serves on beside one started after that.)
RoutesApart ==
  \A key \in Secret, p, q \in Process :
    OpensClientRoutes(p, key) /\ OpensWorkerRoutes(q, key)
      => conf[p].bind # conf[q].bind

\* The service comes back after a crash or a failed start, as long as it is not
\* stopped, its configuration is sound and no other process has its address.
ServiceComesBack ==
  []<>(\/ Serves("unit")
       \/ state["unit"] = "binding" /\ Taken("unit")
       \/ state["unit"] = "draining"
       \/ state["unit"] = "down" /\ outcome # "failure"
       \/ ~Accepted(env))

=============================================================================
