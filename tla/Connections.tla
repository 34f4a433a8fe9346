---------------------------- MODULE Connections ----------------------------
(***************************************************************************)
(* The settings and the clients of a WalletManager: LoadAssetsConfig       *)
(* replaces them without a lock, assignment by assignment, while scanners  *)
(* and builders read the kind of server first and then the client of that  *)
(* kind. A node may be down, or down for one call, at any time.            *)
(***************************************************************************)
EXTENDS Servers

CONSTANTS
  Readers,     \* goroutines that call the node through the manager
  MaxLoads,    \* bound: calls to LoadAssetsConfig
  MaySwitch    \* whether a later load may ask for another kind of server

Nil == "nil"   \* no client

ASSUME ConnectionsAssumption ==
  /\ MaxLoads \in Nat /\ MaySwitch \in BOOLEAN
  /\ Nil \notin Nodes \cup {NoURL}

URLs    == Nodes \cup {NoURL}
Clients == URLs \cup {Nil}

VARIABLES
  config,   \* Config: the kind and the URL of the server
  client,   \* Client and ExplorerClient: for each kind, the node it calls
  loader,   \* LoadAssetsConfig: where it is and the clients it found
  served,   \* the client of the last load that succeeded, Nil before
  reader,   \* where each reader is: the kind it read, or not calling
  loads     \* calls to LoadAssetsConfig so far

connVars == <<config, client, loader, served, reader, loads>>

NotCalling == "not calling"
Panicked   == "panicked"

Steps == {"idle", "connect", "forget", "ping", "genesis", "restore", "restored"}

(* Nothing unknown goes into the variables. *)
ConnTypeOK ==
  /\ config \in [kind : Kinds, url : URLs]
  /\ client \in [Kinds -> Clients]
  /\ loader \in [pc : Steps, prev : [Kinds -> Clients]]
  /\ served \in Clients
  /\ reader \in [Readers -> Kinds \cup {NotCalling, Panicked}]
  /\ loads \in 0..MaxLoads

ConnInit ==
  /\ config = [kind |-> Core, url |-> NoURL]
  /\ client = [k \in Kinds |-> Nil]
  /\ loader = [pc |-> "idle", prev |-> client]
  /\ served = Nil
  /\ reader = [r \in Readers |-> NotCalling]
  /\ loads = 0

LoaderAt(pc) == loader.pc = pc
LoaderGoes(pc) == loader' = [loader EXCEPT !.pc = pc]
OtherThan(kind) == IF kind = Core THEN Explorer ELSE Core

(* The settings are replaced first. A Core server without a URL ends the   *)
(* load there.                                                             *)
Load(kind, url) ==
  /\ LoaderAt("idle") /\ loads < MaxLoads
  /\ loads > 0 /\ ~MaySwitch => kind = config.kind
  /\ config' = [kind |-> kind, url |-> url]
  /\ loader' = [pc   |-> IF kind = Core /\ url = NoURL THEN "idle" ELSE "connect",
                prev |-> client]
  /\ loads' = loads + 1
  /\ UNCHANGED <<client, served, reader>>

Connect ==
  /\ LoaderAt("connect") /\ LoaderGoes("forget")
  /\ client' = [client EXCEPT ![config.kind] = config.url]
  /\ UNCHANGED <<config, served, reader, loads>>

Forget ==
  /\ LoaderAt("forget") /\ LoaderGoes("ping")
  /\ client' = [client EXCEPT ![OtherThan(config.kind)] = Nil]
  /\ UNCHANGED <<config, served, reader, loads>>

Succeed ==
  /\ LoaderGoes("idle")
  /\ served' = config.url
  /\ UNCHANGED <<config, client, reader, loads>>

(* The ping asks for the height. A Core server at height 0 must also have  *)
(* its first block.                                                        *)
Answered ==
  /\ LoaderAt("ping") /\ Understands(config.kind, config.url)
  /\ Succeed

AtGenesis ==
  /\ LoaderAt("ping") /\ config.kind = Core /\ Understands(Core, config.url)
  /\ LoaderGoes("genesis")
  /\ UNCHANGED <<config, client, served, reader, loads>>

GenesisAnswered == LoaderAt("genesis") /\ Succeed

NotAnswered ==
  /\ loader.pc \in {"ping", "genesis"} /\ LoaderGoes("restore")
  /\ UNCHANGED <<config, client, served, reader, loads>>

RestoredToNil(kind) == Nil
KeptNew(kind) == client[kind]

(* What a load that failed puts in place of a client. *)
Restored(kind) == loader.prev[kind]

RestoreCore ==
  /\ LoaderAt("restore") /\ LoaderGoes("restored")
  /\ client' = [client EXCEPT ![Core] = Restored(Core)]
  /\ UNCHANGED <<config, served, reader, loads>>

RestoreExplorer ==
  /\ LoaderAt("restored") /\ LoaderGoes("idle")
  /\ client' = [client EXCEPT ![Explorer] = Restored(Explorer)]
  /\ UNCHANGED <<config, served, reader, loads>>

(* A goroutine that calls the node: it reads the kind, then the client. It *)
(* runs only when the adapter was handed out, after a load that succeeded. *)
ReadKind(r) ==
  /\ reader[r] = NotCalling /\ served # Nil
  /\ reader' = [reader EXCEPT ![r] = config.kind]
  /\ UNCHANGED <<config, client, loader, served, loads>>

(* A nil Core client answers with an error; a nil Explorer is dereferenced, *)
(* except by GetBlockHeight, which looks first.                             *)
AfterCall(kind) ==
  IF kind = Explorer /\ client[kind] = Nil THEN {NotCalling, Panicked} ELSE {NotCalling}

CallNode(r) ==
  /\ reader[r] \in Kinds
  /\ \E after \in AfterCall(reader[r]) : reader' = [reader EXCEPT ![r] = after]
  /\ UNCHANGED <<config, client, loader, served, loads>>

ConnNext ==
  \/ \E kind \in Kinds, url \in URLs : Load(kind, url)
  \/ Connect \/ Forget
  \/ Answered \/ AtGenesis \/ GenesisAnswered \/ NotAnswered
  \/ RestoreCore \/ RestoreExplorer
  \/ \E r \in Readers : ReadKind(r) \/ CallNode(r)

ConnSpec == ConnInit /\ [][ConnNext]_connVars

(***************************************************************************)
(* Properties.                                                             *)
(***************************************************************************)

(* A goroutine that has read the kind of server finds a client of that     *)
(* kind, however loads fail or succeed beside it.                          *)
ReaderFindsClient ==
  \A r \in Readers : reader[r] \in Kinds => client[reader[r]] # Nil

(* When the ping of a load fails, there is still a client of the kind the  *)
(* settings name, as there was before.                                     *)
FailedPingKeepsClient ==
  [][LoaderAt("restored") /\ served # Nil => client'[config.kind] # Nil]_connVars

(* Between loads, calls go to the node of the last load that succeeded: a  *)
(* node that did not answer its ping is never left in place.               *)
SettledOnServed ==
  LoaderAt("idle") /\ served # Nil /\ ~MaySwitch => client[config.kind] = served
=============================================================================
