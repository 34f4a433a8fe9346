------------------------- MODULE ConnectionsProofs -------------------------
(***************************************************************************)
(* With a fixed kind of server, no goroutine that calls the node finds a   *)
(* nil client while settings and clients are replaced, and what a failed   *)
(* load leaves in place is the client of the last load that succeeded: for *)
(* all sets of nodes and goroutines and any number of loads.               *)
(***************************************************************************)
EXTENDS Connections, TLAPS

(* The client of the kind that the settings name, at each step of a load.  *)
ClientInv ==
  LET own == client[config.kind] IN
  /\ loader.pc \in {"idle", "connect"} /\ served # Nil => own = served
  /\ loader.pc \in {"forget", "ping", "genesis", "restore"} => own = config.url
  /\ loader.pc = "restored" =>
       own = IF config.kind = Core THEN loader.prev[Core] ELSE config.url
  /\ loader.pc # "idle" /\ served # Nil => loader.prev[config.kind] = served

(* Readers run once a load has succeeded, and read the only kind there is. *)
ReaderInv ==
  /\ loads = 0 => served = Nil /\ loader.pc = "idle"
  /\ \A r \in Readers : reader[r] \in Kinds => reader[r] = config.kind /\ served # Nil

IInv == ConnTypeOK /\ ClientInv /\ ReaderInv

LEMMA Distinct ==
  /\ Kinds = {Core, Explorer} /\ Core # Explorer
  /\ NotCalling \notin Kinds /\ Panicked \notin Kinds
  /\ Nil \notin URLs /\ URLs \subseteq Clients /\ Nil \in Clients
BY ConnectionsAssumption, ServersAssumption
DEF Kinds, Core, Explorer, NotCalling, Panicked, URLs, Clients

LEMMA InitInv == ConnInit => IInv
<1> SUFFICES ASSUME ConnInit PROVE IInv
    OBVIOUS
<1> USE Distinct DEF ConnInit
<1>1. config \in [kind : Kinds, url : URLs] /\ client \in [Kinds -> Clients]
      BY DEF URLs
<1>2. loader \in [pc : Steps, prev : [Kinds -> Clients]] /\ loader.pc = "idle"
      BY <1>1 DEF Steps
<1>3. reader \in [Readers -> Kinds \cup {NotCalling, Panicked}]
      OBVIOUS
<1>4. loads \in 0..MaxLoads
      BY ConnectionsAssumption
<1>5. ConnTypeOK
      BY <1>1, <1>2, <1>3, <1>4 DEF ConnTypeOK
<1>6. ClientInv
      BY <1>2 DEF ClientInv
<1>7. ReaderInv
      BY <1>2 DEF ReaderInv
<1> QED
    BY <1>5, <1>6, <1>7 DEF IInv

LEMMA TypeStep == ConnTypeOK /\ [ConnNext]_connVars => ConnTypeOK'
<1> SUFFICES ASSUME ConnTypeOK, [ConnNext]_connVars
             PROVE  ConnTypeOK'
    OBVIOUS
<1> USE DEF ConnTypeOK, LoaderGoes, LoaderAt
<1>1. ASSUME NEW kind \in Kinds, NEW url \in URLs, Load(kind, url)
      PROVE  ConnTypeOK'
      BY <1>1, ConnectionsAssumption DEF Load, Steps
<1>2. CASE Connect
      BY <1>2, Distinct DEF Connect, Steps
<1>3. CASE Forget
      BY <1>3, Distinct DEF Forget, Steps, OtherThan
<1>4. CASE Answered
      BY <1>4, Distinct DEF Answered, Succeed, Steps
<1>5. CASE AtGenesis
      BY <1>5 DEF AtGenesis, Steps
<1>6. CASE GenesisAnswered
      BY <1>6, Distinct DEF GenesisAnswered, Succeed, Steps
<1>7. CASE NotAnswered
      BY <1>7 DEF NotAnswered, Steps
<1>8. CASE RestoreCore
      BY <1>8, Distinct DEF RestoreCore, Restored, Steps
<1>9. CASE RestoreExplorer
      BY <1>9, Distinct DEF RestoreExplorer, Restored, Steps
<1>10. ASSUME NEW r \in Readers, ReadKind(r)
       PROVE  ConnTypeOK'
       BY <1>10 DEF ReadKind
<1>11. ASSUME NEW r \in Readers, CallNode(r)
       PROVE  ConnTypeOK'
       BY <1>11 DEF CallNode, AfterCall
<1>12. CASE UNCHANGED connVars
       BY <1>12 DEF connVars
<1> QED
    BY <1>1, <1>2, <1>3, <1>4, <1>5, <1>6, <1>7, <1>8, <1>9, <1>10, <1>11, <1>12 DEF ConnNext

LEMMA ClientStep ==
  ASSUME ~MaySwitch, IInv, [ConnNext]_connVars
  PROVE  ClientInv'
<1>1. ConnTypeOK /\ ClientInv /\ ReaderInv
      BY DEF IInv
<1> USE <1>1, Distinct DEF ConnTypeOK, ClientInv, LoaderGoes, LoaderAt
<1>2. ASSUME NEW kind \in Kinds, NEW url \in URLs, Load(kind, url)
      PROVE  ClientInv'
  <2>1. served # Nil => kind = config.kind
        BY <1>2 DEF Load, ReaderInv
  <2> QED
      BY <1>2, <2>1 DEF Load
<1>3. CASE Connect
      BY <1>3 DEF Connect
<1>4. CASE Forget
      BY <1>4 DEF Forget, OtherThan
<1>5. CASE Answered
      BY <1>5 DEF Answered, Succeed
<1>6. CASE AtGenesis
      BY <1>6 DEF AtGenesis
<1>7. CASE GenesisAnswered
      BY <1>7 DEF GenesisAnswered, Succeed
<1>8. CASE NotAnswered
      BY <1>8 DEF NotAnswered
<1>9. CASE RestoreCore
      BY <1>9 DEF RestoreCore, Restored
<1>10. CASE RestoreExplorer
      BY <1>10 DEF RestoreExplorer, Restored
<1>11. ASSUME NEW r \in Readers, ReadKind(r) \/ CallNode(r)
       PROVE  ClientInv'
       BY <1>11 DEF ReadKind, CallNode
<1>12. CASE UNCHANGED connVars
       BY <1>12 DEF connVars
<1> QED
    BY <1>2, <1>3, <1>4, <1>5, <1>6, <1>7, <1>8, <1>9, <1>10, <1>11, <1>12 DEF ConnNext

LEMMA ReaderStep ==
  ASSUME ~MaySwitch, IInv, [ConnNext]_connVars
  PROVE  ReaderInv'
<1>1. ConnTypeOK /\ ReaderInv
      BY DEF IInv
<1> USE <1>1, Distinct DEF ConnTypeOK, ReaderInv, LoaderGoes, LoaderAt
<1>2. ASSUME NEW kind \in Kinds, NEW url \in URLs, Load(kind, url)
      PROVE  ReaderInv'
      BY <1>2 DEF Load
<1>3. CASE Connect \/ Forget \/ AtGenesis \/ NotAnswered \/ RestoreCore \/ RestoreExplorer
      BY <1>3 DEF Connect, Forget, AtGenesis, NotAnswered, RestoreCore, RestoreExplorer
<1>4. CASE Answered \/ GenesisAnswered
      BY <1>4 DEF Answered, GenesisAnswered, Succeed, Understands
<1>5. ASSUME NEW r \in Readers, ReadKind(r)
      PROVE  ReaderInv'
      BY <1>5 DEF ReadKind
<1>6. ASSUME NEW r \in Readers, CallNode(r)
      PROVE  ReaderInv'
      BY <1>6 DEF CallNode, AfterCall
<1>7. CASE UNCHANGED connVars
      BY <1>7 DEF connVars
<1> QED
    BY <1>2, <1>3, <1>4, <1>5, <1>6, <1>7 DEF ConnNext

THEOREM ConnInvariant == ~MaySwitch => (ConnSpec => []IInv)
<1> SUFFICES ASSUME ~MaySwitch PROVE ConnSpec => []IInv
    OBVIOUS
<1>1. IInv /\ [ConnNext]_connVars => IInv'
      BY TypeStep, ClientStep, ReaderStep DEF IInv
<1> QED
    BY InitInv, <1>1, PTL DEF ConnSpec

(* With a fixed kind of server, whoever has read the kind finds a client,  *)
(* in the middle of a load or after one that failed.                       *)
THEOREM ClientFound == ~MaySwitch => (ConnSpec => []ReaderFindsClient)
<1>1. IInv => ReaderFindsClient
  <2> SUFFICES ASSUME IInv, NEW r \in Readers, reader[r] \in Kinds
               PROVE  client[reader[r]] # Nil
      BY DEF ReaderFindsClient
  <2>1. reader[r] = config.kind /\ served # Nil
        BY DEF IInv, ReaderInv
  <2>2. loader.pc \in Steps /\ config.url # Nil
        BY Distinct DEF IInv, ConnTypeOK
  <2>3. client[config.kind] # Nil
        BY <2>1, <2>2 DEF IInv, ClientInv, Steps
  <2> QED
      BY <2>1, <2>3
<1> QED
    BY ConnInvariant, <1>1, PTL

(* Between loads, calls go to the node of the last load that succeeded.    *)
THEOREM ServedStays == ConnSpec => []SettledOnServed
<1>1. CASE MaySwitch
      BY <1>1, PTL DEF SettledOnServed
<1>2. CASE ~MaySwitch
  <2>1. IInv => SettledOnServed
        BY DEF IInv, ClientInv, SettledOnServed, LoaderAt
  <2> QED
      BY <1>2, <2>1, ConnInvariant, PTL
<1> QED
    BY <1>1, <1>2
=============================================================================
