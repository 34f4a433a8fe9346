------------------------------ MODULE Signing ------------------------------
(***************************************************************************)
(* One raw transaction from its draft to the network: built, perhaps more  *)
(* than once, signed input by input outside, its id precomputed, verified, *)
(* and sent through the manager while the host may reload the manager. A   *)
(* draft is its number and the coins it spends; the hex is the draft and   *)
(* the signatures merged into it. The host makes one call on the raw       *)
(* transaction at a time.                                                  *)
(***************************************************************************)
EXTENDS Connections, FiniteSets

CONSTANTS
  Coins,       \* what drafts may spend
  Legacy,      \* those whose signature is part of the transaction id
  PrevOuts,    \* scripts with amounts
  PrevOutOf,   \* those of every coin
  MaxDrafts,   \* bound: calls to CreateRawTransaction
  Submitter    \* the goroutine that sends

ASSUME SigningAssumption ==
  /\ Legacy \subseteq Coins /\ PrevOutOf \in [Coins -> PrevOuts]
  /\ MaxDrafts \in Nat /\ Submitter \in Readers

(* A signature is missing or not 64 bytes, or does not verify, or is one   *)
(* of two good ones: signing again gives another.                          *)
None      == "none"
Bad       == "bad"
Good      == {"first", "second"}
Signature == {None, Bad} \cup Good
Unsigned  == [c \in Coins |-> None]

Drafts == 0..MaxDrafts   \* 0: no draft
Hexes  == [draft : Drafts, ins : SUBSET Coins, sigs : [Coins -> Signature]]
NoHex  == [draft |-> 0, ins |-> {}, sigs |-> Unsigned]

(* What ExtParam may hold of the coins of a draft, and what it holds when   *)
(* it is lost.                                                              *)
Cached    == UNION {[ins -> PrevOuts] : ins \in SUBSET Coins}
NotCached == [c \in {} |-> None]

(* What the node tells of coins, spent or not.                             *)
TruePrevOuts(ins) == [c \in ins |-> PrevOutOf[c]]

VARIABLES
  raw,           \* the RawTransaction
  drafts,        \* calls to CreateRawTransaction so far
  host,          \* the call that is going on
  precomputed,   \* the id that PrecomputeSubmitTxID last answered
  taken,         \* what the network has taken
  resigned       \* history: drafts signed anew after a signature was used

signVars == <<raw, drafts, host, precomputed, taken, resigned>>
vars == <<connVars, signVars>>

LegacyPart(hex) == [draft |-> hex.draft, sigs |-> [c \in Legacy |-> hex.sigs[c]]]

(* Witnesses are no part of the id.                                        *)
WitnessID(hex) == [draft |-> hex.draft, sigs |-> hex.sigs]
TxID(hex) == LegacyPart(hex)

NoID == TxID(NoHex)
IDs == [draft : Drafts, sigs : [Legacy -> Signature]]

TypeOK ==
  /\ ConnTypeOK
  /\ raw \in [hex : Hexes, signatures : [Coins -> Signature], prevouts : Cached,
              completed : BOOLEAN, txid : IDs, submitted : BOOLEAN]
  /\ drafts \in Drafts
  /\ host \in {"idle", "submit", "send"}
  /\ host = "send" <=> reader[Submitter] \in Kinds
  /\ precomputed \in IDs
  /\ taken \subseteq Hexes
  /\ resigned \subseteq Drafts
  /\ raw.hex.draft <= drafts

Init ==
  /\ ConnInit
  /\ raw = [hex |-> NoHex, signatures |-> Unsigned, prevouts |-> NotCached,
            completed |-> FALSE, txid |-> NoID, submitted |-> FALSE]
  /\ drafts = 0
  /\ host = "idle"
  /\ precomputed = NoID
  /\ taken = {}
  /\ resigned = {}

(* The host has the adapter, and leaves a raw transaction alone once it    *)
(* counts as submitted.                                                    *)
Ready == served # Nil /\ host = "idle" /\ ~raw.submitted
Changes(to) ==
  /\ raw' = to
  /\ UNCHANGED <<connVars, host, precomputed, taken>>

(* buildRawTransaction, for a payment or a replacement. It resets neither  *)
(* IsCompleted nor TxID.                                                   *)
CreateRawTransaction(ins) ==
  /\ Ready /\ drafts < MaxDrafts
  /\ drafts' = drafts + 1
  /\ Changes([raw EXCEPT !.hex = [draft |-> drafts', ins |-> ins, sigs |-> Unsigned],
                         !.signatures = Unsigned, !.prevouts = TruePrevOuts(ins)])
  /\ UNCHANGED resigned

(* It may fail for want of an address after it has stored the prevouts.    *)
CreateFails(ins) ==
  /\ Ready /\ drafts < MaxDrafts
  /\ drafts' = drafts + 1
  /\ Changes([raw EXCEPT !.prevouts = TruePrevOuts(ins)])
  /\ UNCHANGED resigned

(* An id was answered for the draft, or signatures were merged into it.    *)
Used == precomputed.draft = raw.hex.draft \/ raw.hex.sigs # Unsigned

Sign(c, s) ==
  /\ Ready /\ c \in raw.hex.ins
  /\ Changes([raw EXCEPT !.signatures[c] = s])
  /\ resigned' = IF c \in Legacy /\ s # raw.signatures[c] /\ Used
                  THEN resigned \cup {raw.hex.draft}
                  ELSE resigned
  /\ UNCHANGED drafts

(* What the host keeps of a raw transaction may lack its ExtParam. *)
LoseExtParam ==
  /\ Ready /\ raw.prevouts # NotCached
  /\ Changes([raw EXCEPT !.prevouts = NotCached])
  /\ UNCHANGED <<drafts, resigned>>

(***************************************************************************)
(* Building the signed transaction: the prevouts from ExtParam, if they    *)
(* name the coins of the hex, or from the node; the sighashes from the hex *)
(* and the prevouts, and for each the signature of 64 bytes that the       *)
(* signers gave for it: they signed for the true prevouts.                 *)
(***************************************************************************)
CacheUnchecked == Cardinality(DOMAIN raw.prevouts) = Cardinality(raw.hex.ins)
FromCache == DOMAIN raw.prevouts = raw.hex.ins

UsedPrevOuts == IF FromCache THEN raw.prevouts ELSE TruePrevOuts(raw.hex.ins)

SighashesMatch == UsedPrevOuts = TruePrevOuts(raw.hex.ins)

AllSigned == \A c \in raw.hex.ins : raw.signatures[c] # None

Builds == raw.hex.draft # 0 /\ SighashesMatch /\ AllSigned

UnsignedHex == raw.hex
SignedHex == [raw.hex EXCEPT !.sigs = raw.signatures]

FirstVerifies(hex) == \E c \in hex.ins : hex.sigs[c] \in Good
VerifySigned(hex) == \A c \in hex.ins : hex.sigs[c] \in Good

PrecomputedHex == SignedHex

(* The host asks for the id once for each draft. *)
PrecomputeSubmitTxID ==
  /\ Ready /\ Builds /\ precomputed.draft # raw.hex.draft
  /\ precomputed' = TxID(PrecomputedHex)
  /\ UNCHANGED <<connVars, raw, drafts, host, taken, resigned>>

VerifyRawTransaction ==
  /\ Ready /\ Builds
  /\ IF VerifySigned(SignedHex)
     THEN Changes([raw EXCEPT !.completed = TRUE, !.hex = SignedHex, !.txid = TxID(SignedHex)])
     ELSE Changes([raw EXCEPT !.completed = FALSE])
  /\ UNCHANGED <<drafts, resigned>>

(***************************************************************************)
(* SubmitRawTransaction: the id is stored, then SendRawTransaction reads   *)
(* the kind of server and calls the client of that kind. The node may take *)
(* what is well signed, once for each draft; its answer may be lost.       *)
(***************************************************************************)
SubmitRawTransaction ==
  /\ Ready /\ raw.hex.draft # 0 /\ raw.completed
  /\ raw' = [raw EXCEPT !.txid = TxID(raw.hex)]
  /\ host' = "submit"
  /\ UNCHANGED <<connVars, drafts, precomputed, taken, resigned>>

ReadKindToSend ==
  /\ host = "submit" /\ ReadKind(Submitter)
  /\ host' = "send"
  /\ UNCHANGED <<raw, drafts, precomputed, taken, resigned>>

WellSigned(hex) == \A c \in hex.ins : hex.sigs[c] \in Good
NodeTakes(hex) ==
  WellSigned(hex) /\ \A other \in taken : other.draft = hex.draft => other = hex

(* The node has taken the transaction, now or before, or not. No answer    *)
(* and an answer with another id are errors; an answer without an id is    *)
(* none, although nothing shows that the transaction was taken.            *)
SendRawTransaction ==
  /\ host = "send" /\ client[reader[Submitter]] \notin {Nil, NoURL}
  /\ \E answer \in {"error", "named", "unnamed"}, took \in BOOLEAN :
       /\ took => NodeTakes(raw.hex)
       /\ answer = "named" => took
       /\ raw' = [raw EXCEPT !.submitted = (answer # "error")]
       /\ taken' = IF took THEN taken \cup {raw.hex} ELSE taken
  /\ CallNode(Submitter)
  /\ host' = "idle"
  /\ UNCHANGED <<drafts, precomputed, resigned>>

(* The call fails before it reaches a node. *)
NotSent ==
  /\ host = "send" /\ CallNode(Submitter)
  /\ host' = "idle"
  /\ UNCHANGED <<raw, drafts, precomputed, taken, resigned>>

LoadNext ==
  /\ \/ \E kind \in Kinds, url \in URLs : Load(kind, url)
     \/ Connect \/ Forget
     \/ Answered \/ AtGenesis \/ GenesisAnswered \/ NotAnswered
     \/ RestoreCore \/ RestoreExplorer
  /\ UNCHANGED signVars

Next ==
  \/ LoadNext
  \/ \E ins \in (SUBSET Coins) \ {{}} : CreateRawTransaction(ins) \/ CreateFails(ins)
  \/ LoseExtParam
  \/ \E c \in Coins, s \in Signature \ {None} : Sign(c, s)
  \/ PrecomputeSubmitTxID \/ VerifyRawTransaction
  \/ SubmitRawTransaction \/ ReadKindToSend \/ SendRawTransaction \/ NotSent

Spec == Init /\ [][Next]_vars

(***************************************************************************)
(* Properties.                                                             *)
(***************************************************************************)

(* What is sent to a node is well signed, or not signed at all: IsCompleted *)
(* survives a rebuild, so a new draft can be submitted before it is        *)
(* verified, and is refused; a badly signed one never gets that far.       *)
SentIsVerified == host # "idle" => WellSigned(raw.hex) \/ raw.hex.sigs = Unsigned

(* A transaction with good signatures can be built and verified, also when *)
(* a rebuild failed half way and left the prevouts of other coins, or they *)
(* were lost.                                                              *)
SignedCanBeVerified ==
  raw.hex.draft # 0 /\ (\A c \in raw.hex.ins : raw.signatures[c] \in Good) => Builds

(* Whatever the network has taken of the current draft goes by TxID, the   *)
(* answer lost or not, unless a legacy input was signed again.             *)
TakenIsNamed == \A hex \in taken : LegacyPart(hex) = LegacyPart(raw.hex) => raw.txid = TxID(hex)

(* What the network takes of a draft goes by the id that was precomputed   *)
(* for it, whatever was signed, verified, rebuilt or sent again between,   *)
(* unless a legacy input was signed anew after its signature was used.     *)
PrecomputedIsTaken ==
  \A hex \in taken : hex.draft = precomputed.draft /\ hex.draft \notin resigned
                      => precomputed = TxID(hex)
=============================================================================
