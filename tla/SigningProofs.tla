--------------------------- MODULE SigningProofs ---------------------------
(***************************************************************************)
(* For all sets of coins, any number of drafts and of loads of the         *)
(* manager: what is sent is well signed or refused, what the network takes *)
(* goes by the id that the raw transaction holds, and what is well signed  *)
(* can be verified, whatever draft ExtParam is of. Sending behaves as      *)
(* one of the readers of the manager, so what ConnectionsProofs shows of   *)
(* these holds for it.                                                     *)
(***************************************************************************)
EXTENDS Signing, ConnectionsProofs

-----------------------------------------------------------------------------
(* The strengthening.                                                      *)

(* The hex is as built, or as verified; it is no longer changed once its   *)
(* id is stored for sending.                                               *)
HexInv ==
  /\ raw.hex.sigs = Unsigned \/ WellSigned(raw.hex)
  /\ host # "idle" => raw.txid = TxID(raw.hex) /\ ~raw.submitted

(* Drafts are new, and what was taken has been sent under its id.          *)
TakenInv ==
  /\ \A hex \in taken : hex.draft <= drafts
  /\ TakenIsNamed

(* ExtParam may hold the coins of another draft, but of them the truth: to *)
(* compare which coins they are is enough.                                 *)
CacheInv == raw.prevouts = TruePrevOuts(DOMAIN raw.prevouts)

SignInv == TypeOK /\ HexInv /\ TakenInv /\ CacheInv

(* The id that the signatures given now would make.                        *)
CurrentID == LegacyPart(SignedHex)

(* Until a draft is signed anew, its legacy signatures are, once used, the *)
(* same in the id precomputed, in the hex verified and in what was taken.  *)
SameSignatures ==
  /\ precomputed.draft = raw.hex.draft => raw.hex.draft = 0 \/ precomputed = CurrentID
  /\ raw.hex.sigs # Unsigned => LegacyPart(raw.hex) = CurrentID
  /\ \A hex \in taken : hex.draft = raw.hex.draft => LegacyPart(hex) = CurrentID

(* What is sent is a draft that spends something, so what is taken of it   *)
(* has signatures.                                                         *)
DraftInv ==
  /\ precomputed.draft <= drafts
  /\ raw.hex.draft = 0 \/ raw.hex.ins # {}
  /\ host # "idle" => raw.hex.draft # 0
  /\ \A hex \in taken : hex.draft = raw.hex.draft => raw.hex.sigs # Unsigned

PrecomputedInv ==
  /\ DraftInv
  /\ raw.hex.draft \notin resigned => SameSignatures
  /\ PrecomputedIsTaken

-----------------------------------------------------------------------------
LEMMA SignatureFacts ==
  /\ None \in Signature /\ Good \subseteq Signature /\ None \notin Good
  /\ Unsigned \in [Coins -> Signature]
  /\ Legacy \subseteq Coins /\ MaxDrafts \in Nat /\ Submitter \in Readers
BY SigningAssumption DEF Signature, Unsigned, None, Bad, Good

(* What ExtParam holds is always of this form.                             *)
LEMMA CacheFacts ==
  /\ \A ins \in SUBSET Coins :
       /\ TruePrevOuts(ins) \in Cached
       /\ TruePrevOuts(ins) = TruePrevOuts(DOMAIN TruePrevOuts(ins))
  /\ NotCached \in Cached /\ NotCached = TruePrevOuts(DOMAIN NotCached)
<1>1. ASSUME NEW ins \in SUBSET Coins
      PROVE  TruePrevOuts(ins) \in Cached /\ DOMAIN TruePrevOuts(ins) = ins
  <2>1. TruePrevOuts(ins) \in [ins -> PrevOuts]
        BY SigningAssumption DEF TruePrevOuts
  <2> QED
      BY <2>1 DEF Cached
<1>2. NotCached = TruePrevOuts({})
      BY DEF NotCached, TruePrevOuts
<1> QED
    BY <1>1, <1>2

LEMMA IDFacts ==
  ASSUME NEW hex \in Hexes
  PROVE  /\ LegacyPart(hex) \in IDs /\ TxID(hex) = LegacyPart(hex)
         /\ LegacyPart(hex).draft = hex.draft /\ hex.draft \in Drafts
BY SignatureFacts DEF Hexes, IDs, LegacyPart, TxID

LEMMA NoHexFacts == NoHex \in Hexes /\ NoID \in IDs /\ 0 \in Drafts
<1>1. 0 \in Drafts
      BY SignatureFacts DEF Drafts
<1>2. NoHex \in Hexes
      BY <1>1, SignatureFacts DEF NoHex, Hexes
<1> QED
    BY <1>1, <1>2, IDFacts DEF NoID

LEMMA SignInit == Init => SignInv
<1> SUFFICES ASSUME Init PROVE SignInv
    OBVIOUS
<1>1. ConnTypeOK
      BY InitInv DEF Init, IInv
<1>2. /\ raw = [hex |-> NoHex, signatures |-> Unsigned, prevouts |-> NotCached,
                completed |-> FALSE, txid |-> NoID, submitted |-> FALSE]
      /\ drafts = 0 /\ host = "idle" /\ precomputed = NoID
      /\ taken = {} /\ resigned = {}
      BY DEF Init
<1>3. reader[Submitter] \notin Kinds
      BY SignatureFacts, Distinct DEF Init, ConnInit
<1>4. TypeOK
      BY <1>1, <1>2, <1>3, NoHexFacts, CacheFacts, SignatureFacts DEF TypeOK, NoHex
<1>5. HexInv
      BY <1>2 DEF HexInv, NoHex
<1>6. TakenInv
      BY <1>2 DEF TakenInv, TakenIsNamed
<1>7. CacheInv
      BY <1>2, CacheFacts DEF CacheInv
<1> QED
    BY <1>4, <1>5, <1>6, <1>7 DEF SignInv

(* The sender is one of the readers of the manager.                        *)
LEMMA SenderIsReader == [Next]_vars => [ConnNext]_connVars
<1> SUFFICES ASSUME [Next]_vars PROVE [ConnNext]_connVars
    OBVIOUS
<1>1. CASE LoadNext
      BY <1>1 DEF LoadNext, ConnNext
<1>2. CASE ReadKindToSend \/ SendRawTransaction \/ NotSent
      BY <1>2, SignatureFacts DEF ReadKindToSend, SendRawTransaction, NotSent, ConnNext
<1>3. CASE UNCHANGED connVars
      BY <1>3
<1> QED
    BY <1>1, <1>2, <1>3
    DEF Next, vars, CreateRawTransaction, CreateFails, LoseExtParam, Sign, Changes,
        PrecomputeSubmitTxID, VerifyRawTransaction, SubmitRawTransaction

(* The steps that change the raw transaction only.                         *)
LEMMA ChangesInv ==
  ASSUME SignInv, NEW to, NEW n \in Drafts, Ready, Changes(to), drafts' = n, n >= drafts,
         resigned' \subseteq Drafts,
         to \in [hex : Hexes, signatures : [Coins -> Signature], prevouts : Cached,
                 completed : BOOLEAN, txid : IDs, submitted : BOOLEAN],
         to.prevouts = TruePrevOuts(DOMAIN to.prevouts), to.hex.draft <= n, to.submitted = raw.submitted,
         to.hex.sigs = Unsigned \/ WellSigned(to.hex),
         \/ LegacyPart(to.hex) = LegacyPart(raw.hex) /\ to.txid = raw.txid
         \/ to.txid = TxID(to.hex)
         \/ to.hex.draft > drafts
  PROVE  SignInv'
<1>1. raw' = to /\ host' = host /\ precomputed' = precomputed /\ taken' = taken
      BY DEF Changes
<1>2. reader' = reader /\ UNCHANGED connVars
      BY DEF Changes, connVars
<1>3. ConnTypeOK'
      BY <1>2, TypeStep DEF SignInv, TypeOK
<1>4. TypeOK'
      BY <1>1, <1>2, <1>3 DEF SignInv, TypeOK
<1>5. host = "idle" /\ ~raw.submitted /\ ~to.submitted
      BY DEF Ready
<1>6. HexInv'
      BY <1>1, <1>5 DEF HexInv, WellSigned
<1>7. \A hex \in taken : hex.draft <= n
  <2> SUFFICES ASSUME NEW hex \in taken PROVE hex.draft <= n
      OBVIOUS
  <2>1. hex.draft \in Nat /\ hex.draft <= drafts /\ drafts \in Nat /\ n \in Nat
        BY IDFacts DEF SignInv, TakenInv, TypeOK, Drafts
  <2> QED
      BY <2>1
<1>8. ASSUME NEW hex \in taken, LegacyPart(hex) = LegacyPart(to.hex)
      PROVE  to.txid = TxID(hex)
  <2>1. hex \in Hexes /\ to.hex \in Hexes /\ hex.draft <= drafts
        BY DEF SignInv, TypeOK, TakenInv
  <2>2. hex.draft = to.hex.draft
        BY <1>8, <2>1, IDFacts
  <2>3. ~(to.hex.draft > drafts)
        BY <2>1, <2>2, IDFacts DEF SignInv, TypeOK, Drafts
  <2>4. CASE to.txid = TxID(to.hex)
        BY <1>8, <2>1, <2>4, IDFacts
  <2>5. CASE LegacyPart(to.hex) = LegacyPart(raw.hex) /\ to.txid = raw.txid
        BY <1>8, <2>5 DEF SignInv, TakenInv, TakenIsNamed
  <2> QED
      BY <2>3, <2>4, <2>5
<1>9. TakenInv'
      BY <1>1, <1>5, <1>7, <1>8 DEF TakenInv, TakenIsNamed
<1>10. CacheInv'
       BY <1>1 DEF SignInv, CacheInv
<1> QED
    BY <1>4, <1>6, <1>9, <1>10 DEF SignInv

(* SignedHex and what it is of.                                            *)
LEMMA SignedFacts ==
  ASSUME TypeOK
  PROVE  SignedHex \in Hexes /\ SignedHex.draft = raw.hex.draft
BY DEF TypeOK, SignedHex, Hexes

LEMMA SignStep == SignInv /\ [Next]_vars => SignInv'
<1> SUFFICES ASSUME SignInv, [Next]_vars PROVE SignInv'
    OBVIOUS
<1>1. TypeOK /\ HexInv /\ TakenInv /\ CacheInv
      BY DEF SignInv
<1>2. ConnTypeOK'
      BY <1>1, SenderIsReader, TypeStep DEF TypeOK
<1> DEFINE Raws == [hex : Hexes, signatures : [Coins -> Signature], prevouts : Cached,
                    completed : BOOLEAN, txid : IDs, submitted : BOOLEAN]
<1>3. /\ raw \in Raws /\ drafts \in Drafts /\ Drafts \subseteq Nat
      /\ raw.prevouts = TruePrevOuts(DOMAIN raw.prevouts) /\ raw.hex.draft <= drafts
      BY <1>1 DEF TypeOK, CacheInv, Drafts
<1>4. CASE UNCHANGED signVars /\ reader'[Submitter] = reader[Submitter]
  <2>1. TypeOK'
        BY <1>1, <1>2, <1>4 DEF TypeOK, signVars
  <2> QED
      BY <1>1, <1>4, <2>1
      DEF SignInv, HexInv, TakenInv, TakenIsNamed, CacheInv,
          WellSigned, signVars
<1>5. CASE LoadNext
  <2>1. reader' = reader
        BY <1>5 DEF LoadNext, Load, Connect, Forget, Answered, AtGenesis, GenesisAnswered,
                    Succeed, NotAnswered, RestoreCore, RestoreExplorer
  <2> QED
      BY <1>4, <1>5, <2>1 DEF LoadNext
<1>6. ASSUME NEW ins \in (SUBSET Coins) \ {{}}, CreateRawTransaction(ins)
      PROVE  SignInv'
  <2> DEFINE hex == [draft |-> drafts', ins |-> ins, sigs |-> Unsigned]
             to == [raw EXCEPT !.hex = hex, !.signatures = Unsigned,
                             !.prevouts = TruePrevOuts(ins)]
  <2>1. drafts' = drafts + 1 /\ drafts' \in Drafts /\ drafts' > drafts
        BY <1>3, <1>6, SignatureFacts DEF CreateRawTransaction, Drafts
  <2>2. hex \in Hexes
        BY <2>1, SignatureFacts DEF Hexes
  <2>3. /\ to \in Raws /\ to.hex = hex /\ to.prevouts = TruePrevOuts(ins)
        /\ to.submitted = raw.submitted
        BY <1>3, <2>1, <2>2, SignatureFacts, CacheFacts
  <2>4. Ready /\ Changes(to) /\ resigned' \subseteq Drafts
        BY <1>1, <1>6 DEF CreateRawTransaction, TypeOK
  <2>5. /\ drafts' >= drafts /\ to.hex.draft <= drafts'
        /\ to.prevouts = TruePrevOuts(DOMAIN to.prevouts) /\ to.hex.draft > drafts /\ to.hex.sigs = Unsigned
    <3>1. drafts \in Nat /\ drafts' \in Nat
          BY <1>3, <2>1
    <3>2. hex.draft = drafts' /\ hex.sigs = Unsigned
          OBVIOUS
    <3> QED
        BY <2>1, <2>3, <3>1, <3>2, CacheFacts
  <2> HIDE DEF to
  <2> QED
      BY <2>1, <2>3, <2>4, <2>5, ChangesInv
<1>7. ASSUME NEW ins \in (SUBSET Coins) \ {{}}, CreateFails(ins)
      PROVE  SignInv'
  <2> DEFINE to == [raw EXCEPT !.prevouts = TruePrevOuts(ins)]
  <2>1. drafts' = drafts + 1 /\ drafts' \in Drafts /\ drafts' > drafts
        BY <1>3, <1>7, SignatureFacts DEF CreateFails, Drafts
  <2>2. /\ to \in Raws /\ to.hex = raw.hex /\ to.prevouts = TruePrevOuts(ins)
        /\ to.txid = raw.txid /\ to.submitted = raw.submitted
        BY <1>3, <2>1, CacheFacts
  <2>3. /\ Ready /\ Changes(to) /\ raw.hex.draft \in Nat /\ drafts \in Nat
        /\ resigned' \subseteq Drafts
        BY <1>1, <1>3, <1>7, IDFacts DEF CreateFails, TypeOK
  <2> QED
      BY <1>1, <1>3, <2>1, <2>2, <2>3, CacheFacts, ChangesInv DEF HexInv
<1>8. ASSUME NEW c \in Coins, NEW s \in Signature \ {None}, Sign(c, s)
      PROVE  SignInv'
  <2> DEFINE to == [raw EXCEPT !.signatures[c] = s]
  <2>1. /\ to \in Raws /\ to.hex = raw.hex /\ to.prevouts = raw.prevouts
        /\ to.txid = raw.txid /\ to.submitted = raw.submitted
        BY <1>3
  <2>2. Ready /\ Changes(to) /\ drafts' = drafts
        BY <1>8 DEF Sign
  <2>3. resigned' \subseteq Drafts
    <3>1. raw.hex.draft \in Drafts /\ resigned \subseteq Drafts
          BY <1>1, <1>3, IDFacts DEF TypeOK
    <3> QED
        BY <1>8, <3>1 DEF Sign
  <2> QED
      BY <1>1, <1>3, <2>1, <2>2, <2>3, ChangesInv DEF HexInv
<1>9. CASE LoseExtParam
  <2> DEFINE to == [raw EXCEPT !.prevouts = NotCached]
  <2>1. /\ to \in Raws /\ to.hex = raw.hex /\ to.prevouts = NotCached /\ to.txid = raw.txid
        /\ to.submitted = raw.submitted
        BY <1>3, CacheFacts
  <2>2. Ready /\ Changes(to) /\ drafts' = drafts /\ resigned' \subseteq Drafts
        BY <1>1, <1>9 DEF LoseExtParam, TypeOK
  <2> QED
      BY <1>1, <1>3, <2>1, <2>2, CacheFacts, ChangesInv DEF HexInv
<1>10. CASE PrecomputeSubmitTxID
  <2>1. /\ precomputed' = LegacyPart(SignedHex)
        /\ UNCHANGED <<connVars, raw, drafts, host, taken, resigned>>
        BY <1>10 DEF PrecomputeSubmitTxID, PrecomputedHex, TxID
  <2>2. LegacyPart(SignedHex) \in IDs
        BY <1>1, SignedFacts, IDFacts
  <2>3. TypeOK'
        BY <1>1, <1>2, <2>1, <2>2 DEF TypeOK, connVars
  <2> QED
      BY <1>1, <2>1, <2>3
      DEF SignInv, HexInv, TakenInv, TakenIsNamed, CacheInv,
          WellSigned
<1>11. CASE VerifyRawTransaction /\ VerifySigned(SignedHex)
  <2> DEFINE to == [raw EXCEPT !.completed = TRUE, !.hex = SignedHex, !.txid = TxID(SignedHex)]
  <2>1. SignedHex \in Hexes /\ SignedHex.draft = raw.hex.draft /\ TxID(SignedHex) \in IDs
        BY <1>1, SignedFacts, IDFacts
  <2>2. /\ to \in Raws /\ to.hex = SignedHex /\ to.txid = TxID(SignedHex)
        /\ to.prevouts = raw.prevouts /\ to.submitted = raw.submitted
        BY <1>3, <2>1
  <2>3. WellSigned(SignedHex)
        BY <1>11 DEF WellSigned, VerifySigned
  <2>4. Ready /\ Changes(to) /\ drafts' = drafts /\ resigned' \subseteq Drafts
        BY <1>1, <1>11 DEF VerifyRawTransaction, TypeOK
  <2>5. /\ drafts' >= drafts /\ to.hex.draft <= drafts
        /\ to.prevouts = TruePrevOuts(DOMAIN to.prevouts)
        BY <1>3, <2>1, <2>2, <2>4
  <2> HIDE DEF to
  <2> QED
      BY <1>3, <2>2, <2>3, <2>4, <2>5, ChangesInv
<1>12. CASE VerifyRawTransaction /\ ~VerifySigned(SignedHex)
  <2> DEFINE to == [raw EXCEPT !.completed = FALSE]
  <2>1. /\ to \in Raws /\ to.hex = raw.hex /\ to.prevouts = raw.prevouts
        /\ to.txid = raw.txid /\ to.submitted = raw.submitted
        BY <1>3
  <2>2. Ready /\ Changes(to) /\ drafts' = drafts /\ resigned' \subseteq Drafts
        BY <1>1, <1>12 DEF VerifyRawTransaction, TypeOK
  <2> QED
      BY <1>1, <1>3, <2>1, <2>2, ChangesInv DEF HexInv
<1>13. CASE SubmitRawTransaction
  <2>1. /\ raw' = [raw EXCEPT !.txid = TxID(raw.hex)] /\ host = "idle" /\ host' = "submit"
        /\ UNCHANGED <<connVars, drafts, precomputed, taken, resigned>> /\ ~raw.submitted
        BY <1>13 DEF SubmitRawTransaction, Ready
  <2>2. TxID(raw.hex) \in IDs /\ TxID(raw.hex) = LegacyPart(raw.hex)
        BY <1>3, IDFacts
  <2>3. /\ raw' \in Raws /\ raw'.txid = TxID(raw.hex) /\ raw'.hex = raw.hex
        /\ raw'.prevouts = raw.prevouts /\ ~raw'.submitted
        BY <1>3, <2>1, <2>2
  <2>4. TypeOK'
        BY <1>1, <1>2, <1>3, <2>1, <2>3 DEF TypeOK, connVars
  <2>5. HexInv'
        BY <1>1, <2>1, <2>3 DEF HexInv, WellSigned, TxID, LegacyPart
  <2>6. ASSUME NEW hex \in taken, LegacyPart(hex) = LegacyPart(raw.hex)
        PROVE  TxID(raw.hex) = TxID(hex)
        BY <1>1, <2>2, <2>6, IDFacts DEF TypeOK
  <2>7. TakenInv'
        BY <1>1, <2>1, <2>3, <2>6 DEF TakenInv, TakenIsNamed
  <2> QED
      BY <1>1, <2>1, <2>3, <2>4, <2>5, <2>7 DEF SignInv, CacheInv
<1>14. CASE ReadKindToSend
  <2>1. /\ reader' = [reader EXCEPT ![Submitter] = config.kind] /\ host' = "send"
        /\ host = "submit" /\ UNCHANGED <<raw, drafts, precomputed, taken, resigned>>
        BY <1>14 DEF ReadKindToSend, ReadKind
  <2>2. reader'[Submitter] \in Kinds
        BY <1>1, <2>1, SignatureFacts DEF TypeOK, ConnTypeOK
  <2>3. TypeOK'
        BY <1>1, <1>2, <2>1, <2>2 DEF TypeOK
  <2> QED
      BY <1>1, <2>1, <2>3
      DEF SignInv, HexInv, TakenInv, TakenIsNamed, CacheInv,
          WellSigned
<1>15. ASSUME CallNode(Submitter)
       PROVE  reader'[Submitter] \notin Kinds
  <2>1. PICK after \in {NotCalling, Panicked} : reader' = [reader EXCEPT ![Submitter] = after]
        BY <1>15 DEF CallNode, AfterCall
  <2> QED
      BY <1>1, <2>1, SignatureFacts, Distinct DEF TypeOK, ConnTypeOK
<1>16. CASE SendRawTransaction
  <2>1. PICK answer \in {"error", "named", "unnamed"}, took \in BOOLEAN :
          /\ took => NodeTakes(raw.hex)
          /\ raw' = [raw EXCEPT !.submitted = (answer # "error")]
          /\ taken' = IF took THEN taken \cup {raw.hex} ELSE taken
        BY <1>16 DEF SendRawTransaction
  <2>2. /\ CallNode(Submitter) /\ host = "send" /\ host' = "idle"
        /\ UNCHANGED <<drafts, precomputed, resigned>>
        BY <1>16 DEF SendRawTransaction
  <2>3. /\ raw' \in Raws /\ raw'.hex = raw.hex /\ raw'.txid = raw.txid
        /\ raw'.prevouts = raw.prevouts
        BY <1>3, <2>1
  <2>4. taken' \subseteq taken \cup {raw.hex}
        BY <2>1
  <2>5. TypeOK'
        BY <1>1, <1>2, <1>3, <1>15, <2>2, <2>3, <2>4 DEF TypeOK
  <2>6. raw.txid = TxID(raw.hex)
        BY <1>1, <2>2 DEF HexInv
  <2>7. \A hex \in taken' : hex.draft <= drafts
        BY <1>1, <1>3, <2>4 DEF TakenInv
  <2>8. TakenIsNamed'
        BY <1>1, <2>3, <2>4, <2>6 DEF TakenInv, TakenIsNamed, TxID, LegacyPart
  <2>9. HexInv'
        BY <1>1, <2>2, <2>3 DEF HexInv, WellSigned
  <2> QED
      BY <1>1, <2>2, <2>3, <2>5, <2>7, <2>8, <2>9
      DEF SignInv, TakenInv, CacheInv
<1>17. CASE NotSent
  <2>1. CallNode(Submitter) /\ host' = "idle" /\ UNCHANGED <<raw, drafts, precomputed, taken, resigned>>
        BY <1>17 DEF NotSent
  <2>2. TypeOK'
        BY <1>1, <1>2, <1>15, <2>1 DEF TypeOK
  <2> QED
      BY <1>1, <2>1, <2>2
      DEF SignInv, HexInv, TakenInv, TakenIsNamed, CacheInv,
          WellSigned
<1>18. CASE UNCHANGED vars
       BY <1>4, <1>18 DEF vars, connVars
<1> QED
    BY <1>5, <1>6, <1>7, <1>8, <1>9, <1>10, <1>11, <1>12, <1>13, <1>14, <1>16, <1>17, <1>18
    DEF Next

-----------------------------------------------------------------------------
(* The precomputed id.                                                     *)

LEMMA PrecomputedInit == Init => PrecomputedInv
<1> SUFFICES ASSUME Init PROVE PrecomputedInv
    OBVIOUS
<1>1. /\ raw.hex = NoHex /\ raw.signatures = Unsigned /\ drafts = 0 /\ host = "idle"
      /\ precomputed = NoID /\ taken = {}
      BY DEF Init
<1>2. NoHex.draft = 0 /\ NoHex.sigs = Unsigned /\ NoID.draft = 0
      BY DEF NoHex, NoID, TxID, LegacyPart
<1> QED
    BY <1>1, <1>2 DEF PrecomputedInv, DraftInv, SameSignatures, PrecomputedIsTaken

LEMMA CurrentIDIs ==
  ASSUME TypeOK
  PROVE  /\ CurrentID = [draft |-> raw.hex.draft, sigs |-> [c \in Legacy |-> raw.signatures[c]]]
         /\ CurrentID.draft = raw.hex.draft
BY DEF TypeOK, Hexes, CurrentID, SignedHex, LegacyPart

(* A step that leaves the hex and its signatures alone.                    *)
LEMMA PrecomputedKept ==
  ASSUME SignInv, PrecomputedInv, SignInv', raw'.hex = raw.hex,
         raw'.signatures = raw.signatures, UNCHANGED <<precomputed, taken, resigned>>,
         drafts' >= drafts, host' # "idle" => raw.hex.draft # 0
  PROVE  PrecomputedInv'
<1>1. CurrentID' = CurrentID
      BY CurrentIDIs DEF SignInv, CurrentID, SignedHex, LegacyPart, TypeOK
<1>2. SameSignatures => SameSignatures'
      BY <1>1 DEF SameSignatures, LegacyPart
<1>3. precomputed.draft \in Nat /\ drafts \in Nat /\ drafts' \in Nat
      BY SignatureFacts DEF SignInv, TypeOK, IDs, Drafts
<1>4. DraftInv'
      BY <1>3 DEF PrecomputedInv, DraftInv
<1>5. PrecomputedIsTaken'
      BY DEF PrecomputedInv, PrecomputedIsTaken, TxID, LegacyPart
<1> QED
    BY <1>2, <1>4, <1>5 DEF PrecomputedInv

LEMMA PrecomputedStep == SignInv /\ PrecomputedInv /\ [Next]_vars /\ SignInv' => PrecomputedInv'
<1> SUFFICES ASSUME SignInv, PrecomputedInv, [Next]_vars, SignInv' PROVE PrecomputedInv'
    OBVIOUS
<1>1. TypeOK /\ HexInv /\ TakenInv /\ DraftInv /\ PrecomputedIsTaken /\ TypeOK'
      BY DEF SignInv, PrecomputedInv
<1>2. /\ raw.hex.draft \in Nat /\ precomputed.draft \in Nat /\ drafts \in Nat /\ MaxDrafts \in Nat
      /\ \A hex \in taken : hex.draft \in Nat
      BY <1>1, SignatureFacts DEF TypeOK, Hexes, IDs, Drafts
<1>3. CASE LoadNext \/ ReadKindToSend \/ NotSent \/ SubmitRawTransaction \/ LoseExtParam
           \/ (VerifyRawTransaction /\ ~VerifySigned(SignedHex)) \/ UNCHANGED vars
  <2>1. /\ raw'.hex = raw.hex /\ raw'.signatures = raw.signatures
        /\ UNCHANGED <<precomputed, taken, resigned, drafts>>
        BY <1>1, <1>3
        DEF TypeOK, LoadNext, ReadKindToSend, NotSent, SubmitRawTransaction, LoseExtParam,
            VerifyRawTransaction, Changes, vars, signVars
  <2>2. host' # "idle" => raw.hex.draft # 0
        BY <1>1, <1>3
        DEF DraftInv, LoadNext, ReadKindToSend, NotSent, SubmitRawTransaction, LoseExtParam,
            VerifyRawTransaction, Changes, vars, signVars
  <2> QED
      BY <1>2, <2>1, <2>2, PrecomputedKept
<1>4. ASSUME NEW ins \in (SUBSET Coins) \ {{}}, CreateRawTransaction(ins)
      PROVE  PrecomputedInv'
  <2>1. /\ raw'.hex = [draft |-> drafts + 1, ins |-> ins, sigs |-> Unsigned]
        /\ drafts' = drafts + 1 /\ UNCHANGED <<host, precomputed, taken, resigned>>
        /\ host = "idle"
        BY <1>1, <1>4 DEF CreateRawTransaction, Changes, Ready, TypeOK
  <2>2. precomputed.draft <= drafts /\ \A hex \in taken : hex.draft <= drafts
        BY <1>1 DEF DraftInv, TakenInv
  <2>3. /\ precomputed'.draft # raw'.hex.draft /\ raw'.hex.sigs = Unsigned
        /\ \A hex \in taken' : hex.draft # raw'.hex.draft
        BY <1>2, <2>1, <2>2
  <2>4. DraftInv'
    <3>1. precomputed'.draft <= drafts'
          BY <1>2, <2>1, <2>2
    <3>2. raw'.hex.ins = ins /\ ins # {} /\ host' = "idle"
          BY <1>4, <2>1
    <3> QED
        BY <2>3, <3>1, <3>2 DEF DraftInv
  <2>5. SameSignatures'
        BY <2>3 DEF SameSignatures
  <2>6. PrecomputedIsTaken'
        BY <1>1, <2>1 DEF PrecomputedIsTaken, TxID, LegacyPart
  <2> QED
      BY <2>4, <2>5, <2>6 DEF PrecomputedInv
<1>5. ASSUME NEW ins \in (SUBSET Coins) \ {{}}, CreateFails(ins)
      PROVE  PrecomputedInv'
  <2>1. /\ raw'.hex = raw.hex /\ raw'.signatures = raw.signatures /\ drafts' = drafts + 1
        /\ UNCHANGED <<host, precomputed, taken, resigned>> /\ host = "idle"
        BY <1>1, <1>5 DEF CreateFails, Changes, Ready, TypeOK
  <2> QED
      BY <1>2, <2>1, PrecomputedKept
<1>6. ASSUME NEW c \in Coins, NEW s \in Signature \ {None}, Sign(c, s)
      PROVE  PrecomputedInv'
  <2>1. /\ raw'.hex = raw.hex /\ raw'.signatures = [raw.signatures EXCEPT ![c] = s]
        /\ UNCHANGED <<host, precomputed, taken, drafts>> /\ resigned \subseteq resigned'
        BY <1>1, <1>6 DEF Sign, Changes, TypeOK
  <2>2. DraftInv'
        BY <1>1, <2>1 DEF DraftInv
  <2>3. PrecomputedIsTaken'
        BY <1>1, <2>1 DEF PrecomputedIsTaken, TxID, LegacyPart
  <2>4. ASSUME raw.hex.draft \notin resigned'
        PROVE  SameSignatures'
    <3>1. SameSignatures
          BY <2>1, <2>4 DEF PrecomputedInv
    <3>2. CASE Used
      <4>1. c \notin Legacy \/ s = raw.signatures[c]
            BY <1>6, <2>4, <3>2 DEF Sign
      <4>2. CurrentID' = CurrentID
        <5>1. \A d \in Legacy : raw'.signatures[d] = raw.signatures[d]
              BY <1>1, <2>1, <4>1, SignatureFacts DEF TypeOK
        <5> QED
            BY <1>1, <2>1, <5>1, CurrentIDIs DEF CurrentID, SignedHex, LegacyPart, TypeOK
      <4> QED
          BY <2>1, <3>1, <4>2 DEF SameSignatures, LegacyPart
    <3>3. CASE ~Used
          BY <1>1, <2>1, <3>3 DEF Used, SameSignatures, DraftInv
    <3> QED
        BY <3>2, <3>3
  <2> QED
      BY <2>1, <2>2, <2>3, <2>4 DEF PrecomputedInv
<1>7. CASE PrecomputeSubmitTxID
  <2>1. /\ precomputed' = CurrentID /\ UNCHANGED <<raw, drafts, host, taken, resigned>>
        /\ precomputed.draft # raw.hex.draft
        BY <1>7 DEF PrecomputeSubmitTxID, PrecomputedHex, TxID, CurrentID
  <2>2. CurrentID.draft = raw.hex.draft /\ CurrentID' = CurrentID
        BY <1>1, <2>1, CurrentIDIs DEF CurrentID, SignedHex, LegacyPart
  <2>3. DraftInv'
    <3>1. raw.hex.draft <= drafts
          BY <1>1 DEF TypeOK
    <3>2. precomputed'.draft <= drafts'
          BY <1>7, <2>1, <2>2, <3>1 DEF PrecomputeSubmitTxID
    <3> QED
        BY <1>1, <2>1, <3>2 DEF DraftInv
  <2>4. SameSignatures => SameSignatures'
        BY <2>1, <2>2 DEF SameSignatures, LegacyPart
  <2>5. PrecomputedIsTaken'
    <3> SUFFICES ASSUME NEW hex \in taken, hex.draft = raw.hex.draft, raw.hex.draft \notin resigned
                 PROVE  CurrentID = LegacyPart(hex)
        BY <2>1, <2>2 DEF PrecomputedIsTaken, TxID, LegacyPart
    <3> QED
        BY DEF PrecomputedInv, SameSignatures
  <2> QED
      BY <2>1, <2>3, <2>4, <2>5 DEF PrecomputedInv
<1>8. CASE VerifyRawTransaction /\ VerifySigned(SignedHex)
  <2>1. /\ raw'.hex = SignedHex /\ raw'.signatures = raw.signatures /\ raw.hex.draft # 0
        /\ UNCHANGED <<precomputed, taken, drafts, host, resigned>> /\ host = "idle"
        BY <1>1, <1>8 DEF VerifyRawTransaction, Changes, Builds, Ready, TypeOK
  <2>2. SignedHex.draft = raw.hex.draft /\ SignedHex.ins = raw.hex.ins /\ SignedHex \in Hexes
        BY <1>1, SignedFacts DEF TypeOK, Hexes, SignedHex
  <2>3. SignedHex.sigs # Unsigned
    <3>1. PICK c \in SignedHex.ins : TRUE
          BY <1>1, <2>1, <2>2 DEF DraftInv
    <3>2. SignedHex.sigs[c] \in Good /\ c \in Coins
          BY <1>8, <2>2, <3>1 DEF VerifySigned, Hexes
    <3> QED
        BY <3>2, SignatureFacts DEF Unsigned
  <2>4. CurrentID' = CurrentID /\ LegacyPart(raw.hex)' = CurrentID
        BY <1>1, <2>1, <2>2, CurrentIDIs DEF CurrentID, SignedHex, LegacyPart, TypeOK
  <2>5. DraftInv'
        BY <1>1, <2>1, <2>2, <2>3 DEF DraftInv
  <2>6. SameSignatures => SameSignatures'
        BY <2>1, <2>2, <2>4 DEF SameSignatures, LegacyPart
  <2>7. PrecomputedIsTaken'
        BY <1>1, <2>1 DEF PrecomputedIsTaken, TxID, LegacyPart
  <2> QED
      BY <2>1, <2>2, <2>5, <2>6, <2>7 DEF PrecomputedInv
<1>9. CASE SendRawTransaction
  <2>1. /\ raw'.hex = raw.hex /\ raw'.signatures = raw.signatures /\ raw.hex.draft # 0
        /\ UNCHANGED <<precomputed, drafts, resigned>> /\ host' = "idle"
        BY <1>1, <1>9 DEF SendRawTransaction, DraftInv, TypeOK
  <2>2. taken' = taken \/ (taken' = taken \cup {raw.hex} /\ WellSigned(raw.hex))
        BY <1>9 DEF SendRawTransaction, NodeTakes
  <2>3. CASE taken' = taken
        BY <1>2, <2>1, <2>3, PrecomputedKept
  <2>4. CASE taken' = taken \cup {raw.hex} /\ WellSigned(raw.hex)
    <3>1. raw.hex.sigs # Unsigned
      <4>1. PICK c \in raw.hex.ins : TRUE
            BY <1>1, <2>1 DEF DraftInv
      <4>2. raw.hex.sigs[c] \in Good /\ c \in Coins
            BY <1>1, <2>4, <4>1 DEF WellSigned, TypeOK, Hexes
      <4> QED
          BY <4>2, SignatureFacts DEF Unsigned
    <3>2. CurrentID' = CurrentID
          BY <1>1, <2>1, CurrentIDIs DEF CurrentID, SignedHex, LegacyPart, TypeOK
    <3>3. DraftInv'
          BY <1>1, <2>1, <2>4, <3>1 DEF DraftInv
    <3>4. SameSignatures => SameSignatures'
          BY <2>1, <2>4, <3>1, <3>2 DEF SameSignatures, LegacyPart
    <3>5. PrecomputedIsTaken'
      <4> SUFFICES ASSUME NEW hex \in taken', hex.draft = precomputed.draft, hex.draft \notin resigned
                   PROVE  precomputed = LegacyPart(hex)
          BY <2>1 DEF PrecomputedIsTaken, TxID, LegacyPart
      <4>1. CASE hex \in taken
            BY <1>1, <4>1 DEF PrecomputedIsTaken, TxID
      <4>2. CASE hex = raw.hex
            BY <2>1, <3>1, <4>2 DEF PrecomputedInv, SameSignatures
      <4> QED
          BY <2>4, <4>1, <4>2
    <3> QED
        BY <2>1, <3>3, <3>4, <3>5 DEF PrecomputedInv
  <2> QED
      BY <2>2, <2>3, <2>4
<1> QED
    BY <1>3, <1>4, <1>5, <1>6, <1>7, <1>8, <1>9 DEF Next

-----------------------------------------------------------------------------
THEOREM SigningInvariant == Spec => []SignInv
BY SignInit, SignStep, PTL DEF Spec

(* A submission is of a transaction that is well signed or not signed at   *)
(* all, whatever was rebuilt and signed again before it.                   *)
THEOREM SentVerified == Spec => []SentIsVerified
<1>1. SignInv => SentIsVerified
      BY DEF SignInv, HexInv, SentIsVerified
<1> QED
    BY SigningInvariant, <1>1, PTL

(* The network knows what it has taken of the current draft by the TxID of *)
(* the raw transaction, the answer to the submission lost or not.          *)
THEOREM TakenNamed == Spec => []TakenIsNamed
<1>1. SignInv => TakenIsNamed
      BY DEF SignInv, TakenInv
<1> QED
    BY SigningInvariant, <1>1, PTL

(* Whatever is signed, verified, rebuilt and sent after it, the id that    *)
(* was precomputed for a draft is the one of what the network takes of it, *)
(* unless a legacy input is signed anew once its signature was used.       *)
THEOREM PrecomputedTaken == Spec => []PrecomputedIsTaken
<1>1. PrecomputedInv => PrecomputedIsTaken
      BY DEF PrecomputedInv
<1> QED
    BY SignInit, PrecomputedInit, PrecomputedStep, SigningInvariant, <1>1, PTL DEF Spec

(* What has its good signatures verifies, although the prevouts that are   *)
(* stored may be those of a draft that failed, or none at all.             *)
THEOREM SignedVerifies == Spec => []SignedCanBeVerified
<1>1. ASSUME SignInv PROVE SighashesMatch
  <2>1. CASE FromCache
        BY <1>1, <2>1 DEF SignInv, CacheInv, FromCache, UsedPrevOuts, SighashesMatch
  <2>2. CASE ~FromCache
        BY <2>2 DEF UsedPrevOuts, SighashesMatch
  <2> QED
      BY <2>1, <2>2
<1>2. SignInv => SignedCanBeVerified
      BY <1>1, SignatureFacts DEF SignedCanBeVerified, Builds, AllSigned
<1> QED
    BY SigningInvariant, <1>2, PTL

(* The raw transaction stays of its type, and the host's call and the      *)
(* reader of the manager that serves it stay in step.                      *)
THEOREM SigningTyped == Spec => []TypeOK
<1>1. SignInv => TypeOK
      BY DEF SignInv
<1> QED
    BY SigningInvariant, <1>1, PTL

(* With a fixed kind of server, a submission finds a client of the kind it *)
(* read, though the manager is reloaded beside it.                         *)
THEOREM SenderFindsClient == ~MaySwitch => (Spec => []ReaderFindsClient)
<1>1. Spec => ConnSpec
      BY SenderIsReader, PTL DEF Spec, ConnSpec, Init
<1> QED
    BY <1>1, ClientFound, PTL

(* And the manager is settled on the node that last answered.              *)
THEOREM SenderSettled == Spec => []SettledOnServed
<1>1. Spec => ConnSpec
      BY SenderIsReader, PTL DEF Spec, ConnSpec, Init
<1> QED
    BY <1>1, ServedStays, PTL
=============================================================================
