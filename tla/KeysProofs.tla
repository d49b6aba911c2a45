----------------------------- MODULE KeysProofs -----------------------------
(***************************************************************************)
(* Proofs about Keys, for any number of calls, sessions, items and         *)
(* processes, and any number of passphrase changes.                        *)
(***************************************************************************)
EXTENDS Keys, TLAPS

\* The header a process read is one the file had.
CliOK == \A p \in Cli : cli[p].pc # "none" => cli[p].verifier \in 1..header

\* What holds of memory, file and processes together.
IInv == TypeOK /\ MemoryMatchesHeader /\ CliOK

------------------------------------------------------------------------------
(* Rows.                                                                     *)

\* Zero and the epochs.
LEMMA Epochs == 0 \in 0..MaxEpoch /\ 1 \in Epoch /\ Epoch \subseteq 0..MaxEpoch /\ MaxImport \in 0..MaxImport
  BY KeysConstants DEF Epoch

\* The rows of nothing are typed.
LEMMA Blank == NoItem \in Items /\ NoCall \in Calls /\ NoCli \in Clis
  BY KeysConstants DEF NoItem, NoCall, NoCli, Items, Calls, Clis, Pcs

\* A sequence of one epoch, as long as another sequence.
LEMMA Same ==
  ASSUME NEW S, NEW s \in Seq(S), NEW e \in Epoch
  PROVE  [n \in DOMAIN s |-> e] \in Seq(Epoch)
<1>1. DOMAIN s = 1..Len(s) /\ Len(s) \in Nat
  OBVIOUS
<1>2. QED
  BY <1>1

\* What a write under a KEK leaves: a typed row, and rows that open under it if
\* they did.
LEMMA WriteEffect ==
  ASSUME TypeOK, NEW k \in Epoch, PutUnder(k) \/ AddVersionUnder(k) \/ LabelUnder(k) \/ Delete
  PROVE  /\ item' \in [Item -> Items] /\ label' \in [Holder -> 0..MaxEpoch]
         /\ OpensUnder(k) => OpensUnder(k)'
<1>1. CASE PutUnder(k)
  <2>1. PICK i \in Item : item' = [item EXCEPT ![i] = [fields |-> k, deks |-> <<k>>, notes |-> <<0>>]]
    BY <1>1 DEF PutUnder
  <2>2. [fields |-> k, deks |-> <<k>>, notes |-> <<0>>] \in Items
    BY Epochs DEF Items
  <2>3. item' \in [Item -> Items] /\ label' = label
    BY <1>1, <2>1, <2>2 DEF PutUnder, TypeOK
  <2>4. /\ item'[i].fields = k /\ All(item'[i].deks, k)
        /\ \A j \in Item \ {i} : item'[j] = item[j]
    BY <2>1 DEF TypeOK, All
  <2>5. QED
    BY <2>3, <2>4 DEF TypeOK, OpensUnder, Exists
<1>2. CASE AddVersionUnder(k)
  <2>1. PICK i \in Item, note \in {0, k} :
          Exists(i) /\ item' = [item EXCEPT ![i].deks = Append(@, k), ![i].notes = Append(@, note)]
    BY <1>2 DEF AddVersionUnder
  <2>2. /\ item'[i].fields = item[i].fields
        /\ item'[i].deks = Append(item[i].deks, k)
        /\ item'[i].notes = Append(item[i].notes, note)
        /\ item'[i] = [fields |-> item[i].fields, deks |-> Append(item[i].deks, k),
                       notes |-> Append(item[i].notes, note)]
        /\ \A j \in Item \ {i} : item'[j] = item[j]
        /\ DOMAIN item' = Item /\ item' = [j \in Item |-> item'[j]]
    BY <2>1 DEF TypeOK, Items
  <2>3. item[i].fields \in 0..MaxEpoch /\ item[i].deks \in Seq(Epoch) /\ item[i].notes \in Seq(0..MaxEpoch)
    BY DEF TypeOK, Items
  <2>4. item'[i] \in Items
    BY <2>2, <2>3, Epochs DEF Items
  <2>5. item' \in [Item -> Items] /\ label' = label
    BY <1>2, <2>2, <2>4 DEF TypeOK, AddVersionUnder
  <2>6. All(item[i].deks, k) => All(item'[i].deks, k)
    BY <2>2, <2>3 DEF All
  <2>7. QED
    BY <2>1, <2>2, <2>5, <2>6 DEF TypeOK, OpensUnder, Exists
<1>3. CASE LabelUnder(k)
  BY <1>3, Epochs DEF LabelUnder, TypeOK, OpensUnder, Exists
<1>4. CASE Delete
  <2>1. PICK i \in Item : item' = [item EXCEPT ![i] = NoItem] /\ label' = label
    BY <1>4 DEF Delete
  <2>2. item' \in [Item -> Items] /\ item'[i].fields = 0 /\ \A j \in Item \ {i} : item'[j] = item[j]
    BY <2>1, Blank DEF TypeOK, NoItem
  <2>3. QED
    BY <2>1, <2>2 DEF TypeOK, OpensUnder, Exists
<1>5. QED
  BY <1>1, <1>2, <1>3, <1>4

\* What a rotation leaves: typed rows that open under the new KEK.
LEMMA RotateEffect ==
  ASSUME TypeOK, NEW e \in Epoch,
         item' = [i \in Item |-> Rewrapped(item[i], e)],
         label' = [h \in Holder |-> IF label[h] = 0 THEN 0 ELSE e]
  PROVE  /\ item' \in [Item -> Items] /\ label' \in [Holder -> 0..MaxEpoch]
         /\ OpensUnder(e)'
<1>1. ASSUME NEW i \in Item
      PROVE  /\ item'[i] \in Items
             /\ item'[i].fields # 0 => item'[i].fields = e /\ All(item'[i].deks, e)
  <2>1. item[i] \in Items /\ item'[i] = Rewrapped(item[i], e)
    BY DEF TypeOK
  <2>2. CASE item[i].fields = 0
    BY <2>1, <2>2 DEF Rewrapped
  <2>3. CASE item[i].fields # 0
    <3>1. item'[i] = [item[i] EXCEPT !.fields = e, !.deks = [n \in DOMAIN item[i].deks |-> e]]
      BY <2>1, <2>3 DEF Rewrapped
    <3>2. [n \in DOMAIN item[i].deks |-> e] \in Seq(Epoch)
      BY <2>1, Same DEF Items
    <3>3. item'[i] \in Items /\ item'[i].fields = e /\ item'[i].deks = [n \in DOMAIN item[i].deks |-> e]
      BY <2>1, <3>1, <3>2, Epochs DEF Items
    <3>4. QED
      BY <3>3 DEF All
  <2>4. QED
    BY <2>2, <2>3
<1>2. label' \in [Holder -> {0, e}]
  OBVIOUS
<1>3. QED
  BY <1>1, <1>2, Epochs DEF OpensUnder, Exists

------------------------------------------------------------------------------
(* Types, and memory against file.                                           *)

\* A call that moves or ends leaves the calls typed.
LEMMA GotoType ==
  ASSUME TypeOK, NEW c \in Call
  PROVE  /\ \A pc \in Pcs : Goto(c, pc) => call' \in [Call -> Calls]
         /\ Answer(c) => call' \in [Call -> Calls]
<1>1. ASSUME NEW pc \in Pcs, Goto(c, pc) PROVE call' \in [Call -> Calls]
  BY <1>1, Epochs DEF Goto, TypeOK, Calls
<1>2. ASSUME Answer(c) PROVE call' \in [Call -> Calls]
  BY <1>2, Blank DEF Answer, TypeOK
<1>3. QED
  BY <1>1, <1>2

\* A vault that was just created.
LEMMA InitInv == Init => IInv
  BY Blank, Epochs DEF Init, IInv, TypeOK, MemoryMatchesHeader, CliOK, NoCli

\* Every step keeps types, and memory and file together.
LEMMA NextInv ==
  ASSUME IInv, [Next]_vars
  PROVE  IInv'
<1> USE DEF IInv
<1>0. daemon.verifier = header /\ daemon.keys \in {0, header} /\ header \in Epoch
  BY DEF MemoryMatchesHeader, TypeOK
<1>1. ASSUME NEW c \in Call, Login(c) PROVE IInv'
  <2>1. call' \in [Call -> Calls]
    BY <1>1 DEF Login, TypeOK, Calls, Pcs
  <2>2. QED
    BY <1>1, <2>1 DEF Login, TypeOK, MemoryMatchesHeader, CliOK, rows
<1>2. ASSUME NEW c \in Call, TouchHumanSession(c) PROVE IInv'
  <2>1. call' \in [Call -> Calls]
    BY <1>2 DEF TouchHumanSession, TypeOK, Calls, Pcs
  <2>2. QED
    BY <1>2, <2>1 DEF TouchHumanSession, TypeOK, MemoryMatchesHeader, CliOK, rows
<1>3. ASSUME NEW c \in Call, Verify(c) PROVE IInv'
  <2>1. call' \in [Call -> Calls]
    BY <1>3, GotoType DEF Verify, Pcs
  <2>2. daemon' = [daemon EXCEPT !.keys = daemon.verifier] \/ daemon' = daemon
    BY <1>3 DEF Verify
  <2>3. /\ daemon' \in [verifier: Epoch, keys: 0..MaxEpoch]
        /\ daemon'.verifier = header /\ daemon'.keys \in {0, header}
    BY <1>0, <2>2, Epochs DEF TypeOK
  <2>4. QED
    BY <1>3, <2>1, <2>3 DEF Verify, TypeOK, MemoryMatchesHeader, CliOK, rows
<1>4. ASSUME NEW c \in Call, OpenHumanSession(c) PROVE IInv'
  <2>1. call' \in [Call -> Calls]
    BY <1>4, GotoType DEF OpenHumanSession
  <2>2. cookie' \subseteq Cookie
    BY <1>4 DEF OpenHumanSession, TypeOK
  <2>3. QED
    BY <1>4, <2>1, <2>2 DEF OpenHumanSession, TypeOK, MemoryMatchesHeader, CliOK, rows
<1>5. ASSUME NEW c \in Call, Seal(c) PROVE IInv'
  <2>1. call' \in [Call -> Calls]
    BY <1>5, GotoType DEF Seal, Pcs
  <2>2. /\ daemon' \in [verifier: Epoch, keys: 0..MaxEpoch]
        /\ daemon'.verifier = header /\ daemon'.keys = 0
    BY <1>0, <1>5, Epochs DEF Seal, TypeOK
  <2>3. QED
    BY <1>5, <2>1, <2>2 DEF Seal, TypeOK, MemoryMatchesHeader, CliOK, rows
<1>6. ASSUME NEW c \in Call, Rotate(c) PROVE IInv'
  <2>1. call' \in [Call -> Calls]
    BY <1>6, GotoType DEF Rotate, Pcs
  <2>2. CASE UNCHANGED <<header, rows, daemon>>
    BY <1>6, <2>1, <2>2 DEF Rotate, TypeOK, MemoryMatchesHeader, CliOK, rows
  <2>3. CASE ~UNCHANGED <<header, rows, daemon>>
    <3> DEFINE e == header + 1
    <3>1. /\ header < MaxEpoch /\ header' = e
          /\ item' = [i \in Item |-> Rewrapped(item[i], e)]
          /\ label' = [h \in Holder |-> IF label[h] = 0 THEN 0 ELSE e]
          /\ daemon' = Installed(e)
      BY <1>6, <2>3 DEF Rotate
    <3>2. e \in Epoch
      BY <1>0, <3>1, KeysConstants DEF Epoch
    <3>3. item' \in [Item -> Items] /\ label' \in [Holder -> 0..MaxEpoch]
      BY <3>1, <3>2, RotateEffect
    <3>4. QED
      BY <1>6, <2>1, <3>1, <3>2, <3>3, Epochs DEF Rotate, Installed, TypeOK, MemoryMatchesHeader, CliOK
  <2>4. QED
    BY <2>2, <2>3
<1>7. ASSUME NEW c \in Call, ClearHumanSessions(c) PROVE IInv'
  <2>1. call' \in [Call -> Calls]
    BY <1>7, GotoType DEF ClearHumanSessions
  <2>2. QED
    BY <1>7, <2>1 DEF ClearHumanSessions, Cleared, TypeOK, MemoryMatchesHeader, CliOK, rows
<1>8. ASSUME NEW c \in Call, Write(c) PROVE IInv'
  <2>1. call' \in [Call -> Calls]
    BY <1>8, GotoType DEF Write
  <2>2. item' \in [Item -> Items] /\ label' \in [Holder -> 0..MaxEpoch]
    <3>1. CASE UNCHANGED rows
      BY <3>1 DEF rows, TypeOK
    <3>2. CASE ~UNCHANGED rows
      <4>1. daemon.keys \in Epoch
        BY <1>0, <1>8, <3>2 DEF Write
      <4>2. PutUnder(daemon.keys) \/ AddVersionUnder(daemon.keys) \/ LabelUnder(daemon.keys) \/ Delete
        BY <1>8, <3>2 DEF Write
      <4>3. QED
        BY <4>1, <4>2, WriteEffect
    <3>3. QED
      BY <3>1, <3>2
  <2>3. QED
    BY <1>8, <2>1, <2>2 DEF Write, TypeOK, MemoryMatchesHeader, CliOK
<1>9. ASSUME NEW k \in Cookie, IdleOut(k) PROVE IInv'
  BY <1>9 DEF IdleOut, TypeOK, MemoryMatchesHeader, CliOK, rows
<1>10. CASE Restart
  <2>1. /\ daemon' \in [verifier: Epoch, keys: 0..MaxEpoch]
        /\ daemon'.verifier = header /\ daemon'.keys \in {0, header}
    BY <1>0, <1>10, Epochs DEF Restart
  <2>2. call' \in [Call -> Calls]
    BY <1>10, Blank DEF Restart
  <2>3. QED
    BY <1>10, <2>1, <2>2 DEF Restart, Cleared, TypeOK, MemoryMatchesHeader, CliOK, rows
<1>11. ASSUME NEW p \in Cli, CliOpen(p) \/ CliUnseal(p) \/ CliExit(p) PROVE IInv'
  <2>1. /\ cli' \in [Cli -> Clis] /\ header' = header
        /\ cli'[p].pc # "none" => cli'[p].verifier \in {header, cli[p].verifier}
        /\ cli'[p].pc # "none" /\ cli[p].pc = "none" => cli'[p].verifier = header
        /\ \A q \in Cli \ {p} : cli'[q] = cli[q]
    <3>1. CASE CliOpen(p)
      BY <1>0, <3>1, Epochs, KeysConstants DEF CliOpen, TypeOK, Clis
    <3>2. CASE CliUnseal(p)
      <4>1. CASE cli' = [cli EXCEPT ![p] = NoCli]
        BY <3>2, <4>1, Blank DEF CliUnseal, TypeOK, NoCli
      <4>2. ASSUME NEW pc \in {"export", "import"},
                   cli' = [cli EXCEPT ![p].pc = pc, ![p].left = IF pc = "import" THEN MaxImport ELSE 0]
            PROVE  /\ cli' \in [Cli -> Clis]
                   /\ cli'[p].verifier = cli[p].verifier
                   /\ \A q \in Cli \ {p} : cli'[q] = cli[q]
        <5> DEFINE left == IF pc = "import" THEN MaxImport ELSE 0
        <5>1. left \in 0..MaxImport
          BY KeysConstants
        <5> HIDE DEF left
        <5>2. cli' = [cli EXCEPT ![p].pc = pc, ![p].left = left]
          BY <4>2 DEF left
        <5>3. QED
          BY <5>1, <5>2 DEF TypeOK, Clis
      <4>3. QED
        BY <3>2, <4>1, <4>2 DEF CliUnseal
    <3>3. CASE CliExit(p)
      BY <3>3, Blank DEF CliExit, TypeOK, NoCli
    <3>4. QED
      BY <1>11, <3>1, <3>2, <3>3
  <2>2. CliOK'
    BY <1>0, <2>1 DEF CliOK, Epoch
  <2>3. QED
    BY <1>11, <2>1, <2>2 DEF CliOpen, CliUnseal, CliExit, TypeOK, MemoryMatchesHeader, rows
<1>12. ASSUME NEW p \in Cli, CliImport(p) PROVE IInv'
  <2>1. cli[p] \in Clis /\ cli[p].pc = "import" /\ cli[p].left > 0
    BY <1>12 DEF CliImport, TypeOK
  <2>2. cli[p].verifier \in Epoch /\ cli[p].left - 1 \in 0..MaxImport
    BY <1>0, <2>1, KeysConstants DEF CliOK, Epoch, Clis
  <2>3. item' \in [Item -> Items] /\ label' \in [Holder -> 0..MaxEpoch]
    BY <1>12, <2>2, WriteEffect DEF CliImport
  <2>4. /\ cli' \in [Cli -> Clis] /\ cli'[p].pc = "import" /\ cli'[p].verifier = cli[p].verifier
        /\ \A q \in Cli \ {p} : cli'[q] = cli[q]
    BY <1>12, <2>1, <2>2 DEF CliImport, TypeOK, Clis
  <2>5. QED
    BY <1>12, <2>1, <2>3, <2>4 DEF CliImport, TypeOK, MemoryMatchesHeader, CliOK
<1>13. ASSUME NEW c \in Call, Disconnect(c) PROVE IInv'
  <2>1. call' \in [Call -> Calls]
    BY <1>13, GotoType DEF Disconnect, Pcs
  <2>2. QED
    BY <1>13, <2>1 DEF Disconnect, TypeOK, MemoryMatchesHeader, CliOK, rows
<1>14. CASE UNCHANGED vars
  BY <1>14 DEF vars, rows, TypeOK, MemoryMatchesHeader, CliOK
<1>15. QED
  BY <1>1, <1>2, <1>3, <1>4, <1>5, <1>6, <1>7, <1>8, <1>9, <1>10, <1>11, <1>12, <1>13, <1>14
     DEF Next, CallStep

\* Spec keeps the invariant.
LEMMA Invariant == Spec => []IInv
  BY InitInv, NextInv, PTL DEF Spec

\* Header, rows, sessions and processes keep their types.
THEOREM TypeCorrect == Spec => []TypeOK
  BY Invariant, PTL DEF IInv

\* After any logins, seals, rotations and restarts, however they overlap, the
\* daemon checks passphrases against the header that is in the file, and holds
\* its KEK or none (vault.rs:1141-1147, 209-254).
THEOREM MemoryFollowsHeader == Spec => []MemoryMatchesHeader
  BY Invariant, PTL DEF IInv

------------------------------------------------------------------------------
(* Action properties.                                                        *)

\* What opens under the header's KEK goes on to: what the daemon writes is under
\* that KEK, a rotation moves all of it, and an import that read this header
\* writes under it, too; only one that read an older header does not
\* (vault.rs:985-1149, main.rs:594-617).
THEOREM RowsStayReadable == Spec => ReadableKept
<1> DEFINE Behind == \E p \in Cli : CliImport(p) /\ cli[p].verifier < header
           Keeps == OpensUnder(header) => OpensUnder(header)' \/ Behind
<1>1. IInv /\ [Next]_vars => [Keeps]_vars
  <2> SUFFICES ASSUME IInv, Next, OpensUnder(header), ~Behind
               PROVE  OpensUnder(header)'
    OBVIOUS
  <2>0. TypeOK /\ daemon.verifier = header /\ daemon.keys \in {0, header} /\ header \in Epoch
    BY DEF IInv, MemoryMatchesHeader, TypeOK
  <2>1. CASE UNCHANGED <<header, rows>>
    BY <2>1 DEF OpensUnder, Exists, rows
  <2>2. ASSUME NEW c \in Call, Rotate(c), ~UNCHANGED <<header, rows>>
        PROVE  OpensUnder(header)'
    <3>1. /\ header < MaxEpoch /\ header' = header + 1
          /\ item' = [i \in Item |-> Rewrapped(item[i], header + 1)]
          /\ label' = [h \in Holder |-> IF label[h] = 0 THEN 0 ELSE header + 1]
      BY <2>2 DEF Rotate
    <3>2. header' \in Epoch
      BY <2>0, <3>1, KeysConstants DEF Epoch
    <3>3. \A e : e = header + 1 => OpensUnder(e)'
      BY <2>0, <3>1, <3>2, RotateEffect
    <3>4. QED
      BY <3>1, <3>3 DEF OpensUnder
  <2>3. ASSUME NEW c \in Call, Write(c), ~UNCHANGED <<header, rows>>
        PROVE  OpensUnder(header)'
    <3>1. daemon.keys = header /\ header' = header
      BY <2>0, <2>3 DEF Write
    <3>2. PutUnder(header) \/ AddVersionUnder(header) \/ LabelUnder(header) \/ Delete
      BY <2>3, <3>1 DEF Write
    <3>3. OpensUnder(header) => \A e : e = header => OpensUnder(e)'
      BY <2>0, <3>2, WriteEffect
    <3>4. QED
      BY <3>1, <3>3 DEF OpensUnder
  <2>4. ASSUME NEW p \in Cli, CliImport(p)
        PROVE  OpensUnder(header)'
    <3>1. cli[p].verifier = header /\ header' = header
      <4>1. cli[p].verifier \in 1..header /\ header \in Nat
        BY <2>0, <2>4 DEF CliImport, IInv, CliOK, Epoch
      <4>2. ~(cli[p].verifier < header)
        BY <2>4
      <4>3. cli[p].verifier = header
        BY <4>1, <4>2
      <4>4. header' = header
        BY <2>4 DEF CliImport
      <4>5. QED
        BY <4>3, <4>4
    <3>2. PutUnder(header) \/ AddVersionUnder(header)
      BY <2>4, <3>1 DEF CliImport
    <3>3. OpensUnder(header) => \A e : e = header => OpensUnder(e)'
      BY <2>0, <3>2, WriteEffect
    <3>4. QED
      BY <3>1, <3>3 DEF OpensUnder
  <2>5. QED
    BY <2>1, <2>2, <2>3, <2>4
       DEF Next, CallStep, Login, TouchHumanSession, Verify, OpenHumanSession, Seal,
           ClearHumanSessions, Disconnect, IdleOut, Restart, CliOpen, CliUnseal, CliExit
<1>2. QED
  BY <1>1, Invariant, PTL DEF Spec, ReadableKept

\* A sealed daemon comes by its KEK only in a restart, or in a call that brought
\* the passphrase of the header (human.rs:121-129, 173-177).
THEOREM UnsealNeedsPassphrase == Spec => UnsealedByPassphrase
<1> DEFINE ByPassphrase ==
      daemon.keys = 0 /\ daemon.keys' # 0 =>
        Restart \/ \E c \in Call : call[c].pass = header /\ call[c].pc \in {"verify", "rotate"}
<1>1. IInv /\ [Next]_vars => [ByPassphrase]_vars
  <2> SUFFICES ASSUME IInv, Next, daemon.keys = 0, daemon.keys' # 0, ~Restart
               PROVE  \E c \in Call : call[c].pass = header /\ call[c].pc \in {"verify", "rotate"}
    OBVIOUS
  <2>0. daemon.verifier = header
    BY DEF IInv, MemoryMatchesHeader
  <2>1. ASSUME NEW c \in Call, Verify(c) \/ Rotate(c)
        PROVE  call[c].pass = header /\ call[c].pc \in {"verify", "rotate"}
    BY <2>0, <2>1 DEF Verify, Rotate, Accepted
  <2>2. ASSUME NEW c \in Call, Seal(c) PROVE FALSE
    BY <2>2 DEF Seal, IInv, TypeOK
  <2>3. QED
    BY <2>1, <2>2
       DEF Next, CallStep, Login, TouchHumanSession, OpenHumanSession, ClearHumanSessions,
           Disconnect, Write, IdleOut, CliOpen, CliUnseal, CliExit, CliImport
<1>2. QED
  BY <1>1, Invariant, PTL DEF Spec, UnsealedByPassphrase
=============================================================================
