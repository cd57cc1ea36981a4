-------------------------- MODULE MigrationProofs --------------------------
(***************************************************************************)
(* Proofs about Migration.  Among the settled incarnations (those without  *)
(* a partial import) the one drawn last is the Head: the others are        *)
(* prepared or completed, so they are fenced; every object made for the    *)
(* Head's token holds its writes; a frontend or an operator who completes  *)
(* a source has seen a later incarnation.  Most steps leave the settled    *)
(* incarnations alone and need the frame lemmas only; the rest of the      *)
(* module has one lemma per step that fences, imports, completes, releases *)
(* or deletes one.                                                         *)
(***************************************************************************)
EXTENDS Migration, TLAPS

-----------------------------------------------------------------------------
(* Steps that leave the settled incarnations and their records alone *)

\* What is settled, and its record, is the same after the step.
SameSettled ==
    \A g \in Hosts :
        /\ Settled(g) <=> Settled(g)'
        /\ Settled(g) => row'[g].id = row[g].id /\ MigOf(g)' = MigOf(g)

\* Every row keeps its incarnation and its visibility, and no record changes.
SameRows ==
    /\ mig' = mig /\ rcpt' = rcpt /\ insts' = insts
    /\ \A g \in Hosts :
          /\ row[g] = None <=> row'[g] = None
          /\ row[g] # None => row'[g].id = row[g].id
          /\ Visible(g) <=> Visible(g)'

\* What is settled decides what is a claim and which one is the last.
LEMMA SettledView ==
    ASSUME SameSettled
    PROVE  \A g \in Hosts :
              /\ Settled(g) <=> Settled(g)'
              /\ Settled(g) => /\ row'[g].id = row[g].id
                               /\ MigOf(g)' = MigOf(g) /\ Phase(g)' = Phase(g)
              /\ Claim(g) <=> Claim(g)'
              /\ Head(g) <=> Head(g)'
PROOF
<1>1. \A g \in Hosts : Settled(g) => Phase(g)' = Phase(g)
  BY DEF SameSettled, Phase
<1>2. \A g \in Hosts : Claim(g) <=> Claim(g)'
  BY <1>1 DEF SameSettled, Claim
<1>3. \A g \in Hosts : Head(g) <=> Head(g)'
  BY <1>2 DEF SameSettled, Head, Claim
<1>4. QED
  BY <1>1, <1>2, <1>3 DEF SameSettled

\* A step that changes at most the state of visible rows.
LEMMA RowsView ==
    ASSUME SameRows
    PROVE  /\ SameSettled
           /\ \A g \in Hosts :
                 /\ Visible(g) <=> Visible(g)'
                 /\ row[g] # None => /\ row'[g].id = row[g].id /\ MigOf(g)' = MigOf(g)
                                     /\ Phase(g)' = Phase(g) /\ RcptOf(g)' = RcptOf(g)
PROOF
<1>1. \A g \in Hosts : row[g] # None =>
         /\ row'[g].id = row[g].id /\ MigOf(g)' = MigOf(g)
         /\ Phase(g)' = Phase(g) /\ RcptOf(g)' = RcptOf(g)
  BY DEF SameRows, Phase, MigOf, RcptOf
<1>2. \A g \in Hosts : Visible(g) => row[g] # None
  BY DEF Visible
<1>3. \A g \in Hosts : Settled(g) <=> Settled(g)'
  BY <1>1, <1>2 DEF Settled, SameRows
<1>4. QED
  BY <1>1, <1>2, <1>3 DEF SameRows, SameSettled, Settled

\* The two together.
LEMMA SameView ==
    ASSUME SameRows
    PROVE  \A g \in Hosts :
              /\ Visible(g) <=> Visible(g)'
              /\ Visible(g) => row[g] # None
              /\ row[g] # None => /\ row'[g].id = row[g].id /\ MigOf(g)' = MigOf(g)
                                  /\ Phase(g)' = Phase(g) /\ RcptOf(g)' = RcptOf(g)
              /\ Settled(g) <=> Settled(g)'
              /\ Settled(g) => Visible(g)
              /\ Claim(g) <=> Claim(g)'
              /\ Claim(g) => Visible(g)
              /\ Head(g) <=> Head(g)'
PROOF
<1>1. \A g \in Hosts : /\ Visible(g) => row[g] # None
                       /\ Settled(g) => Visible(g)
                       /\ Claim(g) => Visible(g)
  BY DEF Visible, Settled, Claim
<1>2. QED
  BY <1>1, RowsView, SettledView

\* Incarnations stay on their hosts.
LEMMA IdKept ==
    ASSUME IdInv, SameRows, \A g \in Hosts : Visible(g) => disk'[g] # None
    PROVE  IdInv'
PROOF
  BY SameView DEF IdInv, SameRows

\* The earlier incarnations stay fenced.
LEMMA ChainKept ==
    ASSUME ChainInv, SameSettled
    PROVE  ChainInv'
PROOF
  BY SettledView DEF ChainInv

\* What may start is a claim that is not prepared.
LEMMA StartableView ==
    ASSUME NEW h \in Hosts, Startable(h)
    PROVE  Visible(h) /\ row[h] # None /\ Settled(h) /\ Claim(h) /\ Phase(h) # "prepared"
PROOF
  BY DEF Startable, Visible, Fenced, Claim, Settled, Phase

\* A VM that runs on had a claim, and a new one may start.
LEMMA VMKept ==
    ASSUME VMInv, SameSettled, vm \subseteq Hosts, vm' \subseteq Hosts,
           \A h \in vm' : h \in vm \/ Startable(h)
    PROVE  VMInv'
PROOF
<1>1. \A h \in Hosts : Claim(h) => Settled(h)
  BY DEF Claim
<1>2. QED
  BY <1>1, SettledView, StartableView DEF VMInv

\* A command that goes on has its record.
LEMMA OpKept ==
    ASSUME OpInv, SameRows,
           \A h \in Hosts : op'[h] # op[h] => op'[h] = None \/ op'[h].kind = "import",
           \A h \in vm' : h \in vm \/ op[h] = None,
           \A t \in Toks : snap[t] # None => snap'[t] # None,
           \A h \in Hosts : op[h] # None => op[h].tok \in Toks
    PROVE  OpInv'
PROOF
  BY SameView DEF OpInv

\* An import that goes on stays alone.
LEMMA ImportKept ==
    ASSUME ImportInv, SameRows,
           \A h \in Hosts : Importing(h)' => Importing(h) /\ op'[h] = op[h],
           \A h \in Hosts : disk[h] # None => disk'[h] # None
    PROVE  ImportInv'
PROOF
<1>1. insts' = insts /\ \A h \in Hosts : row[h] = None => row'[h] = None
  BY DEF SameRows
<1>2. QED
  BY <1>1, SameView DEF ImportInv

\* Tokens keep their owners while no record is written.
LEMMA TokKept ==
    ASSUME TypeOK, TokInv, mig' = mig, tokens' = tokens,
           \A i, j \in Ids :
              mig[i] # None /\ rcpt'[j] # None /\ mig[i].tok = rcpt'[j].tok => i < j,
           front' # None =>
              /\ front # None /\ front'.tok = front.tok
              /\ front'.step = "prepare" => front.step = "prepare",
           \A t \in Toks : Unused(t) => Unused(t)',
           \A t \in Toks : NoObject(t) =>
              \/ NoObject(t)'
              \/ \E i \in Ids : mig[i] # None /\ mig[i].tok = t /\ mig[i].phase # "preparing"
    PROVE  TokInv'
PROOF
<1>1. \A i \in Ids : mig[i] # None => mig[i].tok \in Toks
  BY DEF TypeOK, Migs
<1>2. \A t \in Toks : Unused(t) => \A i \in Ids : mig[i] # None => mig[i].tok # t
  BY DEF Unused
<1>3. front # None => front.tok \in Toks
  BY DEF TypeOK, Fronts
<1>4. \A t \in Toks : Unused(t) /\ NoObject(t) => Unused(t)' /\ NoObject(t)'
  BY <1>2
<1>5. \A i \in Ids : mig[i] # None /\ mig[i].phase = "preparing" => NoObject(mig[i].tok)'
  BY <1>1 DEF TokInv
<1>6. QED
  BY <1>3, <1>4, <1>5 DEF TokInv

\* The steps of the frontend before its import is sent.
Early == {"prepare", "preparing", "snapshot", "snapshotting", "base", "send", "import"}

\* A frontend that goes on finds its source as it was.
LEMMA FrontKept ==
    ASSUME TypeOK, FrontInv, IdInv', SameSettled, gone' = gone,
           front' # None =>
              /\ front # None /\ front'.src = front.src /\ front'.tok = front.tok
              /\ front'.step \in Early => front.step \in Early
              /\ front'.step = "complete" => front.step = "complete",
           \A h \in Hosts : Importing(h)' => Importing(h)
    PROVE  FrontInv'
PROOF
<1>1. front # None => front.src \in Hosts
  BY DEF TypeOK, Fronts
<1>2. \A h \in Hosts : (Visible(h) /\ MigOf(h) # None)' => Settled(h)'
  BY DEF IdInv
<1>3. \A h \in Hosts : Settled(h) => Visible(h)
  BY DEF Settled
<1>4. ASSUME front' # None
      PROVE  InPhase(front.src, front.tok, {"preparing", "prepared"})' =>
                InPhase(front.src, front.tok, {"preparing", "prepared"})
  BY <1>1, <1>2, <1>3, <1>4, SettledView DEF InPhase
<1>5. QED
  BY <1>1, <1>4, SettledView DEF FrontInv, Early

\* The last incarnation stays whole, and what was made of it current.
LEMMA HeadKept ==
    ASSUME TypeOK, HeadInv, SameSettled, gone' = gone, device' = device, ver' = ver,
           \A h \in Hosts : Head(h) /\ Current(h) => Current(h)',
           \A t \in Toks : snap'[t] # None => snap[t] # None /\ snap'[t].ver = snap[t].ver,
           \A h \in Hosts, t \in Toks : store'[h][t] \in {store[h][t], Removed},
           art' \in {art, None},
           ~gone => \A h \in Hosts : Importing(h)' =>
              /\ Importing(h) /\ op'[h].tok = op[h].tok
              /\ op'[h].nat = op[h].nat /\ op'[h].ver = op[h].ver
              /\ op'[h].step = "finalize" => Current(h)'
    PROVE  HeadInv'
PROOF
<1>1. \A h \in Hosts : Head(h) => Settled(h)
  BY DEF Head, Claim
<1>2. \A h \in Hosts : Head(h) /\ Phase(h) = "prepared" => MigOf(h).tok \in Toks
  BY DEF TypeOK, Head, Claim, Settled, Visible, Phase, MigOf, Migs, Rows
<1>3. SUFFICES ASSUME ~gone PROVE HeadInv'
  BY DEF HeadInv
<1>4. device' /\ \E h \in Hosts : Head(h)'
  BY <1>3, SettledView DEF HeadInv
<1>5. ASSUME NEW h \in Hosts, Head(h)'
      PROVE  /\ Current(h)'
             /\ (Phase(h) = "prepared")' =>
                  /\ (snap[MigOf(h).tok] # None => snap[MigOf(h).tok].ver = ver)'
                  /\ \A d \in Hosts : (store[d][MigOf(h).tok] \in {None, Removed, ver})'
                  /\ (art # None /\ art.tok = MigOf(h).tok => art.ver = ver /\ ~art.nat)'
  <2>1. Head(h) /\ Phase(h)' = Phase(h) /\ MigOf(h)' = MigOf(h)
    BY <1>1, <1>5, SettledView
  <2>2. Current(h)'
    BY <1>3, <2>1 DEF HeadInv
  <2>3. ASSUME Phase(h) = "prepared"
        PROVE  /\ (snap[MigOf(h).tok] # None => snap[MigOf(h).tok].ver = ver)'
               /\ \A d \in Hosts : (store[d][MigOf(h).tok] \in {None, Removed, ver})'
               /\ (art # None /\ art.tok = MigOf(h).tok => art.ver = ver /\ ~art.nat)'
    BY <1>2, <1>3, <2>1, <2>3 DEF HeadInv
  <2>4. QED
    BY <2>1, <2>2, <2>3
<1>6. ASSUME NEW h \in Hosts, Importing(h)'
      PROVE  /\ (IF op[h].nat THEN store[h][op[h].tok] \in {None, Removed, ver}
                              ELSE op[h].ver = ver)'
             /\ (op[h].step = "finalize" => Current(h))'
  <2>1. op[h].tok \in Toks
    BY <1>3, <1>6 DEF Importing, TypeOK, Imports, Prepares, Snapshots
  <2>2. QED
    BY <1>3, <1>6, <2>1 DEF HeadInv
<1>7. QED
  BY <1>4, <1>5, <1>6 DEF HeadInv

-----------------------------------------------------------------------------
(* Facts about the last incarnation *)

\* There is one last incarnation.
LEMMA HeadUnique ==
    ASSUME TypeOK, NEW g \in Hosts, NEW h \in Hosts, Head(g), Head(h)
    PROVE  g = h
PROOF
<1>1. row[g].id \in Nat /\ row[h].id \in Nat
  BY DEF TypeOK, Rows, Ids, Head, Claim, Settled, Visible
<1>2. QED
  BY <1>1 DEF Head, Claim

\* A claim that is not prepared is the last one, and no import is under way.
LEMMA LiveIsHead ==
    ASSUME TypeOK, IdInv, ChainInv, ImportInv,
           NEW h \in Hosts, Claim(h), Phase(h) # "prepared"
    PROVE  Head(h) /\ \A g \in Hosts : ~Importing(g)
PROOF
<1>1. \A g \in Hosts : Settled(g) => row[g] # None /\ row[g].id \in Nat
  BY DEF TypeOK, Rows, Ids, Settled, Visible
<1>2. Settled(h) /\ Phase(h) \notin {"prepared", "completed"}
  BY DEF Claim
<1>3. \A g \in Hosts \ {h} : Settled(g) => row[g].id # row[h].id
  BY <1>1, <1>2 DEF IdInv
<1>4. \A g \in Hosts \ {h} : Settled(g) => row[g].id < row[h].id
  BY <1>1, <1>2, <1>3 DEF ChainInv
<1>5. QED
  BY <1>4 DEF Head, ImportInv

-----------------------------------------------------------------------------
(* Types *)

\* A row whose state is set.
LEMMA StateRow ==
    ASSUME row \in [Hosts -> Rows \cup {None}], NEW h \in Hosts, row[h] # None,
           NEW s \in {"provisioning", "ready", "stopped", "deleted"},
           row' = [row EXCEPT ![h].state = s]
    PROVE  /\ row' \in [Hosts -> Rows \cup {None}]
           /\ \A g \in Hosts \ {h} : row'[g] = row[g]
           /\ row'[h] # None /\ row'[h].id = row[h].id /\ row'[h].state = s
PROOF
<1> DEFINE r == [row[h] EXCEPT !.state = s]
<1>1. r \in Rows /\ r.id = row[h].id /\ r.state = s
  BY DEF Rows
<1>2. row' = [row EXCEPT ![h] = r]
  OBVIOUS
<1> HIDE DEF r
<1>3. QED
  BY <1>1, <1>2, NoneAssumption

\* A row whose instance starts.
LEMMA ReadyRow ==
    ASSUME row \in [Hosts -> Rows \cup {None}], NEW h \in Hosts, row[h] # None,
           row' = [row EXCEPT ![h].state = "ready", ![h].node = TRUE]
    PROVE  /\ row' \in [Hosts -> Rows \cup {None}]
           /\ \A g \in Hosts \ {h} : row'[g] = row[g]
           /\ row'[h] # None /\ row'[h].id = row[h].id /\ row'[h].state = "ready"
PROOF
<1> DEFINE r == [row[h] EXCEPT !.state = "ready", !.node = TRUE]
<1>1. r \in Rows /\ r.id = row[h].id /\ r.state = "ready"
  BY DEF Rows
<1>2. row' = [row EXCEPT ![h] = r]
  OBVIOUS
<1> HIDE DEF r
<1>3. QED
  BY <1>1, <1>2, NoneAssumption

\* A migration record whose phase is set.
LEMMA PhaseSet ==
    ASSUME mig \in [Ids -> Migs \cup {None}], NEW i \in Ids, mig[i] # None,
           NEW p \in {"preparing", "prepared", "completed", "aborted"},
           mig' = [mig EXCEPT ![i].phase = p]
    PROVE  /\ mig' \in [Ids -> Migs \cup {None}]
           /\ \A j \in Ids \ {i} : mig'[j] = mig[j]
           /\ mig'[i] # None /\ mig'[i].tok = mig[i].tok /\ mig'[i].phase = p
PROOF
<1> DEFINE m == [mig[i] EXCEPT !.phase = p]
<1>1. m \in Migs /\ m.tok = mig[i].tok /\ m.phase = p
  BY DEF Migs
<1>2. mig' = [mig EXCEPT ![i] = m]
  OBVIOUS
<1> HIDE DEF m
<1>3. QED
  BY <1>1, <1>2, NoneAssumption

\* An import that goes on to its next step.
LEMMA ImportStep ==
    ASSUME TypeOK, NEW h \in Hosts, op[h] # None, op[h].kind = "import",
           NEW s \in {"mkdir", "reserve", "publish", "finalize", "discard"},
           op' = [op EXCEPT ![h].step = s]
    PROVE  /\ op' \in [Hosts -> Prepares \cup Snapshots \cup Imports \cup {None}]
           /\ \A g \in Hosts \ {h} : op'[g] = op[g]
           /\ op[h] \in Imports
           /\ op'[h] # None /\ op'[h].kind = "import" /\ op'[h].step = s
           /\ op'[h].tok = op[h].tok /\ op'[h].nat = op[h].nat /\ op'[h].ver = op[h].ver
PROOF
<1> DEFINE o == [op[h] EXCEPT !.step = s]
<1>1. op[h] \in Imports
  BY DEF TypeOK, Imports, Prepares, Snapshots
<1>2. /\ o \in Imports /\ o.kind = "import" /\ o.step = s
      /\ o.tok = op[h].tok /\ o.nat = op[h].nat /\ o.ver = op[h].ver
  BY <1>1 DEF Imports
<1>3. op' = [op EXCEPT ![h] = o]
  OBVIOUS
<1> HIDE DEF o
<1>4. QED
  BY <1>1, <1>2, <1>3, NoneAssumption DEF TypeOK

\* A prepare that goes on to its next step.
LEMMA PrepareStep ==
    ASSUME TypeOK, NEW h \in Hosts, op[h] # None, op[h].kind = "prepare",
           NEW s \in {"stop", "finish", "reply"}, op' = [op EXCEPT ![h].step = s]
    PROVE  /\ op' \in [Hosts -> Prepares \cup Snapshots \cup Imports \cup {None}]
           /\ \A g \in Hosts \ {h} : op'[g] = op[g]
           /\ op'[h] # None /\ op'[h].kind = "prepare" /\ op'[h].step = s
           /\ op'[h].tok = op[h].tok
PROOF
<1> DEFINE o == [op[h] EXCEPT !.step = s]
<1>1. op[h] \in Prepares
  BY DEF TypeOK, Imports, Prepares, Snapshots
<1>2. o \in Prepares /\ o.kind = "prepare" /\ o.step = s /\ o.tok = op[h].tok
  BY <1>1 DEF Prepares
<1>3. op' = [op EXCEPT ![h] = o]
  OBVIOUS
<1> HIDE DEF o
<1>4. op' \in [Hosts -> Prepares \cup Snapshots \cup Imports \cup {None}]
  BY <1>2, <1>3 DEF TypeOK
<1>5. op'[h] = o /\ \A g \in Hosts \ {h} : op'[g] = op[g]
  BY <1>3 DEF TypeOK
<1>6. QED
  BY <1>2, <1>4, <1>5, NoneAssumption

\* A snapshot that is sealed.
LEMMA SealedSnap ==
    ASSUME TypeOK, NEW t \in Toks, snap[t] # None, snap' = [snap EXCEPT ![t].sealed = TRUE]
    PROVE  /\ snap' \in [Toks -> Snaps \cup {None}]
           /\ \A u \in Toks \ {t} : snap'[u] = snap[u]
           /\ snap'[t] # None /\ snap'[t].ver = snap[t].ver
PROOF
<1> DEFINE n == [snap[t] EXCEPT !.sealed = TRUE]
<1>1. n \in Snaps /\ n.ver = snap[t].ver
  BY DEF TypeOK, Snaps
<1>2. snap' = [snap EXCEPT ![t] = n]
  OBVIOUS
<1> HIDE DEF n
<1>3. snap' \in [Toks -> Snaps \cup {None}]
  BY <1>1, <1>2 DEF TypeOK
<1>4. snap'[t] = n /\ \A u \in Toks \ {t} : snap'[u] = snap[u]
  BY <1>2 DEF TypeOK
<1>5. QED
  BY <1>1, <1>3, <1>4, NoneAssumption

\* A disk the guest writes to.
LEMMA WrittenDisk ==
    ASSUME TypeOK, NEW h \in Hosts, disk[h] # None, NEW v \in Vers,
           disk' = [disk EXCEPT ![h].ver = v]
    PROVE  /\ \A g \in Hosts \ {h} : disk'[g] = disk[g]
           /\ disk'[h] # None /\ disk'[h].ver = v /\ disk'[h].whole = disk[h].whole
PROOF
<1> DEFINE n == [disk[h] EXCEPT !.ver = v]
<1>1. n \in Disks /\ n.ver = v /\ n.whole = disk[h].whole
  BY DEF TypeOK, Disks
<1>2. disk' = [disk EXCEPT ![h] = n]
  OBVIOUS
<1> HIDE DEF n
<1>3. QED
  BY <1>1, <1>2, NoneAssumption DEF TypeOK

\* Every step keeps the types.
LEMMA TypeKept == TypeOK /\ IInv /\ Next => TypeOK'
PROOF
<1> SUFFICES ASSUME TypeOK, IInv, Next PROVE TypeOK'
  OBVIOUS
<1> USE MigrationAssumption DEF Ids, Toks, Vers
<1>1. ASSUME NEW h \in Hosts, Start(h) PROVE TypeOK'
  <2>1. row' \in [Hosts -> Rows \cup {None}]
    BY <1>1, ReadyRow DEF Start, TypeOK, Startable, Visible
  <2> QED
    BY <1>1, <2>1 DEF Start, TypeOK, moveVars, ghostVars
<1>2. ASSUME NEW h \in Hosts, Stop(h) PROVE TypeOK'
  <2>1. row' \in [Hosts -> Rows \cup {None}]
    BY <1>2, StateRow DEF Stop, TypeOK, Visible
  <2> QED
    BY <1>2, <2>1 DEF Stop, TypeOK, moveVars, ghostVars
<1>3. ASSUME NEW h \in Hosts, GuestWrite(h) PROVE TypeOK'
  <2>1. disk' \in [Hosts -> Disks \cup {None}]
    BY <1>3 DEF GuestWrite, TypeOK, IInv, VMInv, Claim, Settled, IdInv, Disks
  <2> QED
    BY <1>3, <2>1 DEF GuestWrite, TypeOK, moveVars
<1>4. ASSUME NEW h \in Hosts, Delete(h) PROVE TypeOK'
  <2>1. row' \in [Hosts -> Rows \cup {None}]
    BY <1>4, StateRow DEF Delete, TypeOK, MayDelete, Visible
  <2>2. disk' \in [Hosts -> Disks \cup {None}]
    BY <1>4 DEF Delete, TypeOK
  <2>3. device' \in BOOLEAN
    BY <1>4 DEF Delete, TypeOK
  <2>4. gone' \in BOOLEAN
    BY <1>4 DEF Delete, TypeOK
  <2> QED
    BY <1>4, <2>1, <2>2, <2>3, <2>4 DEF Delete, TypeOK, moveVars
<1>5. ASSUME NEW h \in Hosts, PrepareStop(h) PROVE TypeOK'
  <2>1. row' \in [Hosts -> Rows \cup {None}]
    BY <1>5, StateRow DEF PrepareStop, TypeOK, IInv, OpInv, Visible
  <2>2. op' \in [Hosts -> Prepares \cup Snapshots \cup Imports \cup {None}]
    BY <1>5, PrepareStep DEF PrepareStop
  <2> QED
    BY <1>5, <2>1, <2>2 DEF PrepareStop, TypeOK, moveVars, ghostVars
<1>6. ASSUME NEW h \in Hosts, PrepareFinish(h) PROVE TypeOK'
  <2>1. mig' \in [Ids -> Migs \cup {None}]
    BY <1>6, PhaseSet DEF PrepareFinish, TypeOK, IInv, OpInv, MigOf
  <2>2. op' \in [Hosts -> Prepares \cup Snapshots \cup Imports \cup {None}]
    BY <1>6, PrepareStep DEF PrepareFinish
  <2> QED
    BY <1>6, <2>1, <2>2 DEF PrepareFinish, TypeOK, moveVars, ghostVars
<1>7. ASSUME NEW h \in Hosts, PrepareReply(h) PROVE TypeOK'
  <2>1. op' \in [Hosts -> Prepares \cup Snapshots \cup Imports \cup {None}]
    BY <1>7 DEF PrepareReply, TypeOK
  <2>2. front' \in Fronts \cup {None}
    BY <1>7 DEF PrepareReply, TypeOK, IInv, OpInv, Visible, MigOf, Waits, Fronts, Rows,
       Migs, Prepares
  <2> QED
    BY <1>7, <2>1, <2>2 DEF PrepareReply, TypeOK, hostVars, moveVars, ghostVars
<1>8. ASSUME NEW h \in Hosts, SnapshotSeal(h) PROVE TypeOK'
  <2>1. snap' \in [Toks -> Snaps \cup {None}]
    <3>1. op[h].tok \in Toks /\ snap[op[h].tok] # None
      BY <1>8 DEF SnapshotSeal, TypeOK, IInv, OpInv, Snapshots, Prepares, Imports
    <3>2. QED
      BY <1>8, <3>1, SealedSnap DEF SnapshotSeal
  <2>2. op' \in [Hosts -> Prepares \cup Snapshots \cup Imports \cup {None}]
    BY <1>8 DEF SnapshotSeal, TypeOK
  <2>3. front' \in Fronts \cup {None}
    BY <1>8 DEF SnapshotSeal, TypeOK, Waits, Fronts
  <2> QED
    BY <1>8, <2>1, <2>2, <2>3 DEF SnapshotSeal, TypeOK, hostVars, ghostVars
<1>9. ASSUME NEW h \in Hosts, ImportMkdir(h) PROVE TypeOK'
  <2>1. row' \in [Hosts -> Rows \cup {None}]
    BY <1>9 DEF ImportMkdir, TypeOK, Rows
  <2>2. disk' \in [Hosts -> Disks \cup {None}]
    BY <1>9 DEF ImportMkdir, TypeOK, Disks
  <2>3. op' \in [Hosts -> Prepares \cup Snapshots \cup Imports \cup {None}]
    BY <1>9, ImportStep DEF ImportMkdir
  <2> QED
    BY <1>9, <2>1, <2>2, <2>3 DEF ImportMkdir, TypeOK, moveVars, ghostVars
<1>10. ASSUME NEW h \in Hosts, ImportReserve(h) PROVE TypeOK'
  <2>1. rcpt' \in [Ids -> Rcpts \cup {None}]
    BY <1>10 DEF ImportReserve, TypeOK, Rcpts, Imports, Prepares, Snapshots
  <2>0. insts + 1 \in Ids
    BY <1>10 DEF ImportReserve, TypeOK, IInv, ImportInv, Importing
  <2>2. row' \in [Hosts -> Rows \cup {None}]
    BY <1>10, <2>0 DEF ImportReserve, TypeOK, Rows
  <2>3. insts' \in Ids
    BY <1>10, MigrationAssumption DEF ImportReserve, TypeOK, IInv, ImportInv, Importing
  <2>4. op' \in [Hosts -> Prepares \cup Snapshots \cup Imports \cup {None}]
    BY <1>10, ImportStep DEF ImportReserve
  <2> QED
    BY <1>10, <2>1, <2>2, <2>3, <2>4 DEF ImportReserve, TypeOK, moveVars, ghostVars
<1>11. ASSUME NEW h \in Hosts, ImportPublish(h) PROVE TypeOK'
  <2>1. disk' \in [Hosts -> Disks \cup {None}]
    BY <1>11 DEF ImportPublish, TypeOK, Received, Disks, Imports, Prepares, Snapshots
  <2>2. op' \in [Hosts -> Prepares \cup Snapshots \cup Imports \cup {None}]
    BY <1>11, ImportStep DEF ImportPublish
  <2> QED
    BY <1>11, <2>1, <2>2 DEF ImportPublish, TypeOK, moveVars, ghostVars
<1>12. ASSUME NEW h \in Hosts, ImportFinalize(h) PROVE TypeOK'
  <2>1. row' \in [Hosts -> Rows \cup {None}]
    BY <1>12, StateRow DEF ImportFinalize, TypeOK, IInv, ImportInv, Importing, Visible
  <2>2. rcpt' \in [Ids -> Rcpts \cup {None}]
    <3>1. row[h].id \in Ids /\ rcpt[row[h].id] \in Rcpts
      BY <1>12 DEF ImportFinalize, TypeOK, IInv, ImportInv, Importing, Visible, RcptOf, Rows
    <3>2. [rcpt[row[h].id] EXCEPT !.phase = "imported"] \in Rcpts
      BY <3>1 DEF Rcpts
    <3>3. QED
      BY <1>12, <3>1, <3>2 DEF ImportFinalize, TypeOK
  <2>3. op' \in [Hosts -> Prepares \cup Snapshots \cup Imports \cup {None}]
    BY <1>12, ImportStep DEF ImportFinalize
  <2> QED
    BY <1>12, <2>1, <2>2, <2>3 DEF ImportFinalize, TypeOK, moveVars, ghostVars
<1>13. ASSUME NEW h \in Hosts, ImportDiscard(h) PROVE TypeOK'
  <2>1. store' \in [Hosts -> [Toks -> Vers \cup {None, Removed}]]
    BY <1>13 DEF ImportDiscard, TypeOK
  <2>2. op' \in [Hosts -> Prepares \cup Snapshots \cup Imports \cup {None}]
    BY <1>13 DEF ImportDiscard, TypeOK
  <2>3. front' \in Fronts \cup {None}
    BY <1>13 DEF ImportDiscard, TypeOK, Waits, Fronts
  <2> QED
    BY <1>13, <2>1, <2>2, <2>3 DEF ImportDiscard, TypeOK, hostVars, ghostVars
<1>14. ASSUME NEW h \in Hosts, NEW d \in Hosts, FrontBegin(h, d) PROVE TypeOK'
  <2>1. front' \in Fronts \cup {None}
    BY <1>14 DEF FrontBegin, TypeOK, Fronts
  <2> QED
    BY <1>14, <2>1 DEF FrontBegin, TypeOK, hostVars, moveVars, ghostVars
<1>15. ASSUME FrontBase PROVE TypeOK'
  <2>1. front' \in Fronts \cup {None}
    BY <1>15 DEF FrontBase, TypeOK, Fronts
  <2> QED
    BY <1>15, <2>1 DEF FrontBase, TypeOK, hostVars, ghostVars, Fronts
<1>16. ASSUME FrontSend PROVE TypeOK'
  <2>1. store' \in [Hosts -> [Toks -> Vers \cup {None, Removed}]]
    BY <1>16 DEF FrontSend, TypeOK, TransferAccepts, Fronts, Snaps
  <2>2. front' \in Fronts \cup {None}
    BY <1>16 DEF FrontSend, TypeOK, Fronts
  <2> QED
    BY <1>16, <2>1, <2>2 DEF FrontSend, TypeOK, hostVars, ghostVars
<1>17. ASSUME FrontImport PROVE TypeOK'
  <2>1. op' \in [Hosts -> Prepares \cup Snapshots \cup Imports \cup {None}]
    BY <1>17 DEF FrontImport, TypeOK, ImportOp, SourcePrepared, InPhase, Visible, Imports,
       Fronts, Rows
  <2>2. front' \in Fronts \cup {None}
    BY <1>17 DEF FrontImport, TypeOK, Fronts
  <2> QED
    BY <1>17, <2>1, <2>2 DEF FrontImport, TypeOK, hostVars, moveVars, ghostVars
<1>18. ASSUME FrontReceipt PROVE TypeOK'
  <2>1. front' \in Fronts \cup {None}
    BY <1>18 DEF FrontReceipt, TypeOK, Fronts
  <2> QED
    BY <1>18, <2>1 DEF FrontReceipt, TypeOK, hostVars, moveVars, ghostVars
<1>19. ASSUME FrontComplete PROVE TypeOK'
  <2>1. mig' \in [Ids -> Migs \cup {None}]
    BY <1>19, PhaseSet DEF FrontComplete, SetPhase, CompleteAccepts, InPhase, TypeOK,
       Visible, MigOf, Rows, Fronts
  <2>2. front' \in Fronts \cup {None}
    BY <1>19 DEF FrontComplete, TypeOK, Fronts
  <2> QED
    BY <1>19, <2>1, <2>2 DEF FrontComplete, TypeOK, moveVars, ghostVars
<1>20. ASSUME FrontCleanup PROVE TypeOK'
  <2>1. snap' \in [Toks -> Snaps \cup {None}]
    BY <1>20 DEF FrontCleanup, TypeOK
  <2>2. front' \in Fronts \cup {None}
    BY <1>20 DEF FrontCleanup, TypeOK, Fronts
  <2> QED
    BY <1>20, <2>1, <2>2 DEF FrontCleanup, TypeOK, hostVars, ghostVars
<1>21. ASSUME FrontStart PROVE TypeOK'
  <2>1. row' \in [Hosts -> Rows \cup {None}]
    BY <1>21, ReadyRow DEF FrontStart, TypeOK, Startable, Visible
  <2>2. front' \in Fronts \cup {None}
    BY <1>21 DEF FrontStart, TypeOK
  <2> QED
    BY <1>21, <2>1, <2>2 DEF FrontStart, TypeOK, moveVars, ghostVars
<1>22. ASSUME FrontRefused PROVE TypeOK'
  <2>1. front' \in Fronts \cup {None}
    BY <1>22 DEF FrontRefused, TypeOK
  <2> QED
    BY <1>22, <2>1 DEF FrontRefused, TypeOK, hostVars, moveVars, ghostVars
<1>23. ASSUME FrontLost PROVE TypeOK'
  <2>1. front' \in Fronts \cup {None}
    BY <1>23 DEF FrontLost, TypeOK
  <2> QED
    BY <1>23, <2>1 DEF FrontLost, TypeOK, hostVars, moveVars, ghostVars
<1>24. ASSUME NEW h \in Hosts, Crash(h) PROVE TypeOK'
  <2>1. op' \in [Hosts -> Prepares \cup Snapshots \cup Imports \cup {None}]
    BY <1>24 DEF Crash, TypeOK
  <2> QED
    BY <1>24, <2>1 DEF Crash, TypeOK, hostVars, moveVars, ghostVars
<1>25. ASSUME NEW h \in Hosts, PrepareFails(h) PROVE TypeOK'
  <2>1. op' \in [Hosts -> Prepares \cup Snapshots \cup Imports \cup {None}]
    BY <1>25 DEF PrepareFails, TypeOK
  <2> QED
    BY <1>25, <2>1 DEF PrepareFails, TypeOK, hostVars, moveVars, ghostVars
<1>26. ASSUME NEW h \in Hosts, Restore(h) PROVE TypeOK'
  <2> QED
    BY <1>26 DEF Restore, TypeOK, hostVars, moveVars, ghostVars
<1>27. ASSUME NEW h \in Hosts, OperatorComplete(h) PROVE TypeOK'
  <2>1. mig' \in [Ids -> Migs \cup {None}]
    BY <1>27, PhaseSet DEF OperatorComplete, SetPhase, CompleteAccepts, InPhase, TypeOK,
       MigOf
  <2> QED
    BY <1>27, <2>1 DEF OperatorComplete, TypeOK, moveVars, ghostVars
<1>28. ASSUME NEW h \in Hosts, OperatorExport(h) PROVE TypeOK'
  <2>1. art' \in Arts \cup {None}
    BY <1>28 DEF OperatorExport, TypeOK, Active, Visible, SourcePrepared, MigOf, Arts, Migs,
       Rows, Disks
  <2> QED
    BY <1>28, <2>1 DEF OperatorExport, TypeOK, hostVars, ghostVars
<1>29. ASSUME NEW h \in Hosts, OperatorImport(h) PROVE TypeOK'
  <2>1. op' \in [Hosts -> Prepares \cup Snapshots \cup Imports \cup {None}]
    BY <1>29 DEF OperatorImport, TypeOK, ImportOp, Imports, Arts
  <2> QED
    BY <1>29, <2>1 DEF OperatorImport, TypeOK, hostVars, moveVars, ghostVars
<1>30. ASSUME NEW h \in Hosts, OperatorClears(h) PROVE TypeOK'
  <2>1. row' \in [Hosts -> Rows \cup {None}]
    <3>1. MigOf(h).target \in Hosts
      BY <1>30 DEF OperatorClears, TypeOK, Active, Visible, MigOf, Migs, Rows
    <3>2. CASE row[MigOf(h).target] = None
      BY <1>30, <3>2 DEF OperatorClears, TypeOK
    <3>3. CASE row[MigOf(h).target] # None
      BY <1>30, <3>1, <3>3, StateRow DEF OperatorClears, TypeOK
    <3>4. QED
      BY <3>2, <3>3
  <2>2. disk' \in [Hosts -> Disks \cup {None}]
    BY <1>30 DEF OperatorClears, TypeOK
  <2>3. device' \in BOOLEAN
    BY <1>30 DEF OperatorClears, TypeOK
  <2> QED
    BY <1>30, <2>1, <2>2, <2>3 DEF OperatorClears, TypeOK, moveVars
<1>31. ASSUME NEW h \in Hosts, OperatorDiscards(h) PROVE TypeOK'
  <2>1. store' \in [Hosts -> [Toks -> Vers \cup {None, Removed}]]
    BY <1>31 DEF OperatorDiscards, TypeOK
  <2>2. art' \in Arts \cup {None}
    BY <1>31 DEF OperatorDiscards, TypeOK
  <2> QED
    BY <1>31, <2>1, <2>2 DEF OperatorDiscards, TypeOK, hostVars, ghostVars
<1>32. ASSUME NEW h \in Hosts, OperatorAborts(h) PROVE TypeOK'
  <2>1. mig' \in [Ids -> Migs \cup {None}]
    BY <1>32, PhaseSet DEF OperatorAborts, SetPhase, AbortAccepts, InPhase, TypeOK, MigOf
  <2> QED
    BY <1>32, <2>1 DEF OperatorAborts, TypeOK, moveVars, ghostVars
<1>33. ASSUME FrontPrepare PROVE TypeOK'
  <2>1. op' \in [Hosts -> Prepares \cup Snapshots \cup Imports \cup {None}]
    BY <1>33 DEF FrontPrepare, TypeOK, Prepare, Prepares, Fronts
  <2>2. mig' \in [Ids -> Migs \cup {None}]
    <3>1. front.src \in Hosts /\ front.tok \in Toks /\ front.dst \in Hosts
      BY <1>33 DEF FrontPrepare, TypeOK, Fronts
    <3>2. row[front.src] \in Rows
      BY <1>33, <3>1 DEF FrontPrepare, Prepare, PrepareAccepts, Visible, TypeOK
    <3>3. QED
      BY <1>33, <3>1, <3>2 DEF FrontPrepare, Prepare, TypeOK, Migs
  <2>3. front' \in Fronts \cup {None}
    BY <1>33 DEF FrontPrepare, TypeOK, Fronts
  <2> QED
    BY <1>33, <2>1, <2>2, <2>3 DEF FrontPrepare, Prepare, TypeOK, moveVars, ghostVars
<1>34. ASSUME NEW h \in Hosts, OperatorPrepare(h) PROVE TypeOK'
  <2>1. op' \in [Hosts -> Prepares \cup Snapshots \cup Imports \cup {None}]
    BY <1>34 DEF OperatorPrepare, TypeOK, Prepare, Active, Visible, MigOf, Prepares, Rows,
       Migs
  <2>2. mig' \in [Ids -> Migs \cup {None}]
    BY <1>34 DEF OperatorPrepare, TypeOK, Prepare, Active, InPhase
  <2> QED
    BY <1>34, <2>1, <2>2 DEF OperatorPrepare, Prepare, TypeOK, moveVars, ghostVars
<1>35. ASSUME FrontSnapshot PROVE TypeOK'
  <2>1. snap' \in [Toks -> Snaps \cup {None}]
    BY <1>35 DEF FrontSnapshot, TypeOK, Snapshot, SnapshotAccepts, SourcePrepared, InPhase,
       Visible, Snaps, Disks, Rows, Fronts
  <2>2. op' \in [Hosts -> Prepares \cup Snapshots \cup Imports \cup {None}]
    BY <1>35 DEF FrontSnapshot, TypeOK, Snapshot, Snapshots, Fronts
  <2>3. front' \in Fronts \cup {None}
    BY <1>35 DEF FrontSnapshot, TypeOK, Fronts
  <2> QED
    BY <1>35, <2>1, <2>2, <2>3 DEF FrontSnapshot, Snapshot, TypeOK, hostVars, ghostVars
<1>36. ASSUME NEW h \in Hosts, ImportFailure(h) PROVE TypeOK'
  <2>1. row' \in [Hosts -> Rows \cup {None}]
    BY <1>36 DEF ImportFailure, TypeOK, ImportFails
  <2>2. disk' \in [Hosts -> Disks \cup {None}]
    BY <1>36 DEF ImportFailure, TypeOK, ImportFails
  <2>3. op' \in [Hosts -> Prepares \cup Snapshots \cup Imports \cup {None}]
    BY <1>36 DEF ImportFailure, TypeOK, ImportFails
  <2>4. front' \in Fronts \cup {None}
    BY <1>36 DEF ImportFailure, TypeOK, ImportFails
  <2> QED
    BY <1>36, <2>1, <2>2, <2>3, <2>4 DEF ImportFailure, ImportFails, TypeOK, moveVars,
       ghostVars
<1>37. ASSUME NEW h \in Hosts, ImportRefused(h) PROVE TypeOK'
  <2>1. row' \in [Hosts -> Rows \cup {None}]
    BY <1>37 DEF ImportRefused, TypeOK, ImportFails
  <2>2. disk' \in [Hosts -> Disks \cup {None}]
    BY <1>37 DEF ImportRefused, TypeOK, ImportFails
  <2>3. op' \in [Hosts -> Prepares \cup Snapshots \cup Imports \cup {None}]
    BY <1>37 DEF ImportRefused, TypeOK, ImportFails
  <2>4. front' \in Fronts \cup {None}
    BY <1>37 DEF ImportRefused, TypeOK, ImportFails
  <2> QED
    BY <1>37, <2>1, <2>2, <2>3, <2>4 DEF ImportRefused, ImportFails, TypeOK, moveVars,
       ghostVars
<1>38. QED
  BY <1>1, <1>2, <1>3, <1>4, <1>5, <1>6, <1>7, <1>8, <1>9, <1>10, <1>11, <1>12, <1>13,
     <1>14, <1>15, <1>16, <1>17, <1>18, <1>19, <1>20, <1>21, <1>22, <1>23, <1>24, <1>25,
     <1>26, <1>27, <1>28, <1>29, <1>30, <1>31, <1>32, <1>33, <1>34, <1>35, <1>36, <1>37,
     Zenon DEF Next, HostSteps, Operator, FrontSteps

-----------------------------------------------------------------------------
(* Steps that change no record, disk or object the invariant speaks of *)

\* Rows keep their incarnation, commands end at most, objects are at most fenced,
\* and a frontend goes on with its source and token.
FrameStep ==
    /\ SameRows
    /\ UNCHANGED <<disk, tokens, ver, device, gone>>
    /\ \A h \in vm' : h \in vm \/ (Startable(h) /\ op[h] = None)
    /\ \A h \in Hosts : op'[h] \in {op[h], None}
    /\ \A t \in Toks : /\ snap'[t] = None <=> snap[t] = None
                       /\ snap[t] # None => snap'[t].ver = snap[t].ver
    /\ \A h \in Hosts, t \in Toks : store'[h][t] \in {store[h][t], Removed}
    /\ art' \in {art, None}
    /\ front' # None =>
          /\ front # None /\ front'.src = front.src /\ front'.tok = front.tok
          /\ front'.step = "prepare" => front.step = "prepare"
          /\ front'.step \in Early => front.step \in Early
          /\ front'.step = "complete" => front.step = "complete"

\* Such a step keeps the invariant.
LEMMA FrameKeeps ==
    ASSUME TypeOK, TypeOK', IInv, FrameStep
    PROVE  IInv'
PROOF
<1> USE DEF FrameStep
<1>1. SameSettled
  BY RowsView
<1>2. \A h \in Hosts : /\ Importing(h)' => Importing(h) /\ op'[h] = op[h]
                       /\ Current(h) <=> Current(h)'
  BY DEF Importing, Current
<1>3. IdInv'
  BY IdKept DEF IInv, IdInv
<1>4. ChainInv' /\ VMInv'
  BY <1>1, ChainKept, VMKept DEF IInv, TypeOK
<1>5. OpInv'
  <2>1. \A h \in Hosts : op[h] # None => op[h].tok \in Toks
    BY DEF TypeOK, Prepares, Imports, Snapshots
  <2>2. QED
    BY <2>1, OpKept DEF IInv
<1>6. ImportInv'
  BY <1>2, ImportKept DEF IInv
<1>7. TokInv'
  <2>1. \A t \in Toks : (Unused(t) => Unused(t)') /\ (NoObject(t) => NoObject(t)')
    BY DEF SameRows, Unused, NoObject
  <2>2. QED
    BY <2>1, TokKept DEF IInv, TokInv, SameRows
<1>8. FrontInv'
  BY <1>1, <1>2, <1>3, FrontKept DEF IInv
<1>9. HeadInv'
  BY <1>1, <1>2, HeadKept DEF IInv, HeadInv
<1>10. QED
  BY <1>3, <1>4, <1>5, <1>6, <1>7, <1>8, <1>9 DEF IInv

\* A start adds a VM where the row may start.
LEMMA StartFrame ==
    ASSUME TypeOK, NEW h \in Hosts, Start(h)
    PROVE  FrameStep
PROOF
<1>1. row[h] # None /\ Visible(h)
  BY DEF Start, Startable, Visible
<1>2. SameRows
  BY <1>1, ReadyRow DEF Start, SameRows, Visible, TypeOK
<1>3. QED
  BY <1>2 DEF Start, FrameStep, moveVars, ghostVars

\* So does the start at the end of a migration.
LEMMA FrontStartFrame ==
    ASSUME TypeOK, FrontStart
    PROVE  FrameStep
PROOF
<1>1. PICK d \in Hosts : d = front.dst
  BY DEF FrontStart, TypeOK, Fronts
<1>2. row[d] # None /\ Visible(d)
  BY <1>1 DEF FrontStart, Startable, Visible
<1>3. SameRows
  BY <1>1, <1>2, ReadyRow DEF FrontStart, SameRows, Visible, TypeOK
<1>4. QED
  BY <1>3 DEF FrontStart, FrameStep, moveVars, ghostVars

\* So does the restart after a reboot.
LEMMA RestoreFrame ==
    ASSUME NEW h \in Hosts, Restore(h)
    PROVE  FrameStep
PROOF
  BY DEF Restore, FrameStep, SameRows, Visible, hostVars, moveVars, ghostVars

\* A stop leaves the incarnation and its disk.
LEMMA StopFrame ==
    ASSUME TypeOK, NEW h \in Hosts, Stop(h)
    PROVE  FrameStep
PROOF
<1>1. SameRows
  BY StateRow DEF Stop, SameRows, Visible, TypeOK
<1>2. QED
  BY <1>1 DEF Stop, FrameStep, moveVars, ghostVars

\* A crash takes the command and the VM of a host, a prepare that fails its command.
LEMMA FaultFrame ==
    ASSUME TypeOK, NEW h \in Hosts, Crash(h) \/ PrepareFails(h)
    PROVE  FrameStep
PROOF
<1>1. SameRows /\ \A g \in Hosts : op'[g] \in {op[g], None}
  BY DEF Crash, PrepareFails, SameRows, Visible, TypeOK, hostVars
<1>2. vm' \subseteq vm
  BY DEF Crash, PrepareFails
<1>3. QED
  BY <1>1, <1>2 DEF Crash, PrepareFails, FrameStep, hostVars, moveVars, ghostVars

\* A frontend that is refused, or lost, leaves everything where it is.
LEMMA FrontEndsFrame ==
    ASSUME FrontRefused \/ FrontLost
    PROVE  FrameStep
PROOF
  BY DEF FrontRefused, FrontLost, FrameStep, SameRows, Visible, hostVars, moveVars,
     ghostVars

\* The shared base holds no write of the guest.
LEMMA FrontBaseFrame ==
    ASSUME TypeOK, FrontBase
    PROVE  FrameStep
PROOF
<1>1. SameRows
  BY DEF FrontBase, SameRows, Visible, hostVars
<1>2. /\ front # None /\ front.step = "base" /\ front'.step = "send"
      /\ front'.src = front.src /\ front'.tok = front.tok
  BY DEF FrontBase, TypeOK, Fronts
<1>3. QED
  BY <1>1, <1>2 DEF FrontBase, FrameStep, Early, hostVars, ghostVars

\* A reply only tells the frontend what was prepared.
LEMMA PrepareReplyFrame ==
    ASSUME TypeOK, NEW h \in Hosts, PrepareReply(h)
    PROVE  FrameStep
PROOF
<1>1. SameRows /\ \A g \in Hosts : op'[g] \in {op[g], None}
  BY DEF PrepareReply, SameRows, Visible, hostVars
<1>2. \/ front' = front
      \/ /\ front # None /\ front.step = "preparing" /\ front'.step = "snapshot"
         /\ front'.src = front.src /\ front'.tok = front.tok
  BY DEF PrepareReply, Waits, TypeOK, Fronts
<1>3. QED
  BY <1>1, <1>2 DEF PrepareReply, FrameStep, Early, hostVars, moveVars, ghostVars

\* A sealed snapshot has the writes it had.
LEMMA SnapshotSealFrame ==
    ASSUME TypeOK, IInv, NEW h \in Hosts, SnapshotSeal(h)
    PROVE  FrameStep
PROOF
<1>1. SameRows /\ \A g \in Hosts : op'[g] \in {op[g], None}
  BY DEF SnapshotSeal, SameRows, Visible, hostVars
<1>2. op[h].tok \in Toks /\ snap[op[h].tok] # None
  BY DEF SnapshotSeal, TypeOK, Snapshots, Prepares, Imports, IInv, OpInv
<1>3. \A t \in Toks : /\ snap'[t] = None <=> snap[t] = None
                      /\ snap[t] # None => snap'[t].ver = snap[t].ver
  BY <1>2, SealedSnap DEF SnapshotSeal
<1>4. \/ front' = front
      \/ /\ front # None /\ front.step = "snapshotting" /\ front'.step = "base"
         /\ front'.src = front.src /\ front'.tok = front.tok
  BY DEF SnapshotSeal, Waits, TypeOK, Fronts
<1>5. QED
  BY <1>1, <1>3, <1>4 DEF SnapshotSeal, FrameStep, Early, hostVars, ghostVars

\* An import gives up its object after its commit.
LEMMA ImportDiscardFrame ==
    ASSUME TypeOK, NEW h \in Hosts, ImportDiscard(h)
    PROVE  FrameStep
PROOF
<1>1. SameRows /\ \A g \in Hosts : op'[g] \in {op[g], None}
  BY DEF ImportDiscard, SameRows, Visible, hostVars
<1>2. \A g \in Hosts, t \in Toks : store'[g][t] \in {store[g][t], Removed}
  BY DEF ImportDiscard, TypeOK
<1>3. \/ front' = front
      \/ /\ front # None /\ front'.step = "receipt"
         /\ front'.src = front.src /\ front'.tok = front.tok
  BY DEF ImportDiscard, Waits, TypeOK, Fronts
<1>4. QED
  BY <1>1, <1>2, <1>3 DEF ImportDiscard, FrameStep, Early, hostVars, ghostVars

\* A fenced object can only be missing, never stale.
LEMMA OperatorDiscardsFrame ==
    ASSUME TypeOK, NEW h \in Hosts, OperatorDiscards(h)
    PROVE  FrameStep
PROOF
<1>1. SameRows
  BY DEF OperatorDiscards, SameRows, Visible, hostVars
<1>2. \A g \in Hosts, t \in Toks : store'[g][t] \in {store[g][t], Removed}
  BY DEF OperatorDiscards, TypeOK
<1>3. QED
  BY <1>1, <1>2 DEF OperatorDiscards, FrameStep, hostVars, ghostVars

-----------------------------------------------------------------------------
(* Steps that leave the rows alone *)

LEMMA PrepareStopKeeps ==
    ASSUME TypeOK, TypeOK', IInv, NEW h \in Hosts, PrepareStop(h)
    PROVE  IInv'
PROOF
<1> USE DEF PrepareStop, hostVars, moveVars, ghostVars
<1>1. SameRows
  <2>1. row[h] # None /\ Visible(h)
    BY DEF Visible, IInv, OpInv
  <2>2. QED
    BY <2>1, StateRow DEF SameRows, Visible, TypeOK
<1> USE <1>1
<1>0. SameSettled
  BY RowsView
<1>2. IdInv'
  BY IdKept DEF IInv, IdInv
<1>3. ChainInv'
  BY <1>0, ChainKept DEF IInv
<1>4. VMInv'
  BY <1>0, VMKept DEF IInv, TypeOK
<1>5. OpInv'
  BY PrepareStep, SameView DEF IInv, OpInv
<1>6. ImportInv'
  BY ImportKept DEF IInv, TypeOK, Importing
<1>7. TokInv'
  BY TokKept DEF IInv, TokInv, Unused, NoObject
<1>8. FrontInv'
  BY <1>0, <1>2, FrontKept DEF IInv, Importing
<1>9. HeadInv'
  BY <1>0, HeadKept DEF IInv, TypeOK, Importing, Current, Imports, Prepares, Snapshots,
     HeadInv
<1>10. QED
  BY <1>2, <1>3, <1>4, <1>5, <1>6, <1>7, <1>8, <1>9 DEF IInv

LEMMA GuestWriteKeeps ==
    ASSUME TypeOK, TypeOK', IInv, NEW h \in Hosts, GuestWrite(h)
    PROVE  IInv'
PROOF
<1> USE DEF GuestWrite, hostVars, moveVars, ghostVars
<1>1. SameRows
  BY DEF SameRows, Visible
<1> USE <1>1
<1>0. SameSettled
  BY RowsView
<1>2. IdInv'
  <2>1. disk[h] # None /\ ver + 1 \in Vers
    BY MigrationAssumption DEF IInv, IdInv, VMInv, Claim, Settled, TypeOK
  <2>2. \A g \in Hosts : disk[g] # None => disk'[g] # None
    BY <2>1, WrittenDisk
  <2>3. QED
    BY <2>2, IdKept DEF IInv, IdInv
<1>3. ChainInv'
  BY <1>0, ChainKept DEF IInv
<1>4. VMInv'
  BY <1>0, VMKept DEF IInv, TypeOK
<1>5. OpInv'
  BY OpKept DEF IInv, TypeOK, Prepares, Imports, Snapshots
<1>6. ImportInv'
  <2>1. disk[h] # None /\ ver + 1 \in Vers
    BY MigrationAssumption DEF IInv, IdInv, VMInv, Claim, Settled, TypeOK
  <2>2. \A g \in Hosts : disk[g] # None => disk'[g] # None
    BY <2>1, WrittenDisk
  <2>3. QED
    BY <2>2, ImportKept DEF IInv, Importing
<1>7. TokInv'
  BY TokKept DEF IInv, TokInv, Unused, NoObject
<1>8. FrontInv'
  BY <1>0, <1>2, FrontKept DEF IInv, Importing
<1>9. HeadInv'
  <2>1. h \in Hosts /\ Claim(h) /\ Phase(h) # "prepared"
    BY DEF IInv, VMInv, TypeOK
  <2>2. Head(h) /\ \A g \in Hosts : ~Importing(g)
    BY <2>1, LiveIsHead DEF IInv
  <2>3. \A g \in Hosts : Head(g) => g = h
    BY <2>2, HeadUnique
  <2>4. \A g \in Hosts : ~Importing(g)'
    BY <2>2 DEF Importing
  <2>5. Settled(h) /\ Phase(h)' = Phase(h)
    BY <1>0, <2>1, SettledView DEF Claim
  <2>6. Current(h) => Current(h)'
    <3>1. disk[h] # None /\ ver + 1 \in Vers
      BY <2>5, MigrationAssumption DEF IInv, IdInv, Settled, TypeOK
    <3>2. QED
      BY <3>1, WrittenDisk DEF Current
  <2>7. QED
    BY <1>0, <2>1, <2>2, <2>3, <2>4, <2>5, <2>6, SettledView DEF IInv, HeadInv
<1>10. QED
  BY <1>2, <1>3, <1>4, <1>5, <1>6, <1>7, <1>8, <1>9 DEF IInv

LEMMA FrontSnapshotKeeps ==
    ASSUME TypeOK, TypeOK', IInv, FrontSnapshot
    PROVE  IInv'
PROOF
<1> USE DEF FrontSnapshot, Snapshot, SnapshotAccepts, SourcePrepared, hostVars, moveVars, ghostVars
<1>1. SameRows
  BY DEF SameRows, Visible
<1> USE <1>1
<1>0. SameSettled
  BY RowsView
<1>2. IdInv'
  BY IdKept DEF IInv, IdInv
<1>3. ChainInv'
  BY <1>0, ChainKept DEF IInv
<1>4. VMInv'
  BY <1>0, VMKept DEF IInv, TypeOK
<1>5. OpInv'
  <2>1. front.src \in Hosts /\ front.tok \in Toks
    BY DEF TypeOK, Fronts
  <2>2. /\ op'[front.src].kind = "snapshot" /\ op'[front.src].tok = front.tok
        /\ \A g \in Hosts \ {front.src} : op'[g] = op[g]
    BY <2>1 DEF TypeOK
  <2>3. /\ snap'[front.tok] # None
        /\ \A t \in Toks : snap[t] # None => snap'[t] # None
    <3>1. row[front.src] \in Rows /\ disk[front.src] \in Disks
      BY <2>1 DEF InPhase, Visible, TypeOK
    <3>2. [inst |-> row[front.src].id, ver |-> disk[front.src].ver, sealed |-> FALSE] \in Snaps
      BY <3>1 DEF Rows, Disks, Snaps
    <3>3. QED
      BY <2>1, <3>2, NoneAssumption DEF TypeOK
  <2>4. Visible(front.src) /\ MigOf(front.src) # None /\ MigOf(front.src).tok = front.tok
    BY DEF InPhase
  <2>5. \A g \in Hosts : op[g] # None => op[g].tok \in Toks
    BY DEF TypeOK, Prepares, Snapshots, Imports
  <2>6. QED
    BY <2>1, <2>2, <2>3, <2>4, <2>5, SameView DEF IInv, OpInv
<1>6. ImportInv'
  BY ImportKept DEF IInv, TypeOK, Importing
<1>7. TokInv'
  <2>1. front.src \in Hosts /\ front.tok \in Toks
    BY DEF TypeOK, Fronts
  <2>2. /\ MigOf(front.src) # None /\ MigOf(front.src).tok = front.tok
        /\ MigOf(front.src).phase = "prepared"
        /\ MigOf(front.src) = mig[row[front.src].id] /\ row[front.src].id \in Ids
    BY <2>1 DEF InPhase, MigOf, TypeOK, Visible, Rows
  <2>3. \A t \in Toks : Unused(t) => Unused(t)'
    BY <2>1, <2>2 DEF Unused, TypeOK
  <2>4. \A t \in Toks \ {front.tok} : NoObject(t) => NoObject(t)'
    BY <2>1 DEF NoObject, TypeOK
  <2>5. QED
    BY <2>1, <2>2, <2>3, <2>4, TokKept DEF IInv, TokInv, TypeOK, Fronts
<1>8. FrontInv'
  BY <1>0, <1>2, FrontKept DEF IInv, Importing, Early
<1>9. HeadInv'
  <2>1. front.src \in Hosts /\ front.tok \in Toks
    BY DEF TypeOK, Fronts
  <2>2. Head(front.src) /\ \A g \in Hosts : ~Importing(g)
    BY <2>1 DEF IInv, FrontInv, InPhase
  <2>3. Phase(front.src) = "prepared" /\ MigOf(front.src).tok = front.tok
    BY DEF InPhase, Phase
  <2>4. \A g \in Hosts : Head(g) => g = front.src
    BY <2>1, <2>2, HeadUnique
  <2>5. snap'[front.tok].ver \in {disk[front.src].ver, snap[front.tok].ver}
        /\ (snap[front.tok] # None => snap'[front.tok] = snap[front.tok])
        /\ (snap[front.tok] = None => snap'[front.tok].ver = disk[front.src].ver)
    BY <2>1 DEF TypeOK
  <2>6. \A g \in Hosts : ~Importing(g)' /\ (Current(g) => Current(g)')
    BY <2>1, <2>2 DEF Importing, Current, TypeOK
  <2>7. Settled(front.src)
    BY <2>2 DEF Head, Claim
  <2>8. ~gone => disk[front.src].ver = ver
    BY <2>1, <2>2 DEF IInv, HeadInv, Current
  <2>9. QED
    BY <1>0, <2>1, <2>2, <2>3, <2>4, <2>5, <2>6, <2>7, <2>8, SettledView DEF IInv, HeadInv
<1>10. QED
  BY <1>2, <1>3, <1>4, <1>5, <1>6, <1>7, <1>8, <1>9 DEF IInv

LEMMA FrontSendKeeps ==
    ASSUME TypeOK, TypeOK', IInv, FrontSend
    PROVE  IInv'
PROOF
<1> USE DEF FrontSend, TransferAccepts, SourcePrepared, hostVars, moveVars, ghostVars
<1>1. SameRows
  BY DEF SameRows, Visible
<1> USE <1>1
<1>0. SameSettled
  BY RowsView
<1>2. IdInv'
  BY IdKept DEF IInv, IdInv
<1>3. ChainInv'
  BY <1>0, ChainKept DEF IInv
<1>4. VMInv'
  BY <1>0, VMKept DEF IInv, TypeOK
<1>5. OpInv'
  BY OpKept DEF IInv, TypeOK, Prepares, Imports, Snapshots
<1>6. ImportInv'
  BY ImportKept DEF IInv, TypeOK, Importing
<1>7. TokInv'
  BY TokKept DEF IInv, TokInv, Unused, NoObject
<1>8. FrontInv'
  BY <1>0, <1>2, FrontKept DEF IInv, Importing, Early
<1>9. HeadInv'
  <2>1. front.src \in Hosts /\ front.dst \in Hosts /\ front.tok \in Toks
    BY DEF TypeOK, Fronts
  <2>2. Head(front.src) /\ \A g \in Hosts : ~Importing(g)
    BY <2>1 DEF IInv, FrontInv, InPhase
  <2>3. Phase(front.src) = "prepared" /\ MigOf(front.src).tok = front.tok
    BY DEF InPhase, Phase
  <2>4. \A g \in Hosts : Head(g) => g = front.src
    BY <2>1, <2>2, HeadUnique
  <2>5. ~gone => snap[front.tok].ver = ver
    BY <2>1, <2>2, <2>3 DEF IInv, HeadInv
  <2>6. \A g \in Hosts : store'[g][front.tok] \in {store[g][front.tok], snap[front.tok].ver}
    BY <2>1 DEF TypeOK
  <2>7. \A g \in Hosts : ~Importing(g)' /\ (Current(g) => Current(g)')
    BY <2>2 DEF Importing, Current
  <2>8. Settled(front.src)
    BY <2>2 DEF Head, Claim
  <2>9. QED
    BY <1>0, <2>1, <2>2, <2>3, <2>4, <2>5, <2>6, <2>7, <2>8, SettledView DEF IInv, HeadInv
<1>10. QED
  BY <1>2, <1>3, <1>4, <1>5, <1>6, <1>7, <1>8, <1>9 DEF IInv

LEMMA FrontImportKeeps ==
    ASSUME TypeOK, TypeOK', IInv, FrontImport
    PROVE  IInv'
PROOF
<1> USE DEF FrontImport, SourcePrepared, ImportOp, hostVars, moveVars, ghostVars
<1>1. SameRows
  BY DEF SameRows, Visible
<1> USE <1>1
<1>0. SameSettled
  BY RowsView
<1>2. IdInv'
  BY IdKept DEF IInv, IdInv
<1>3. ChainInv'
  BY <1>0, ChainKept DEF IInv
<1>4. VMInv'
  BY <1>0, VMKept DEF IInv, TypeOK
<1>5. OpInv'
  BY OpKept DEF IInv, TypeOK, Prepares, Imports, Snapshots
<1>6. ImportInv'
  <2>1. front.src \in Hosts /\ front.dst \in Hosts /\ front.tok \in Toks
    BY DEF TypeOK, Fronts
  <2>2. Head(front.src) /\ \A g \in Hosts : ~Importing(g)
    BY <2>1 DEF IInv, FrontInv, InPhase
  <2>3. Phase(front.src) = "prepared"
    BY DEF InPhase, Phase
  <2>4. \A g \in Hosts : Claim(g) => Phase(g) = "prepared"
    BY <2>1, <2>2, <2>3 DEF IInv, ChainInv, Head, Claim
  <2>5. op'[front.dst].step = "mkdir" /\ \A g \in Hosts \ {front.dst} : ~Importing(g)'
    BY <2>1, <2>2 DEF TypeOK, Importing
  <2>6. QED
    BY <2>1, <2>4, <2>5, SameView DEF ImportInv
<1>7. TokInv'
  <2>1. front.src \in Hosts /\ front.dst \in Hosts /\ front.tok \in Toks
    BY DEF TypeOK, Fronts
  <2>2. ~Unused(front.tok)
    BY <2>1 DEF Unused, InPhase, MigOf, Visible, TypeOK, Rows
  <2>3. \A t \in Toks : Unused(t) => Unused(t)'
    BY <2>1, <2>2 DEF Unused, TypeOK
  <2>4. \A t \in Toks : NoObject(t) => NoObject(t)'
    BY DEF NoObject
  <2>5. QED
    BY <2>3, <2>4, TokKept DEF IInv, TokInv, TypeOK, Fronts
<1>8. FrontInv'
  BY DEF FrontInv, TypeOK, Fronts
<1>9. HeadInv'
  <2>1. front.src \in Hosts /\ front.dst \in Hosts /\ front.tok \in Toks
    BY DEF TypeOK, Fronts
  <2>2. Head(front.src) /\ \A g \in Hosts : ~Importing(g)
    BY <2>1 DEF IInv, FrontInv, InPhase
  <2>3. Phase(front.src) = "prepared" /\ MigOf(front.src).tok = front.tok
    BY DEF InPhase, Phase
  <2>4. /\ op'[front.dst].nat /\ op'[front.dst].tok = front.tok
        /\ op'[front.dst].step = "mkdir"
    BY <2>1 DEF TypeOK
  <2>5. \A g \in Hosts : (Importing(g)' => g = front.dst) /\ (Current(g) => Current(g)')
    BY <2>2 DEF TypeOK, Importing, Current
  <2>6. \A g \in Hosts : Head(g) => Settled(g)
    BY DEF Head, Claim
  <2>7. QED
    BY <1>0, <2>1, <2>2, <2>3, <2>4, <2>5, <2>6, SettledView DEF IInv, HeadInv
<1>10. QED
  BY <1>2, <1>3, <1>4, <1>5, <1>6, <1>7, <1>8, <1>9 DEF IInv

LEMMA ImportPublishKeeps ==
    ASSUME TypeOK, TypeOK', IInv, NEW h \in Hosts, ImportPublish(h)
    PROVE  IInv'
PROOF
<1> USE DEF ImportPublish, Received, hostVars, moveVars, ghostVars
<1>1. SameRows
  BY DEF SameRows, Visible
<1> USE <1>1
<1>0. SameSettled
  BY RowsView
<1>2. IdInv'
  <2>1. Received(h) \in Vers
    BY DEF TypeOK, Imports, Prepares, Snapshots
  <2>2. [ver |-> Received(h), whole |-> TRUE] \in Disks
    BY <2>1 DEF Disks
  <2>3. disk'[h] # None /\ \A g \in Hosts \ {h} : disk'[g] = disk[g]
    BY <2>2, NoneAssumption DEF TypeOK
  <2>4. QED
    BY <2>3, IdKept DEF IInv, IdInv
<1>3. ChainInv'
  BY <1>0, ChainKept DEF IInv
<1>4. VMInv'
  BY <1>0, VMKept DEF IInv, TypeOK
<1>5. OpInv'
  BY OpKept DEF IInv, TypeOK, Prepares, Imports, Snapshots
<1>6. ImportInv'
  <2>1. Importing(h)
    BY DEF Importing
  <2>2. \A g \in Hosts \ {h} : ~Importing(g)'
    BY <2>1, ImportStep DEF IInv, ImportInv, Importing
  <2>3. op'[h].step = "finalize" /\ disk'[h] # None
    <3>1. Visible(h)
      BY <2>1 DEF IInv, ImportInv
    <3>2. QED
      BY <1>2, <3>1, ImportStep, SameView DEF IdInv
  <2>4. QED
    BY <2>1, <2>2, <2>3, SameView DEF IInv, ImportInv
<1>7. TokInv'
  BY TokKept DEF IInv, TokInv, Unused, NoObject
<1>8. FrontInv'
  BY <1>0, <1>2, FrontKept DEF IInv, Importing
<1>9. HeadInv'
  <2>1. Importing(h)
    BY DEF Importing
  <2>2. \A g \in Hosts : Importing(g)' => g = h
    BY <2>1, ImportStep DEF IInv, ImportInv, Importing
  <2>3. ~Settled(h)
    BY <2>1 DEF IInv, ImportInv, Settled
  <2>4. ~gone => Current(h)'
    <3>1. disk'[h] = [ver |-> Received(h), whole |-> TRUE]
      BY DEF TypeOK
    <3>2. disk'[h] # None
      BY <1>2, <2>1, SameView DEF IInv, ImportInv, IdInv
    <3>3. ~gone => Received(h) = ver
      BY <2>1 DEF IInv, HeadInv
    <3>4. QED
      BY <3>1, <3>2, <3>3 DEF Current
  <2>5. \A g \in Hosts : Head(g) /\ Current(g) => Current(g)'
    BY <2>3 DEF Head, Claim, Current, TypeOK
  <2>6. QED
    BY <1>0, <2>1, <2>2, <2>4, <2>5, ImportStep, HeadKept DEF IInv, TypeOK
<1>10. QED
  BY <1>2, <1>3, <1>4, <1>5, <1>6, <1>7, <1>8, <1>9 DEF IInv

LEMMA FrontBeginKeeps ==
    ASSUME TypeOK, TypeOK', IInv, NEW h \in Hosts, NEW d \in Hosts, FrontBegin(h, d)
    PROVE  IInv'
PROOF
<1> USE DEF FrontBegin, hostVars, moveVars, ghostVars
<1>1. SameRows
  BY DEF SameRows, Visible
<1> USE <1>1
<1>0. SameSettled
  BY RowsView
<1>2. IdInv'
  BY IdKept DEF IInv, IdInv
<1>3. ChainInv'
  BY <1>0, ChainKept DEF IInv
<1>4. VMInv'
  BY <1>0, VMKept DEF IInv, TypeOK
<1>5. OpInv'
  BY OpKept DEF IInv, TypeOK, Prepares, Imports, Snapshots
<1>6. ImportInv'
  BY ImportKept DEF IInv, TypeOK, Importing
<1>7. TokInv'
  <2>1. tokens + 1 \in Toks /\ tokens + 1 > tokens
    BY MigrationAssumption DEF TypeOK, Toks
  <2>2. front' \in Fronts
    BY <2>1 DEF Fronts
  <2>3. /\ front' # None /\ front'.src = h /\ front'.tok = tokens + 1
        /\ front'.step = "prepare"
    BY <2>2, NoneAssumption
  <2>4. \A t \in Toks : (Unused(t) => Unused(t)') /\ (NoObject(t) => NoObject(t)')
    BY DEF Unused, NoObject
  <2>5. \A i \in Ids : mig[i] # None => mig[i].tok \in Toks
    BY DEF TypeOK, Migs
  <2>6. QED
    BY <2>1, <2>3, <2>4, <2>5 DEF IInv, TokInv, TypeOK, Toks
<1>8. FrontInv'
  <2>1. tokens + 1 \in Toks /\ tokens + 1 > tokens
    BY MigrationAssumption DEF TypeOK, Toks
  <2>2. front' \in Fronts
    BY <2>1 DEF Fronts
  <2>3. /\ front' # None /\ front'.src = h /\ front'.tok = tokens + 1
        /\ front'.step = "prepare"
    BY <2>2, NoneAssumption
  <2>4. Unused(tokens + 1)
    BY <2>1 DEF IInv, TokInv
  <2>5. ~(Visible(h) /\ MigOf(h) # None /\ MigOf(h).tok = tokens + 1)
    BY <2>4 DEF Unused, MigOf, Visible, TypeOK, Rows
  <2>6. ~(Visible(h)' /\ MigOf(h)' # None /\ MigOf(h)'.tok = tokens + 1)
    BY <2>5, SameView
  <2>7. ~InPhase(front.src, front.tok, {"preparing", "prepared"})'
    BY <2>3, <2>6 DEF InPhase
  <2>8. front'.step # "complete"
    BY <2>3
  <2>9. QED
    BY <2>7, <2>8 DEF FrontInv
<1>9. HeadInv'
  BY <1>0, HeadKept DEF IInv, Importing, Current, HeadInv
<1>10. QED
  BY <1>2, <1>3, <1>4, <1>5, <1>6, <1>7, <1>8, <1>9 DEF IInv

LEMMA FrontReceiptKeeps ==
    ASSUME TypeOK, TypeOK', IInv, FrontReceipt
    PROVE  IInv'
PROOF
<1> USE DEF FrontReceipt, hostVars, moveVars, ghostVars
<1>1. SameRows
  BY DEF SameRows, Visible
<1> USE <1>1
<1>0. SameSettled
  BY RowsView
<1>2. IdInv'
  BY IdKept DEF IInv, IdInv
<1>3. ChainInv'
  BY <1>0, ChainKept DEF IInv
<1>4. VMInv'
  BY <1>0, VMKept DEF IInv, TypeOK
<1>5. OpInv'
  BY OpKept DEF IInv, TypeOK, Prepares, Imports, Snapshots
<1>6. ImportInv'
  BY ImportKept DEF IInv, TypeOK, Importing
<1>7. TokInv'
  BY TokKept DEF IInv, TokInv, Unused, NoObject
<1>8. FrontInv'
  <2>1. front.src \in Hosts /\ front.dst \in Hosts
    BY DEF TypeOK, Fronts
  <2>2. front' # None /\ front'.step = "complete" /\ front'.src = front.src
        /\ front'.tok = front.tok
    BY NoneAssumption DEF TypeOK, Fronts
  <2>3. ASSUME ~gone, InPhase(front.src, front.tok, {"preparing", "prepared"})
        PROVE  \E g \in Hosts \ {front.src} : Head(g)
    <3>1. Visible(front.src) /\ MigOf(front.src) # None /\ MigOf(front.src).tok = front.tok
      BY <2>3 DEF InPhase
    <3>2. Settled(front.dst) /\ RcptOf(front.dst) # None /\ RcptOf(front.dst).tok = front.tok
      BY DEF HasReceipt, Settled
    <3>3. row[front.src].id < row[front.dst].id /\ row[front.src].id \in Nat
          /\ row[front.dst].id \in Nat
      BY <2>1, <3>1, <3>2 DEF IInv, TokInv, MigOf, RcptOf, TypeOK, Rows, Visible, Settled,
         Ids
    <3>4. ~Head(front.src)
      BY <2>1, <3>2, <3>3 DEF Head
    <3>5. QED
      BY <2>3, <3>4 DEF IInv, HeadInv
  <2>4. InPhase(front.src, front.tok, {"preparing", "prepared"})' =>
           InPhase(front.src, front.tok, {"preparing", "prepared"})
    BY <2>1, <2>2, SameView DEF InPhase
  <2>5. QED
    BY <1>0, <2>1, <2>2, <2>3, <2>4, SettledView DEF FrontInv
<1>9. HeadInv'
  BY <1>0, HeadKept DEF IInv, Importing, Current, HeadInv
<1>10. QED
  BY <1>2, <1>3, <1>4, <1>5, <1>6, <1>7, <1>8, <1>9 DEF IInv

LEMMA FrontCleanupKeeps ==
    ASSUME TypeOK, TypeOK', IInv, FrontCleanup
    PROVE  IInv'
PROOF
<1> USE DEF FrontCleanup, hostVars, moveVars, ghostVars
<1>1. SameRows
  BY DEF SameRows, Visible
<1> USE <1>1
<1>0. SameSettled
  BY RowsView
<1>2. IdInv'
  BY IdKept DEF IInv, IdInv
<1>3. ChainInv'
  BY <1>0, ChainKept DEF IInv
<1>4. VMInv'
  BY <1>0, VMKept DEF IInv, TypeOK
<1>5. OpInv'
  <2>1. front.src \in Hosts /\ front.tok \in Toks
    BY DEF TypeOK, Fronts
  <2>2. ASSUME NEW g \in Hosts, op[g] # None, op[g].kind = "snapshot"
        PROVE  snap'[op[g].tok] # None
    <3>1. /\ op[g].tok \in Toks /\ Visible(g) /\ MigOf(g) # None
          /\ MigOf(g).tok = op[g].tok /\ snap[op[g].tok] # None
      BY <2>2 DEF TypeOK, Snapshots, Prepares, Imports, IInv, OpInv
    <3>2. CASE InPhase(front.src, front.tok, {"completed"}) /\ op[g].tok = front.tok
      <4>1. row[g].id = row[front.src].id
        BY <2>1, <3>1, <3>2 DEF InPhase, MigOf, IInv, TokInv, TypeOK, Rows, Visible
      <4>2. g = front.src
        BY <2>1, <3>1, <3>2, <4>1 DEF InPhase, IInv, IdInv, Visible
      <4>3. QED
        BY <2>2, <4>2
    <3>3. QED
      BY <2>1, <3>1, <3>2 DEF TypeOK
  <2>3. QED
    BY <2>2, SameView DEF IInv, OpInv
<1>6. ImportInv'
  BY ImportKept DEF IInv, TypeOK, Importing
<1>7. TokInv'
  BY TokKept DEF IInv, TokInv, Unused, NoObject
<1>8. FrontInv'
  BY <1>0, <1>2, FrontKept DEF IInv, Importing, Early
<1>9. HeadInv'
  BY <1>0, HeadKept DEF IInv, Importing, Current, HeadInv
<1>10. QED
  BY <1>2, <1>3, <1>4, <1>5, <1>6, <1>7, <1>8, <1>9 DEF IInv

LEMMA OperatorExportKeeps ==
    ASSUME TypeOK, TypeOK', IInv, NEW h \in Hosts, OperatorExport(h)
    PROVE  IInv'
PROOF
<1> USE DEF OperatorExport, hostVars, moveVars, ghostVars
<1>1. SameRows
  BY DEF SameRows, Visible
<1> USE <1>1
<1>0. SameSettled
  BY RowsView
<1>2. IdInv'
  BY IdKept DEF IInv, IdInv
<1>3. ChainInv'
  BY <1>0, ChainKept DEF IInv
<1>4. VMInv'
  BY <1>0, VMKept DEF IInv, TypeOK
<1>5. OpInv'
  BY OpKept DEF IInv, TypeOK, Prepares, Imports, Snapshots
<1>6. ImportInv'
  BY ImportKept DEF IInv, TypeOK, Importing
<1>7. TokInv'
  <2>1. MigOf(h) # None /\ MigOf(h).phase = "prepared" /\ MigOf(h) = mig[row[h].id] /\ row[h].id \in Ids
    BY DEF SourcePrepared, InPhase, MigOf, TypeOK, Visible, Rows
  <2>2. \A t \in Toks : Unused(t) => Unused(t)'
    BY DEF Unused
  <2>3. \A t \in Toks \ {MigOf(h).tok} : NoObject(t) => NoObject(t)'
    BY DEF NoObject
  <2>4. QED
    BY <2>1, <2>2, <2>3, TokKept DEF IInv, TokInv
<1>8. FrontInv'
  BY <1>0, <1>2, FrontKept DEF IInv, Importing
<1>9. HeadInv'
  <2>1. /\ MigOf(h) # None /\ MigOf(h).phase = "prepared" /\ MigOf(h) = mig[row[h].id]
        /\ row[h] # None /\ row[h].id \in Ids
    BY DEF SourcePrepared, InPhase, MigOf, TypeOK, Visible, Rows
  <2>2. art'.tok = MigOf(h).tok /\ art'.ver = disk[h].ver /\ ~art'.nat
    OBVIOUS
  <2>3. \A g \in Hosts : Head(g) => Settled(g) /\ row[g] # None /\ row[g].id \in Ids
    BY DEF Head, Claim, Settled, Visible, TypeOK, Rows
  <2>4. ASSUME NEW g \in Hosts, Head(g), Phase(g) = "prepared", MigOf(g).tok = MigOf(h).tok
        PROVE  g = h
    BY <2>1, <2>3, <2>4 DEF IInv, TokInv, IdInv, MigOf, Phase
  <2>5. ~gone /\ Head(h) => disk[h].ver = ver
    BY DEF IInv, HeadInv, Current
  <2>6. \A g \in Hosts : (Importing(g)' <=> Importing(g)) /\ (Current(g)' <=> Current(g))
    BY DEF Importing, Current
  <2>7. QED
    BY <1>0, <2>2, <2>3, <2>4, <2>5, <2>6, SettledView DEF IInv, HeadInv
<1>10. QED
  BY <1>2, <1>3, <1>4, <1>5, <1>6, <1>7, <1>8, <1>9 DEF IInv

LEMMA OperatorImportKeeps ==
    ASSUME TypeOK, TypeOK', IInv, NEW h \in Hosts, OperatorImport(h)
    PROVE  IInv'
PROOF
<1> USE DEF OperatorImport, hostVars, moveVars, ghostVars
<1>1. SameRows
  BY DEF SameRows, Visible
<1> USE <1>1
<1>0. SameSettled
  BY RowsView
<1>2. IdInv'
  BY IdKept DEF IInv, IdInv
<1>3. ChainInv'
  BY <1>0, ChainKept DEF IInv
<1>4. VMInv'
  BY <1>0, VMKept DEF IInv, TypeOK
<1>5. OpInv'
  <2>1. MigOf(h).target \in Hosts
    BY DEF Active, MigOf, TypeOK
  <2>2. \A g \in Hosts : op'[g] # op[g] => op'[g].kind = "import"
    BY <2>1 DEF ImportOp, TypeOK
  <2>3. QED
    BY <2>2, OpKept DEF IInv, TypeOK, Prepares, Snapshots, Imports
<1>6. ImportInv'
  <2>1. /\ MigOf(h) # None /\ MigOf(h) = mig[row[h].id] /\ Visible(h)
        /\ row[h].id \in Ids /\ MigOf(h).target \in Hosts /\ MigOf(h).tok \in Toks
    BY DEF Active, MigOf, TypeOK, Visible, Rows, Migs
  <2>2. art \in Arts /\ MigOf(h).phase = "prepared"
    BY <2>1 DEF Active, IInv, TokInv, NoObject, TypeOK
  <2>3. Claim(h) /\ Phase(h) = "prepared"
    BY <2>1, <2>2 DEF IInv, IdInv, Claim, Phase
  <2>4. Head(h)
    BY <2>3 DEF Head, NoLaterCopy, IInv, IdInv, Claim, Settled, Visible, TypeOK, Rows, Ids
  <2>5. \A g \in Hosts : Claim(g) => Phase(g) = "prepared"
    BY <2>3, <2>4 DEF IInv, ChainInv, Head, Claim
  <2>6. /\ op'[MigOf(h).target].step = "mkdir"
        /\ \A g \in Hosts \ {MigOf(h).target} : ~Importing(g)'
    BY <2>1 DEF TypeOK, ImportOp, NoLaterCopy, Importing
  <2>7. QED
    BY <2>1, <2>5, <2>6, SameView DEF ImportInv
<1>7. TokInv'
  <2>1. /\ MigOf(h) # None /\ MigOf(h) = mig[row[h].id] /\ Visible(h)
        /\ row[h].id \in Ids /\ MigOf(h).target \in Hosts /\ MigOf(h).tok \in Toks
    BY DEF Active, MigOf, TypeOK, Visible, Rows, Migs
  <2>2. art \in Arts /\ MigOf(h).phase = "prepared"
    BY <2>1 DEF Active, IInv, TokInv, NoObject, TypeOK
  <2>3. ~Unused(art.tok)
    BY <2>1 DEF Unused
  <2>4. \A g \in Hosts : op'[g] # op[g] => op'[g].tok = art.tok
    BY <2>1 DEF ImportOp, TypeOK
  <2>5. \A t \in Toks : (Unused(t) => Unused(t)') /\ (NoObject(t) => NoObject(t)')
    BY <2>3, <2>4 DEF Unused, NoObject
  <2>6. QED
    BY <2>5, TokKept DEF IInv, TokInv
<1>8. FrontInv'
  BY DEF FrontInv
<1>9. HeadInv'
  <2>1. /\ MigOf(h) # None /\ MigOf(h) = mig[row[h].id] /\ Visible(h)
        /\ row[h].id \in Ids /\ MigOf(h).target \in Hosts /\ MigOf(h).tok \in Toks
    BY DEF Active, MigOf, TypeOK, Visible, Rows, Migs
  <2>2. art \in Arts /\ MigOf(h).phase = "prepared"
    BY <2>1 DEF Active, IInv, TokInv, NoObject, TypeOK
  <2>3. Claim(h) /\ Phase(h) = "prepared"
    BY <2>1, <2>2 DEF IInv, IdInv, Claim, Phase
  <2>4. Head(h)
    BY <2>3 DEF Head, NoLaterCopy, IInv, IdInv, Claim, Settled, Visible, TypeOK, Rows, Ids
  <2>5. /\ op'[MigOf(h).target].ver = art.ver /\ op'[MigOf(h).target].nat = art.nat
        /\ op'[MigOf(h).target].step = "mkdir"
    BY <2>1 DEF TypeOK, ImportOp
  <2>6. \A g \in Hosts : (Importing(g)' => g = MigOf(h).target) /\ (Current(g)' <=> Current(g))
    BY <2>1 DEF Importing, NoLaterCopy, TypeOK, Current
  <2>7. ~gone => art.ver = ver /\ ~art.nat
    BY <2>1, <2>2, <2>3, <2>4 DEF IInv, HeadInv
  <2>8. \A g \in Hosts : Head(g) => Settled(g)
    BY DEF Head, Claim
  <2>9. QED
    BY <1>0, <2>1, <2>5, <2>6, <2>7, <2>8, SettledView DEF IInv, HeadInv
<1>10. QED
  BY <1>2, <1>3, <1>4, <1>5, <1>6, <1>7, <1>8, <1>9 DEF IInv

-----------------------------------------------------------------------------
(* Steps on a row that is not settled: an import and its remains *)

\* Where only the row of a host that is not settled changes, what is settled stays.
LEMMA UnsettledView ==
    ASSUME NEW h \in Hosts, ~Settled(h), ~Settled(h)',
           \A g \in Hosts \ {h} :
              /\ row'[g] = row[g]
              /\ row[g] # None => MigOf(g)' = MigOf(g) /\ RcptOf(g)' = RcptOf(g)
    PROVE  /\ SameSettled
           /\ \A g \in Hosts \ {h} : Visible(g) <=> Visible(g)'
PROOF
<1>1. \A g \in Hosts \ {h} : (Visible(g) <=> Visible(g)') /\ (Visible(g) => row[g] # None)
  BY DEF Visible
<1>2. \A g \in Hosts \ {h} : Settled(g) <=> Settled(g)'
  BY <1>1 DEF Settled
<1>3. QED
  BY <1>1, <1>2 DEF SameSettled, Settled

\* A partial import is cleared; nothing else was there.
LEMMA OperatorClearsKeeps ==
    ASSUME TypeOK, TypeOK', IInv, NEW h \in Hosts, OperatorClears(h)
    PROVE  IInv'
PROOF
<1>0. MigOf(h).target \in Hosts
  BY DEF OperatorClears, TypeOK
<1>1. PICK d \in Hosts : d = MigOf(h).target
  BY <1>0
<1>2. /\ front = None /\ op[d] = None /\ ~Settled(d)
      /\ row[d] = None \/ (Visible(d) /\ RcptOf(d) # None /\ RcptOf(d).phase = "importing")
  BY <1>1 DEF OperatorClears, Settled, Visible
<1>3. /\ \A g \in Hosts \ {d} : row'[g] = row[g] /\ disk'[g] = disk[g]
      /\ row[d] = None <=> row'[d] = None
      /\ row[d] # None => row'[d].id = row[d].id
      /\ ~Visible(d)'
  <2>1. CASE row[d] = None
    BY <1>1, <2>1 DEF OperatorClears, TypeOK, Visible
  <2>2. CASE row[d] # None
    <3>1. row' = [row EXCEPT ![d].state = "deleted"]
      BY <1>1, <2>2 DEF OperatorClears
    <3>2. disk' = [disk EXCEPT ![d] = None]
      BY <1>1 DEF OperatorClears
    <3>3. \A g \in Hosts \ {d} : disk'[g] = disk[g]
      BY <3>2 DEF TypeOK
    <3>4. /\ \A g \in Hosts \ {d} : row'[g] = row[g]
          /\ row'[d] # None /\ row'[d].id = row[d].id /\ row'[d].state = "deleted"
      BY <2>2, <3>1, StateRow DEF TypeOK
    <3>5. QED
      BY <2>2, <3>3, <3>4 DEF Visible
  <2>3. QED
    BY <2>1, <2>2
<1>4. device' = device
  BY <1>1, <1>2 DEF OperatorClears, RevokesDevice, TypeOK
<1>5. UNCHANGED <<mig, rcpt, snap, store, base, art, vm, op, front, insts, tokens, ver, gone>>
  BY DEF OperatorClears, moveVars
<1>6. SameSettled /\ \A g \in Hosts \ {d} : Visible(g) <=> Visible(g)'
  <2>1. ~Settled(d)'
    BY <1>3 DEF Settled
  <2>2. QED
    BY <1>1, <1>2, <1>3, <1>5, <2>1, UnsettledView DEF MigOf, RcptOf
<1>7. IdInv'
  <2>1. \A g \in Hosts : (Visible(g) /\ MigOf(g) # None)' => Settled(g)'
    BY <1>3, <1>5, <1>6 DEF IInv, IdInv, SameSettled, MigOf
  <2>2. QED
    BY <1>1, <1>3, <1>5, <1>6, <2>1 DEF IInv, IdInv, Visible
<1>8. ChainInv' /\ VMInv'
  BY <1>5, <1>6, ChainKept, VMKept DEF IInv, TypeOK
<1>9. OpInv'
  BY <1>2, <1>3, <1>5, <1>6 DEF IInv, OpInv, Phase, MigOf
<1>10. \A g \in Hosts : Importing(g)' => Importing(g) /\ op'[g] = op[g] /\ g # d
  BY <1>2, <1>5 DEF Importing
<1>11. ImportInv'
  <2>1. \A g \in Hosts \ {d} : row[g] # None => RcptOf(g)' = RcptOf(g)
    BY <1>3, <1>5 DEF RcptOf
  <2>2. \A g \in Hosts : Claim(g) => Settled(g)
    BY DEF Claim
  <2>3. QED
    BY <1>3, <1>5, <1>6, <1>10, <2>1, <2>2, SettledView DEF IInv, ImportInv, Visible
<1>12. TokInv'
  BY <1>5, TokKept DEF IInv, TokInv, Unused, NoObject
<1>13. FrontInv'
  BY <1>2, <1>5 DEF FrontInv
<1>14. HeadInv'
  <2>1. \A g \in Hosts \ {d} : Current(g) <=> Current(g)'
    BY <1>3, <1>5 DEF Current
  <2>2. ~Head(d)
    BY <1>2 DEF Head, Claim
  <2>3. QED
    BY <1>4, <1>5, <1>6, <1>10, <2>1, <2>2, HeadKept DEF IInv, HeadInv, TypeOK
<1>15. QED
  BY <1>7, <1>8, <1>9, <1>11, <1>12, <1>13, <1>14 DEF IInv

\* An import that begins finds no row that counts.
LEMMA ImportMkdirKeeps ==
    ASSUME TypeOK, TypeOK', IInv, NEW h \in Hosts, ImportMkdir(h)
    PROVE  IInv'
PROOF
<1>1. /\ Importing(h) /\ op[h].kind = "import" /\ op[h].step = "mkdir"
      /\ ~Visible(h) /\ insts < MaxInsts
  BY DEF ImportMkdir, Importing, Reusable, Visible
<1>2. /\ \A g \in Hosts \ {h} : row'[g] = row[g] /\ disk'[g] = disk[g]
      /\ row'[h] = None /\ ~Visible(h)' /\ disk'[h] # None
  <2>1. [ver |-> 0, whole |-> FALSE] \in Disks
    BY MigrationAssumption DEF Disks, Vers
  <2>2. QED
    BY <2>1, NoneAssumption DEF ImportMkdir, TypeOK, Visible
<1>3. /\ \A g \in Hosts \ {h} : op'[g] = op[g]
      /\ op'[h] # None /\ op'[h].kind = "import" /\ op'[h].step = "reserve"
      /\ op'[h].tok = op[h].tok /\ op'[h].nat = op[h].nat /\ op'[h].ver = op[h].ver
  BY ImportStep DEF ImportMkdir
<1>4. UNCHANGED <<mig, rcpt, snap, store, base, art, vm, front, insts, tokens, ver, device, gone>>
  BY DEF ImportMkdir, moveVars, ghostVars
<1>5. ~Settled(h) /\ ~Settled(h)'
  BY <1>1, <1>2 DEF Settled
<1>6. SameSettled /\ \A g \in Hosts \ {h} : Visible(g) <=> Visible(g)'
  BY <1>2, <1>4, <1>5, UnsettledView DEF MigOf, RcptOf
<1>7. IdInv'
  <2>1. \A g \in Hosts : (Visible(g) /\ MigOf(g) # None)' => Settled(g)'
    BY <1>2, <1>4, <1>6 DEF IInv, IdInv, SameSettled, MigOf
  <2>2. QED
    BY <1>2, <1>4, <1>6, <2>1 DEF IInv, IdInv
<1>8. ChainInv' /\ VMInv'
  BY <1>4, <1>6, ChainKept, VMKept DEF IInv, TypeOK
<1>9. OpInv'
  BY <1>2, <1>3, <1>4, <1>6 DEF IInv, OpInv, Phase, MigOf
<1>10. \A g \in Hosts : Importing(g)' => g = h
  BY <1>1, <1>3 DEF IInv, ImportInv, Importing
<1>11. ImportInv'
  BY <1>1, <1>2, <1>3, <1>4, <1>6, <1>10, SettledView DEF IInv, ImportInv, Claim
<1>12. TokInv'
  <2>1. \A t \in Toks : (Unused(t) => Unused(t)') /\ (NoObject(t) => NoObject(t)')
    BY <1>1, <1>3, <1>4 DEF Unused, NoObject, Importing
  <2>2. QED
    BY <1>4, <2>1, TokKept DEF IInv, TokInv
<1>13. FrontInv'
  BY <1>1, <1>4, <1>6, <1>7, <1>10, FrontKept DEF IInv
<1>14. HeadInv'
  <2>1. \A g \in Hosts : Head(g) /\ Current(g) => Current(g)'
    BY <1>2, <1>4, <1>5 DEF Current, Head, Claim
  <2>2. QED
    BY <1>1, <1>3, <1>4, <1>6, <1>10, <2>1, HeadKept DEF IInv
<1>15. QED
  BY <1>7, <1>8, <1>9, <1>11, <1>12, <1>13, <1>14 DEF IInv

\* Its incarnation is later than every other, and is not settled yet.
LEMMA ImportReserveKeeps ==
    ASSUME TypeOK, TypeOK', IInv, NEW h \in Hosts, ImportReserve(h)
    PROVE  IInv'
PROOF
<1> DEFINE i == insts + 1
<1>1. /\ Importing(h) /\ op[h] # None /\ op[h].kind = "import" /\ op[h].step = "reserve"
      /\ row[h] = None /\ insts < MaxInsts /\ disk[h] # None
  BY DEF ImportReserve, IInv, ImportInv, Importing
<1>2. i \in Ids /\ i > insts /\ insts \in Nat /\ mig[i] = None
  BY <1>1, MigrationAssumption DEF TypeOK, Ids, IInv, IdInv
<1>3. op[h] \in Imports
  BY <1>1 DEF TypeOK, Imports, Prepares, Snapshots
<1>4. /\ \A g \in Hosts \ {h} : row'[g] = row[g]
      /\ row'[h] # None /\ row'[h].id = i /\ Visible(h)'
  <2>1. [id |-> i, state |-> "provisioning", node |-> FALSE] \in Rows
    BY <1>2 DEF Rows
  <2>2. QED
    BY <2>1, NoneAssumption DEF ImportReserve, TypeOK, Visible
<1>5. /\ \A j \in Ids \ {i} : rcpt'[j] = rcpt[j]
      /\ rcpt'[i] # None /\ rcpt'[i].tok = op[h].tok /\ rcpt'[i].phase = "importing"
  <2>1. [tok |-> op[h].tok, src |-> op[h].src, phase |-> "importing"] \in Rcpts
    BY <1>3 DEF Imports, Rcpts
  <2>2. QED
    BY <1>2, <2>1, NoneAssumption DEF ImportReserve, TypeOK
<1>6. /\ \A g \in Hosts \ {h} : op'[g] = op[g]
      /\ op'[h] # None /\ op'[h].kind = "import" /\ op'[h].step = "publish"
      /\ op'[h].tok = op[h].tok /\ op'[h].nat = op[h].nat /\ op'[h].ver = op[h].ver
  BY ImportStep DEF ImportReserve
<1>7. /\ UNCHANGED <<mig, disk, snap, store, base, art, vm, front, tokens, ver, device, gone>>
      /\ insts' = i
  BY DEF ImportReserve, moveVars, ghostVars
<1> HIDE DEF i
<1>8. MigOf(h)' = None /\ RcptOf(h)' # None /\ RcptOf(h)'.phase = "importing"
  BY <1>2, <1>4, <1>5, <1>7 DEF MigOf, RcptOf
<1>9. ~Settled(h) /\ ~Settled(h)'
  BY <1>1, <1>8 DEF Settled, Visible
<1>10. \A g \in Hosts \ {h} : row[g] # None =>
          row[g].id \in Ids \ {i} /\ row[g].id <= insts
               /\ MigOf(g)' = MigOf(g) /\ RcptOf(g)' = RcptOf(g)
  BY <1>2, <1>4, <1>5, <1>7 DEF IInv, IdInv, MigOf, RcptOf, TypeOK, Rows, Ids
<1>11. SameSettled /\ \A g \in Hosts \ {h} : Visible(g) <=> Visible(g)'
  BY <1>4, <1>9, <1>10, UnsettledView
<1>12. IdInv'
  <2>1. \A g \in Hosts : (Visible(g) /\ MigOf(g) # None)' => Settled(g)'
    BY <1>8, <1>10, <1>11 DEF IInv, IdInv, SameSettled, Visible
  <2>2. \A j \in Ids : mig'[j] # None \/ rcpt'[j] # None => j <= insts'
    BY <1>2, <1>5, <1>7 DEF IInv, IdInv, Ids
  <2>3. \A g \in Hosts : row'[g] # None => row'[g].id <= insts'
    BY <1>2, <1>4, <1>7, <1>10, MigrationAssumption DEF TypeOK, Rows, Ids
  <2>4. \A g, k \in Hosts : row'[g] # None /\ row'[k] # None /\ row'[g].id = row'[k].id => g = k
    BY <1>4, <1>10 DEF IInv, IdInv
  <2>5. \A g \in Hosts : Visible(g)' => disk'[g] # None
    BY <1>1, <1>7, <1>11 DEF IInv, IdInv
  <2>6. QED
    BY <2>1, <2>2, <2>3, <2>4, <2>5 DEF IdInv
<1>13. ChainInv' /\ VMInv'
  BY <1>7, <1>11, ChainKept, VMKept DEF IInv, TypeOK
<1>14. OpInv'
  <2>1. \A g \in Hosts \ {h} : row[g] # None => Phase(g)' = Phase(g)
    BY <1>10 DEF Phase
  <2>2. QED
    BY <1>4, <1>6, <1>7, <1>10, <1>11, <2>1 DEF IInv, OpInv, Visible
<1>15. \A g \in Hosts : Importing(g)' => g = h
  BY <1>1, <1>6 DEF IInv, ImportInv, Importing
<1>16. ImportInv'
  <2>1. \A g \in Hosts : Settled(g)' => row'[g].id < row'[h].id
    BY <1>2, <1>4, <1>9, <1>10, <1>11 DEF SameSettled, Settled, Visible, Ids
  <2>2. \A g \in Hosts : Claim(g)' => Phase(g)' = "prepared"
    BY <1>1, <1>11, SettledView DEF IInv, ImportInv, Claim
  <2>3. QED
    BY <1>1, <1>4, <1>6, <1>7, <1>8, <1>15, <2>1, <2>2 DEF ImportInv
<1>17. TokInv'
  <2>1. \A t \in Toks : (Unused(t) => Unused(t)') /\ (NoObject(t) => NoObject(t)')
    BY <1>1, <1>2, <1>5, <1>6, <1>7 DEF Unused, NoObject, Importing
  <2>2. \A j, k \in Ids : mig[j] # None /\ rcpt'[k] # None /\ mig[j].tok = rcpt'[k].tok => j < k
    BY <1>2, <1>5 DEF IInv, TokInv, IdInv, Ids
  <2>3. QED
    BY <1>7, <2>1, <2>2, TokKept DEF IInv, TokInv
<1>18. FrontInv'
  BY <1>1, <1>7, <1>11, <1>12, <1>15, FrontKept DEF IInv
<1>19. HeadInv'
  <2>1. \A g \in Hosts : Current(g) => Current(g)'
    BY <1>7 DEF Current
  <2>2. QED
    BY <1>1, <1>6, <1>7, <1>11, <1>15, <2>1, HeadKept DEF IInv
<1>20. QED
  BY <1>12, <1>13, <1>14, <1>16, <1>17, <1>18, <1>19 DEF IInv

\* An import that fails leaves nothing behind.
LEMMA ImportFailsKeeps ==
    ASSUME TypeOK, TypeOK', IInv, NEW h \in Hosts, ImportFails(h)
    PROVE  IInv'
PROOF
<1>1. Importing(h) /\ op[h].kind = "import"
  BY DEF ImportFails, Importing
<1>2. /\ \A g \in Hosts \ {h} : row'[g] = row[g] /\ disk'[g] = disk[g] /\ op'[g] = op[g]
      /\ op'[h] = None
      /\ \/ row'[h] = row[h] /\ disk'[h] = disk[h]
         \/ row'[h] = None /\ ~Settled(h)
  BY <1>1 DEF ImportFails, TypeOK, IInv, ImportInv, Settled, Visible
<1>3. UNCHANGED <<mig, rcpt, snap, store, base, art, vm, insts, tokens, ver, device, gone>>
  BY DEF ImportFails, moveVars, ghostVars
<1>4. front' \in {front, None}
  BY DEF ImportFails
<1>5. SameSettled /\ \A g \in Hosts : Visible(g)' => Visible(g) /\ row'[g] = row[g]
  <2>1. CASE row'[h] = row[h]
    BY <1>2, <1>3, <2>1 DEF SameSettled, Settled, Visible, MigOf, RcptOf
  <2>2. CASE row'[h] = None /\ ~Settled(h)
    BY <1>2, <1>3, <2>2, UnsettledView DEF Settled, Visible, MigOf, RcptOf
  <2>3. QED
    BY <1>2, <2>1, <2>2
<1>6. IdInv'
  <2>1. \A g \in Hosts : (Visible(g) /\ MigOf(g) # None)' => Settled(g)'
    BY <1>3, <1>5 DEF IInv, IdInv, SameSettled, MigOf
  <2>2. \A g \in Hosts : Visible(g)' => disk'[g] # None
    BY <1>2, <1>5 DEF IInv, IdInv, Visible
  <2>3. \A g \in Hosts : row'[g] # None => row'[g] = row[g]
    BY <1>2
  <2>4. QED
    BY <1>3, <2>1, <2>2, <2>3 DEF IInv, IdInv
<1>7. ChainInv' /\ VMInv'
  BY <1>3, <1>5, ChainKept, VMKept DEF IInv, TypeOK
<1>8. OpInv'
  BY <1>2, <1>3 DEF IInv, OpInv, Phase, MigOf, Visible
<1>9. \A g \in Hosts : ~Importing(g)'
  BY <1>1, <1>2 DEF IInv, ImportInv, Importing
<1>10. ImportInv'
  BY <1>9 DEF ImportInv
<1>11. TokInv'
  <2>1. \A t \in Toks : (Unused(t) => Unused(t)') /\ (NoObject(t) => NoObject(t)')
    BY <1>2, <1>3 DEF Unused, NoObject
  <2>2. QED
    BY <1>3, <1>4, <2>1, TokKept DEF IInv, TokInv
<1>12. FrontInv'
  BY <1>3, <1>4, <1>5, <1>6, <1>9, FrontKept DEF IInv
<1>13. HeadInv'
  <2>1. \A g \in Hosts : Head(g) /\ Current(g) => Current(g)'
    BY <1>2, <1>3 DEF Current, Head, Claim
  <2>2. QED
    BY <1>3, <1>5, <1>9, <2>1, HeadKept DEF IInv
<1>14. QED
  BY <1>6, <1>7, <1>8, <1>10, <1>11, <1>12, <1>13 DEF IInv

-----------------------------------------------------------------------------
(* Steps on a settled row *)

\* Where the records of one settled incarnation change, the others stay.
LEMMA OthersView ==
    ASSUME TypeOK, IdInv, NEW h \in Hosts, row[h] # None, row' = row, rcpt' = rcpt,
           \A j \in Ids \ {row[h].id} : mig'[j] = mig[j]
    PROVE  /\ \A g \in Hosts \ {h} : row[g] # None =>
                 MigOf(g)' = MigOf(g) /\ Phase(g)' = Phase(g)
           /\ \A g \in Hosts : /\ Visible(g) <=> Visible(g)'
                               /\ Settled(g) <=> Settled(g)'
                               /\ RcptOf(g)' = RcptOf(g)
           /\ \A g \in Hosts \ {h} : Claim(g) <=> Claim(g)'
PROOF
<1>1. \A g \in Hosts \ {h} : row[g] # None => row[g].id \in Ids \ {row[h].id}
  BY DEF TypeOK, Rows, IdInv
<1>2. \A g \in Hosts \ {h} : row[g] # None => MigOf(g)' = MigOf(g) /\ Phase(g)' = Phase(g)
  BY <1>1 DEF MigOf, Phase
<1>3. \A g \in Hosts : /\ Visible(g) <=> Visible(g)'
                       /\ Visible(g) => row[g] # None
                       /\ RcptOf(g)' = RcptOf(g)
  BY DEF Visible, RcptOf
<1>4. \A g \in Hosts : Settled(g) <=> Settled(g)'
  BY <1>3 DEF Settled
<1>5. QED
  BY <1>2, <1>3, <1>4 DEF Claim, Settled

\* A settled row has an incarnation.
LEMMA SettledIds ==
    ASSUME TypeOK
    PROVE  \A g \in Hosts : Settled(g) => /\ row[g] # None /\ Visible(g)
                                          /\ row[g].id \in Ids /\ row[g].id \in Nat
PROOF
  BY DEF TypeOK, Rows, Settled, Visible, Ids

\* The fence is written on the last incarnation, with a token nobody has used.
LEMMA FrontPrepareKeeps ==
    ASSUME TypeOK, TypeOK', IInv, FrontPrepare
    PROVE  IInv'
PROOF
<1>1. PICK h \in Hosts, t \in Toks : h = front.src /\ t = front.tok
  BY DEF FrontPrepare, TypeOK, Fronts
<1>2. Unused(t) /\ NoObject(t)
  BY <1>1 DEF FrontPrepare, IInv, TokInv
<1>3. Visible(h) /\ row[h] # None /\ row[h].id \in Ids /\ op[h] = None
  BY <1>1 DEF FrontPrepare, Prepare, PrepareAccepts, Visible, TypeOK, Rows
<1>4. ~(MigOf(h) # None /\ MigOf(h).tok = t)
  BY <1>2, <1>3 DEF Unused, MigOf
<1>5. Startable(h)
  BY <1>1, <1>3, <1>4 DEF FrontPrepare, Prepare, PrepareAccepts, Startable
<1>6. Head(h) /\ Settled(h) /\ Claim(h) /\ \A g \in Hosts : ~Importing(g)
  BY <1>5, StartableView, LiveIsHead DEF IInv
<1>7. /\ op'[h] # None /\ op'[h].kind = "prepare" /\ op'[h].tok = t /\ op'[h].step = "stop"
      /\ \A g \in Hosts \ {h} : op'[g] = op[g]
  <2>1. ~InPhase(h, t, {"prepared", "completed"})
    BY <1>4 DEF InPhase
  <2>2. [kind |-> "prepare", tok |-> t, step |-> "stop"] \in Prepares
    BY DEF Prepares
  <2>3. op' = [op EXCEPT ![h] = [kind |-> "prepare", tok |-> t, step |-> "stop"]]
    BY <1>1, <2>1 DEF FrontPrepare, Prepare
  <2>4. QED
    BY <2>2, <2>3, NoneAssumption DEF TypeOK
<1>8. /\ \A j \in Ids \ {row[h].id} : mig'[j] = mig[j]
      /\ MigOf(h)' # None /\ MigOf(h)'.tok = t /\ MigOf(h)'.phase = "preparing"
      /\ row' = row
  <2> DEFINE m == [tok |-> t, target |-> front.dst, phase |-> "preparing",
                   was |-> row[h].state = "ready"]
  <2>1. ~InPhase(h, t, {"preparing", "prepared", "completed"})
    BY <1>4 DEF InPhase
  <2>2. front.dst \in Hosts
    BY DEF FrontPrepare, TypeOK, Fronts
  <2>3. m \in Migs
    BY <2>2 DEF Migs
  <2>4. mig' = [mig EXCEPT ![row[h].id] = m] /\ row' = row
    BY <1>1, <2>1 DEF FrontPrepare, Prepare
  <2>5. m # None /\ m.tok = t /\ m.phase = "preparing"
    BY <2>3, NoneAssumption
  <2> HIDE DEF m
  <2>6. QED
    BY <1>3, <2>4, <2>5 DEF TypeOK, MigOf
<1>9. UNCHANGED <<rcpt, disk, snap, store, base, art, vm, insts, tokens, ver, device, gone>>
  BY DEF FrontPrepare, Prepare, moveVars, ghostVars
<1>10. /\ front # None /\ front' # None /\ front'.src = h /\ front'.tok = t
       /\ front'.step = "preparing"
  <2>1. [front EXCEPT !.step = "preparing"] \in Fronts
    BY DEF FrontPrepare, TypeOK, Fronts
  <2>2. QED
    BY <1>1, <2>1, NoneAssumption DEF FrontPrepare, TypeOK, Fronts
<1>11. /\ \A g \in Hosts \ {h} : row[g] # None =>
             MigOf(g)' = MigOf(g) /\ Phase(g)' = Phase(g)
       /\ \A g \in Hosts : /\ Visible(g) <=> Visible(g)'
                           /\ Settled(g) <=> Settled(g)'
                           /\ Visible(g) => row[g] # None
                           /\ RcptOf(g)' = RcptOf(g)
       /\ \A g \in Hosts \ {h} : Claim(g) <=> Claim(g)'
  BY <1>3, <1>8, <1>9, OthersView DEF IInv, Visible
<1>12. Phase(h)' = "preparing" /\ Claim(h)' /\ \A g \in Hosts : Head(g) <=> Head(g)'
  BY <1>6, <1>8, <1>11 DEF Phase, Claim, Head
<1>13. IdInv'
  <2>1. \A j \in Ids : mig'[j] # None \/ rcpt'[j] # None => j <= insts'
    BY <1>3, <1>8, <1>9 DEF IInv, IdInv
  <2>2. QED
    BY <1>6, <1>8, <1>9, <1>11, <2>1 DEF IInv, IdInv
<1>14. ChainInv'
  BY <1>6, <1>8, <1>11, SettledIds DEF IInv, ChainInv, Head
<1>15. VMInv'
  BY <1>9, <1>11, <1>12 DEF IInv, VMInv, TypeOK, Claim, Settled
<1>16. OpInv'
  BY <1>3, <1>7, <1>8, <1>9, <1>11, <1>12 DEF IInv, OpInv
<1>17. \A g \in Hosts : ~Importing(g)'
  BY <1>6, <1>7 DEF Importing
<1>18. ImportInv'
  BY <1>17 DEF ImportInv
<1>19. TokInv'
  <2>1. \A u \in Toks : NoObject(u) => NoObject(u)'
    BY <1>9 DEF NoObject
  <2>2. mig'[row[h].id] = MigOf(h)'
    BY <1>8 DEF MigOf
  <2>3. \A u \in Toks \ {t} : Unused(u) => Unused(u)'
    BY <1>3, <1>7, <1>8, <1>9, <2>2 DEF Unused
  <2>4. t <= tokens
    BY <1>1, <1>10 DEF IInv, TokInv
  <2>5. \A i, j \in Ids : mig'[i] # None /\ mig'[j] # None /\ mig'[i].tok = mig'[j].tok => i = j
    BY <1>2, <1>8, <2>2 DEF IInv, TokInv, Unused
  <2>6. \A i, j \in Ids : mig'[i] # None /\ rcpt'[j] # None /\ mig'[i].tok = rcpt'[j].tok => i < j
    BY <1>2, <1>8, <1>9, <2>2 DEF IInv, TokInv, Unused
  <2>7. ASSUME NEW i \in Ids, mig'[i] # None, mig'[i].phase = "preparing"
        PROVE  NoObject(mig[i].tok)'
    <3>1. PICK u \in Toks : u = mig'[i].tok
      BY <2>7 DEF TypeOK, Migs
    <3>2. NoObject(u)
      BY <1>2, <1>8, <2>2, <2>7, <3>1 DEF IInv, TokInv
    <3>3. NoObject(u)'
      BY <2>1, <3>2
    <3>4. QED
      BY <3>1, <3>3
  <2>8. \A u \in Toks : u > tokens => Unused(u)' /\ NoObject(u)'
    BY <2>1, <2>3, <2>4 DEF IInv, TokInv, TypeOK, Toks
  <2>9. QED
    BY <1>9, <1>10, <2>4, <2>5, <2>6, <2>7, <2>8 DEF TokInv
<1>20. FrontInv'
  BY <1>6, <1>10, <1>12, <1>17 DEF FrontInv
<1>21. HeadInv'
  <2>1. \A g \in Hosts : (Head(g) => g = h) /\ (Current(g) <=> Current(g)')
    BY <1>6, <1>9, HeadUnique DEF Current
  <2>2. QED
    BY <1>6, <1>9, <1>12, <1>17, <2>1 DEF IInv, HeadInv
<1>22. QED
  BY <1>13, <1>14, <1>15, <1>16, <1>18, <1>19, <1>20, <1>21 DEF IInv

\* An operator repeats a prepare that has not finished.
LEMMA OperatorPrepareKeeps ==
    ASSUME TypeOK, TypeOK', IInv, NEW h \in Hosts, OperatorPrepare(h)
    PROVE  IInv'
PROOF
<1> DEFINE t == MigOf(h).tok
<1>1. /\ front = None /\ front' = None /\ op[h] = None /\ Visible(h) /\ MigOf(h) # None
      /\ MigOf(h).phase = "preparing" /\ t \in Toks
      /\ MigOf(h) = mig[row[h].id] /\ row[h].id \in Ids
  BY DEF OperatorPrepare, Prepare, PrepareAccepts, Active, TypeOK, Visible, MigOf, Rows,
     Migs
<1>2. InPhase(h, t, {"preparing", "prepared", "completed"})
      /\ ~InPhase(h, t, {"prepared", "completed"})
  BY <1>1 DEF InPhase
<1>3. UNCHANGED <<row, mig, rcpt, disk, snap, store, base, art, vm, insts, tokens, ver, device,
                  gone, front>>
  BY <1>2 DEF OperatorPrepare, Prepare, moveVars, ghostVars
<1>4. /\ op'[h].kind = "prepare" /\ op'[h].tok = t /\ op'[h].step = "stop"
      /\ \A g \in Hosts \ {h} : op'[g] = op[g]
  BY <1>2 DEF OperatorPrepare, Prepare, TypeOK
<1>5. SameRows /\ SameSettled
  <2>1. SameRows
    BY <1>3 DEF SameRows, Visible
  <2>2. QED
    BY <2>1, RowsView
<1>6. IdInv' /\ ChainInv' /\ VMInv'
  BY <1>3, <1>5, IdKept, ChainKept, VMKept DEF IInv, IdInv, TypeOK
<1>7. OpInv'
  <2>1. Phase(h) = "preparing"
    BY <1>1 DEF Phase
  <2>2. QED
    BY <1>1, <1>3, <1>4, <1>5, <2>1, SameView DEF IInv, OpInv
<1>8. \A g \in Hosts : Importing(g)' => Importing(g) /\ op'[g] = op[g]
  BY <1>4 DEF Importing
<1>9. ImportInv'
  BY <1>3, <1>5, <1>8, ImportKept DEF IInv
<1>10. TokInv'
  <2>1. ~Unused(t)
    BY <1>1 DEF Unused
  <2>2. \A u \in Toks : (Unused(u) => Unused(u)') /\ (NoObject(u) => NoObject(u)')
    BY <1>3, <1>4, <2>1 DEF Unused, NoObject
  <2>3. QED
    BY <1>3, <2>2, TokKept DEF IInv, TokInv
<1>11. FrontInv'
  BY <1>1 DEF FrontInv
<1>12. HeadInv'
  BY <1>3, <1>5, <1>8, HeadKept DEF IInv, HeadInv, Current
<1>13. QED
  BY <1>6, <1>7, <1>9, <1>10, <1>11, <1>12 DEF IInv

\* Where a record gets another phase, tokens and objects stay what they were.
LEMMA PhaseTok ==
    ASSUME TypeOK, TypeOK', TokInv, NEW i \in Ids, mig[i] # None, mig'[i] # None,
           mig'[i].tok = mig[i].tok, mig'[i].phase # "preparing",
           \A j \in Ids \ {i} : mig'[j] = mig[j],
           UNCHANGED <<rcpt, snap, store, art, tokens>>,
           \A h \in Hosts : op'[h] = op[h] \/ (op[h] # None /\ op'[h].tok = op[h].tok),
           front' # None =>
              /\ front # None /\ front'.tok = front.tok
              /\ front'.step = "prepare" => front.step = "prepare"
    PROVE  TokInv'
PROOF
<1>1. \A t \in Toks : (Unused(t) => Unused(t)') /\ (NoObject(t) => NoObject(t)')
  BY DEF Unused, NoObject
<1>2. front # None => front.tok \in Toks
  BY DEF TypeOK, Fronts
<1>3. ASSUME NEW j \in Ids, mig'[j] # None, mig'[j].phase = "preparing"
      PROVE  NoObject(mig[j].tok)'
  <2>1. PICK t \in Toks : t = mig'[j].tok
    BY <1>3 DEF TypeOK, Migs
  <2>2. NoObject(t)
    BY <1>3, <2>1 DEF TokInv
  <2>3. QED
    BY <1>1, <2>1, <2>2
<1>4. \A j, k \in Ids : mig'[j] # None /\ mig'[k] # None /\ mig'[j].tok = mig'[k].tok => j = k
  BY DEF TokInv
<1>5. \A j, k \in Ids : mig'[j] # None /\ rcpt'[k] # None /\ mig'[j].tok = rcpt'[k].tok => j < k
  BY DEF TokInv
<1>6. QED
  BY <1>1, <1>2, <1>3, <1>4, <1>5 DEF TokInv

\* The phase of a record is set.
LEMMA PhaseView ==
    ASSUME TypeOK, IInv, NEW h \in Hosts, Visible(h), MigOf(h) # None,
           NEW p \in {"preparing", "prepared", "completed", "aborted"},
           mig' = [mig EXCEPT ![row[h].id].phase = p],
           UNCHANGED <<row, rcpt, disk, insts>>
    PROVE  /\ row[h].id \in Ids /\ mig[row[h].id] = MigOf(h)
           /\ mig'[row[h].id] # None /\ mig'[row[h].id].tok = MigOf(h).tok
           /\ mig'[row[h].id].phase = p
           /\ \A j \in Ids \ {row[h].id} : mig'[j] = mig[j]
           /\ Settled(h) /\ MigOf(h)' # None /\ MigOf(h)'.tok = MigOf(h).tok /\ Phase(h)' = p
           /\ \A g \in Hosts \ {h} : row[g] # None =>
                 MigOf(g)' = MigOf(g) /\ Phase(g)' = Phase(g)
           /\ \A g \in Hosts : /\ Visible(g) <=> Visible(g)'
                               /\ Settled(g) <=> Settled(g)'
                               /\ Visible(g) => row[g] # None
                               /\ RcptOf(g)' = RcptOf(g)
           /\ \A g \in Hosts \ {h} : Claim(g) <=> Claim(g)'
           /\ IdInv'
PROOF
<1>1. row[h] # None /\ row[h].id \in Ids /\ mig[row[h].id] = MigOf(h)
  BY DEF TypeOK, Rows, Visible, MigOf
<1>2. /\ mig'[row[h].id] # None /\ mig'[row[h].id].tok = MigOf(h).tok
      /\ mig'[row[h].id].phase = p
      /\ \A j \in Ids \ {row[h].id} : mig'[j] = mig[j]
  BY <1>1, PhaseSet DEF TypeOK
<1>3. MigOf(h)' = mig'[row[h].id] /\ Settled(h)
  BY DEF MigOf, IInv, IdInv
<1>4. Phase(h)' = p
  BY <1>2, <1>3 DEF Phase
<1>5. /\ \A g \in Hosts \ {h} : row[g] # None =>
            MigOf(g)' = MigOf(g) /\ Phase(g)' = Phase(g)
      /\ \A g \in Hosts : /\ Visible(g) <=> Visible(g)'
                          /\ Settled(g) <=> Settled(g)'
                          /\ RcptOf(g)' = RcptOf(g)
      /\ \A g \in Hosts \ {h} : Claim(g) <=> Claim(g)'
  BY <1>1, <1>2, OthersView DEF IInv
<1>6. \A g \in Hosts : Visible(g) => row[g] # None
  BY DEF Visible
<1>7. IdInv'
  <2>1. \A j \in Ids : mig'[j] # None \/ rcpt'[j] # None => j <= insts'
    BY <1>1, <1>2 DEF IInv, IdInv
  <2>2. QED
    BY <1>3, <1>5, <1>6, <2>1 DEF IInv, IdInv
<1>8. QED
  BY <1>1, <1>2, <1>3, <1>4, <1>5, <1>6, <1>7

\* The last incarnation is prepared when its VM is gone and nothing was made of it.
LEMMA PrepareFinishKeeps ==
    ASSUME TypeOK, TypeOK', IInv, NEW h \in Hosts, PrepareFinish(h)
    PROVE  IInv'
PROOF
<1>1. /\ Visible(h) /\ MigOf(h) # None /\ MigOf(h).tok = op[h].tok
      /\ Phase(h) = "preparing" /\ h \notin vm /\ op[h] # None
  BY DEF PrepareFinish, IInv, OpInv
<1>2. UNCHANGED <<row, rcpt, disk, snap, store, base, art, vm, front, insts, tokens, ver, device,
                  gone>>
  BY DEF PrepareFinish, moveVars, ghostVars
<1>3. /\ row[h].id \in Ids /\ mig[row[h].id] = MigOf(h)
      /\ mig'[row[h].id] # None /\ mig'[row[h].id].tok = MigOf(h).tok
      /\ mig'[row[h].id].phase = "prepared"
      /\ \A j \in Ids \ {row[h].id} : mig'[j] = mig[j]
      /\ Settled(h) /\ MigOf(h)' # None /\ MigOf(h)'.tok = MigOf(h).tok
      /\ Phase(h)' = "prepared"
      /\ \A g \in Hosts \ {h} : row[g] # None =>
            MigOf(g)' = MigOf(g) /\ Phase(g)' = Phase(g)
      /\ \A g \in Hosts : /\ Visible(g) <=> Visible(g)'
                          /\ Settled(g) <=> Settled(g)'
                          /\ Visible(g) => row[g] # None
                          /\ RcptOf(g)' = RcptOf(g)
      /\ \A g \in Hosts \ {h} : Claim(g) <=> Claim(g)'
      /\ IdInv'
  BY <1>1, <1>2, PhaseView DEF PrepareFinish
<1>4. Claim(h) /\ Claim(h)' /\ Head(h) /\ \A g \in Hosts : ~Importing(g)
  BY <1>1, <1>3, LiveIsHead DEF Claim, IInv
<1>5. \A g \in Hosts : Head(g) <=> Head(g)'
  BY <1>2, <1>3, <1>4 DEF Head
<1>6. /\ \A g \in Hosts \ {h} : op'[g] = op[g]
      /\ op'[h].kind = "prepare" /\ op'[h].step = "reply" /\ op'[h].tok = op[h].tok
  BY PrepareStep DEF PrepareFinish
<1>7. \A g \in Hosts : ~Importing(g)'
  BY <1>4, <1>6 DEF Importing
<1>8. ChainInv'
  BY <1>2, <1>3, <1>4, SettledIds DEF IInv, ChainInv, Head
<1>9. VMInv'
  BY <1>1, <1>2, <1>3, SettledIds DEF IInv, VMInv, TypeOK, Claim
<1>10. OpInv'
  BY <1>1, <1>2, <1>3, <1>6 DEF IInv, OpInv
<1>11. ImportInv'
  BY <1>7 DEF ImportInv
<1>12. TokInv'
  BY <1>1, <1>2, <1>3, <1>6, PhaseTok DEF IInv
<1>13. FrontInv'
  <2>1. front # None => front.src \in Hosts
    BY DEF TypeOK, Fronts
  <2>2. \A g \in Hosts, t \in Toks : InPhase(g, t, {"preparing", "prepared"})' =>
                                        InPhase(g, t, {"preparing", "prepared"})
    <3>1. MigOf(h).phase = "preparing"
      BY <1>1 DEF Phase
    <3>2. \A t \in Toks : InPhase(h, t, {"preparing", "prepared"})' =>
                              InPhase(h, t, {"preparing", "prepared"})
      BY <1>1, <1>3, <3>1 DEF InPhase
    <3>3. ASSUME NEW g \in Hosts \ {h}, NEW t \in Toks, InPhase(g, t, {"preparing", "prepared"})'
          PROVE  InPhase(g, t, {"preparing", "prepared"})
      <4>1. Visible(g) /\ MigOf(g)' = MigOf(g)
        BY <1>3, <3>3 DEF InPhase
      <4>2. QED
        BY <3>3, <4>1 DEF InPhase
    <3>4. QED
      BY <3>2, <3>3
  <2>3. front # None => front.tok \in Toks
    BY DEF TypeOK, Fronts
  <2>4. front # None => (InPhase(front.src, front.tok, {"preparing", "prepared"})' =>
                            InPhase(front.src, front.tok, {"preparing", "prepared"}))
    BY <1>2, <2>1, <2>2, <2>3
  <2>5. QED
    BY <1>2, <1>5, <1>7, <2>1, <2>4 DEF IInv, FrontInv
<1>14. HeadInv'
  <2>1. MigOf(h).tok \in Toks /\ NoObject(MigOf(h).tok)
    BY <1>1, <1>3 DEF IInv, TokInv, Phase, TypeOK, Migs
  <2>2. \A g \in Hosts : (Head(g) => g = h) /\ (Current(g) <=> Current(g)')
    BY <1>2, <1>4, HeadUnique DEF Current
  <2>3. QED
    BY <1>2, <1>3, <1>4, <1>5, <1>7, <2>1, <2>2 DEF IInv, HeadInv, NoObject
<1>15. QED
  BY <1>3, <1>8, <1>9, <1>10, <1>11, <1>12, <1>13, <1>14 DEF IInv

\* A source is completed when a later incarnation is there.
LEMMA CompletedKeeps ==
    ASSUME TypeOK, TypeOK', IInv, NEW h \in Hosts, op[h] = None, Visible(h), MigOf(h) # None,
           Phase(h) \in {"prepared", "completed"}, gone \/ ~Head(h),
           mig' = [mig EXCEPT ![row[h].id].phase = "completed"],
           UNCHANGED <<row, rcpt, disk, snap, store, base, art, vm, op, insts, tokens, ver, device,
                       gone>>,
           \/ front' = None
           \/ front # None /\ front'.tok = front.tok /\ front'.step = "cleanup"
    PROVE  IInv'
PROOF
<1>1. /\ row[h].id \in Ids /\ mig[row[h].id] = MigOf(h)
      /\ mig'[row[h].id] # None /\ mig'[row[h].id].tok = MigOf(h).tok
      /\ mig'[row[h].id].phase = "completed"
      /\ \A j \in Ids \ {row[h].id} : mig'[j] = mig[j]
      /\ Phase(h)' = "completed"
      /\ \A g \in Hosts \ {h} : row[g] # None =>
            MigOf(g)' = MigOf(g) /\ Phase(g)' = Phase(g)
      /\ \A g \in Hosts : /\ Visible(g) <=> Visible(g)'
                          /\ Settled(g) <=> Settled(g)'
                          /\ Visible(g) => row[g] # None
                          /\ RcptOf(g)' = RcptOf(g)
      /\ \A g \in Hosts \ {h} : Claim(g) <=> Claim(g)'
      /\ IdInv'
  BY PhaseView
<1>2. ~Claim(h)' /\ ~Head(h)' /\ \A g \in Hosts \ {h} : Head(g) <=> Head(g)'
  BY <1>1 DEF Claim, Head
<1>3. ChainInv'
  BY <1>1, SettledIds DEF IInv, ChainInv
<1>4. VMInv'
  <2>1. h \notin vm
    BY DEF IInv, VMInv, Claim
  <2>2. QED
    BY <1>1, <2>1, SettledIds DEF IInv, VMInv, TypeOK, Claim
<1>5. OpInv'
  BY <1>1 DEF IInv, OpInv
<1>6. \A g \in Hosts : Importing(g) <=> Importing(g)'
  BY DEF Importing
<1>7. ImportInv'
  BY <1>1, <1>2, <1>6, SettledIds DEF IInv, ImportInv, Claim
<1>8. TokInv'
  BY <1>1, PhaseTok DEF IInv
<1>9. FrontInv'
  BY DEF FrontInv
<1>10. HeadInv'
  <2>1. \A g \in Hosts : Current(g) <=> Current(g)'
    BY DEF Current
  <2>2. SUFFICES ASSUME ~gone PROVE HeadInv'
    BY DEF HeadInv
  <2>3. device' /\ \E g \in Hosts : Head(g)'
    BY <1>2, <2>2 DEF IInv, HeadInv
  <2>4. ASSUME NEW g \in Hosts, Head(g)'
        PROVE  g # h /\ Head(g) /\ Phase(g)' = Phase(g) /\ MigOf(g)' = MigOf(g)
    BY <1>1, <1>2, <2>4, SettledIds DEF Head, Claim
  <2>5. QED
    BY <1>6, <2>1, <2>2, <2>3, <2>4 DEF IInv, HeadInv
<1>11. QED
  BY <1>1, <1>3, <1>4, <1>5, <1>7, <1>8, <1>9, <1>10 DEF IInv

\* The frontend has seen the receipt of a later incarnation.
LEMMA FrontCompleteKeeps ==
    ASSUME TypeOK, TypeOK', IInv, FrontComplete
    PROVE  IInv'
PROOF
<1>1. PICK h \in Hosts : h = front.src
  BY DEF FrontComplete, TypeOK, Fronts
<1>2. PICK t \in Toks : t = front.tok
  BY DEF FrontComplete, TypeOK, Fronts
<1>3. /\ front # None /\ front.step = "complete" /\ op[h] = None /\ Visible(h)
      /\ MigOf(h) # None /\ MigOf(h).tok = t /\ MigOf(h).phase \in {"prepared", "completed"}
  BY <1>1, <1>2 DEF FrontComplete, CompleteAccepts, InPhase
<1>4. Phase(h) \in {"prepared", "completed"}
  BY <1>3 DEF Phase
<1>5. gone \/ ~Head(h)
  <2>1. CASE Phase(h) = "completed"
    BY <2>1 DEF Head, Claim
  <2>2. CASE Phase(h) = "prepared"
    <3>1. InPhase(h, t, {"preparing", "prepared"})
      BY <1>3, <2>2 DEF InPhase, Phase
    <3>2. gone \/ \E k \in Hosts \ {h} : Head(k)
      BY <1>1, <1>2, <1>3, <3>1 DEF IInv, FrontInv
    <3>3. QED
      BY <3>2, HeadUnique
  <2>3. QED
    BY <1>4, <2>1, <2>2
<1>6. front'.tok = front.tok /\ front'.step = "cleanup"
  BY DEF FrontComplete, TypeOK, Fronts
<1>7. mig' = [mig EXCEPT ![row[h].id].phase = "completed"]
  BY <1>1 DEF FrontComplete, SetPhase
<1>8. UNCHANGED <<row, rcpt, disk, snap, store, base, art, vm, op, insts, tokens, ver, device,
                  gone>>
  BY DEF FrontComplete, moveVars, ghostVars
<1>9. QED
  BY <1>3, <1>4, <1>5, <1>6, <1>7, <1>8, CompletedKeeps

\* The operator has seen it.
LEMMA OperatorCompleteKeeps ==
    ASSUME TypeOK, TypeOK', IInv, NEW h \in Hosts, OperatorComplete(h)
    PROVE  IInv'
PROOF
<1>1. /\ op[h] = None /\ Visible(h) /\ MigOf(h) # None /\ front' = None
      /\ MigOf(h).phase \in {"prepared", "completed"}
  BY DEF OperatorComplete, CompleteAccepts, InPhase
<1>2. PICK d \in Hosts : d = MigOf(h).target
  BY <1>1 DEF TypeOK, Visible, MigOf, Rows, Migs
<1>3. Phase(h) \in {"prepared", "completed"}
  BY <1>1 DEF Phase
<1>4. ~Head(h)
  <2>1. Settled(d) /\ RcptOf(d) # None /\ RcptOf(d).tok = MigOf(h).tok
    BY <1>2 DEF OperatorComplete, HasReceipt, Settled
  <2>2. row[h].id < row[d].id /\ row[h].id \in Nat /\ row[d].id \in Nat
    BY <1>1, <2>1 DEF IInv, TokInv, MigOf, RcptOf, TypeOK, Rows, Visible, Settled, Ids
  <2>3. QED
    BY <2>1, <2>2 DEF Head
<1>5. mig' = [mig EXCEPT ![row[h].id].phase = "completed"]
  BY DEF OperatorComplete, SetPhase
<1>6. UNCHANGED <<row, rcpt, disk, snap, store, base, art, vm, op, insts, tokens, ver, device,
                  gone>>
  BY DEF OperatorComplete, moveVars, ghostVars
<1>7. QED
  BY <1>1, <1>3, <1>4, <1>5, <1>6, CompletedKeeps

\* A source is released when nothing came of its migration.
LEMMA OperatorAbortsKeeps ==
    ASSUME TypeOK, TypeOK', IInv, NEW h \in Hosts, OperatorAborts(h)
    PROVE  IInv'
PROOF
<1>1. /\ Visible(h) /\ MigOf(h) # None /\ front' = None /\ front = None
      /\ MigOf(h).phase \in {"preparing", "prepared"}
      /\ \A g \in Hosts : op[g] = None /\ (Visible(g) => row[g].id <= row[h].id)
  BY DEF OperatorAborts, Active, DestinationGone, NoLaterCopy
<1>2. UNCHANGED <<row, rcpt, disk, snap, store, base, art, vm, op, insts, tokens, ver, device,
                  gone>>
  BY DEF OperatorAborts, moveVars, ghostVars
<1>3. /\ row[h].id \in Ids /\ mig[row[h].id] = MigOf(h)
      /\ mig'[row[h].id] # None /\ mig'[row[h].id].tok = MigOf(h).tok
      /\ mig'[row[h].id].phase = "aborted"
      /\ \A j \in Ids \ {row[h].id} : mig'[j] = mig[j]
      /\ Settled(h) /\ Phase(h)' = "aborted"
      /\ \A g \in Hosts \ {h} : row[g] # None =>
            MigOf(g)' = MigOf(g) /\ Phase(g)' = Phase(g)
      /\ \A g \in Hosts : /\ Visible(g) <=> Visible(g)'
                          /\ Settled(g) <=> Settled(g)'
                          /\ Visible(g) => row[g] # None
                          /\ RcptOf(g)' = RcptOf(g)
      /\ \A g \in Hosts \ {h} : Claim(g) <=> Claim(g)'
      /\ IdInv'
  BY <1>1, <1>2, PhaseView DEF OperatorAborts, SetPhase
<1>4. Claim(h) /\ Claim(h)'
  BY <1>1, <1>3 DEF Claim, Phase
<1>5. \A g \in Hosts \ {h} : Settled(g) => row[g].id < row[h].id
  BY <1>1, <1>3, SettledIds DEF IInv, IdInv
<1>6. Head(h) /\ \A g \in Hosts : Head(g) <=> Head(g)'
  BY <1>2, <1>3, <1>4, <1>5 DEF Head
<1>7. \A g \in Hosts : ~Importing(g)'
  BY <1>1, <1>2 DEF Importing
<1>8. ChainInv'
  BY <1>2, <1>3, <1>5, SettledIds DEF IInv, ChainInv
<1>9. VMInv'
  BY <1>2, <1>3, <1>4, SettledIds DEF IInv, VMInv, TypeOK, Claim
<1>10. OpInv' /\ ImportInv'
  BY <1>1, <1>2, <1>7 DEF OpInv, ImportInv
<1>11. TokInv'
  BY <1>1, <1>2, <1>3, PhaseTok DEF IInv
<1>12. FrontInv'
  BY <1>1 DEF FrontInv
<1>13. HeadInv'
  <2>1. \A g \in Hosts : (Head(g) => g = h) /\ (Current(g) <=> Current(g)')
    BY <1>2, <1>6, HeadUnique DEF Current
  <2>2. QED
    BY <1>2, <1>3, <1>6, <1>7, <2>1 DEF IInv, HeadInv
<1>14. QED
  BY <1>3, <1>8, <1>9, <1>10, <1>11, <1>12, <1>13 DEF IInv

\* A receipt whose import is committed.
LEMMA ImportedRcpt ==
    ASSUME TypeOK, NEW i \in Ids, rcpt[i] # None,
           rcpt' = [rcpt EXCEPT ![i].phase = "imported"]
    PROVE  /\ \A j \in Ids \ {i} : rcpt'[j] = rcpt[j]
           /\ rcpt'[i] # None /\ rcpt'[i].tok = rcpt[i].tok /\ rcpt'[i].phase = "imported"
PROOF
<1> DEFINE r == [rcpt[i] EXCEPT !.phase = "imported"]
<1>1. r \in Rcpts /\ r.tok = rcpt[i].tok /\ r.phase = "imported"
  BY DEF TypeOK, Rcpts
<1>2. rcpt' = [rcpt EXCEPT ![i] = r]
  OBVIOUS
<1> HIDE DEF r
<1>3. QED
  BY <1>1, <1>2, NoneAssumption DEF TypeOK

\* A committed import is the last incarnation; the others stay fenced.
LEMMA ImportFinalizeKeeps ==
    ASSUME TypeOK, TypeOK', IInv, NEW h \in Hosts, ImportFinalize(h)
    PROVE  IInv'
PROOF
<1>1. /\ Importing(h) /\ op[h] # None /\ op[h].kind = "import" /\ op[h].step = "finalize"
      /\ Visible(h) /\ row[h] # None /\ RcptOf(h) # None /\ RcptOf(h).phase = "importing"
      /\ \A g \in Hosts : Settled(g) => row[g].id < row[h].id
      /\ \A g \in Hosts : Importing(g) => g = h
      /\ \A g \in Hosts : Claim(g) => Phase(g) = "prepared"
  BY DEF ImportFinalize, IInv, ImportInv, Importing, Visible
<1>2. ~Settled(h) /\ MigOf(h) = None /\ row[h].id \in Ids /\ row[h].id \in Nat
  BY <1>1 DEF Settled, IInv, IdInv, TypeOK, Rows, Ids
<1>3. /\ \A g \in Hosts \ {h} : row'[g] = row[g]
      /\ row'[h] # None /\ row'[h].id = row[h].id /\ row'[h].state = "stopped"
  BY <1>1, StateRow DEF ImportFinalize, TypeOK
<1>4. /\ \A j \in Ids \ {row[h].id} : rcpt'[j] = rcpt[j]
      /\ rcpt'[row[h].id] # None /\ rcpt'[row[h].id].tok = rcpt[row[h].id].tok
      /\ rcpt'[row[h].id].phase = "imported" /\ rcpt[row[h].id] # None
  BY <1>1, <1>2, ImportedRcpt DEF ImportFinalize, RcptOf
<1>5. /\ \A g \in Hosts \ {h} : op'[g] = op[g]
      /\ op'[h] # None /\ op'[h].kind = "import" /\ op'[h].step = "discard"
      /\ op'[h].tok = op[h].tok
  BY ImportStep DEF ImportFinalize
<1>6. UNCHANGED <<mig, disk, snap, store, base, art, vm, front, insts, tokens, ver, device, gone>>
  BY DEF ImportFinalize, moveVars, ghostVars
<1>7. \A g \in Hosts \ {h} : row[g] # None =>
         /\ row[g].id \in Ids \ {row[h].id}
         /\ MigOf(g)' = MigOf(g) /\ Phase(g)' = Phase(g) /\ RcptOf(g)' = RcptOf(g)
  <2>1. \A g \in Hosts \ {h} : row[g] # None => row[g].id \in Ids \ {row[h].id}
    BY <1>1 DEF IInv, IdInv, TypeOK, Rows
  <2>2. QED
    BY <1>3, <1>4, <1>6, <2>1 DEF MigOf, RcptOf, Phase
<1>8. /\ Visible(h)' /\ MigOf(h)' = None /\ RcptOf(h)' # None /\ RcptOf(h)'.phase = "imported"
      /\ Settled(h)' /\ Phase(h)' = "none" /\ Claim(h)'
  BY <1>2, <1>3, <1>4, <1>6 DEF Visible, MigOf, RcptOf, Settled, Phase, Claim
<1>9. \A g \in Hosts \ {h} : /\ Visible(g) <=> Visible(g)'
                             /\ Visible(g) => row[g] # None
  BY <1>3 DEF Visible
<1>10. \A g \in Hosts \ {h} : Settled(g) <=> Settled(g)'
  BY <1>7, <1>9 DEF Settled
<1>11. \A g \in Hosts \ {h} : Claim(g) <=> Claim(g)'
  BY <1>7, <1>10, SettledIds DEF Claim
<1>12. Head(h)' /\ \A g \in Hosts \ {h} : ~Head(g)'
  <2>1. Head(h)'
    BY <1>1, <1>3, <1>8, <1>10 DEF Head
  <2>2. ASSUME NEW g \in Hosts \ {h}, Head(g)' PROVE FALSE
    <3>1. Settled(g) /\ row'[h].id < row'[g].id
      BY <1>8, <1>10, <2>2 DEF Head, Claim
    <3>2. QED
      BY <1>1, <1>2, <1>3, <3>1, SettledIds
  <2>3. QED
    BY <2>1, <2>2
<1>13. IdInv'
  <2>1. \A g \in Hosts : (Visible(g) /\ MigOf(g) # None)' => Settled(g)'
    BY <1>7, <1>8, <1>9, <1>10 DEF IInv, IdInv
  <2>2. \A j \in Ids : mig'[j] # None \/ rcpt'[j] # None => j <= insts'
    BY <1>2, <1>4, <1>6 DEF IInv, IdInv
  <2>3. \A g, k \in Hosts : row'[g] # None /\ row'[k] # None /\ row'[g].id = row'[k].id => g = k
    BY <1>1, <1>3 DEF IInv, IdInv
  <2>4. \A g \in Hosts : row'[g] # None => row'[g].id <= insts'
    BY <1>1, <1>3, <1>6 DEF IInv, IdInv
  <2>5. \A g \in Hosts : Visible(g)' => disk'[g] # None
    BY <1>1, <1>6, <1>9 DEF IInv, IdInv
  <2>6. QED
    BY <2>1, <2>2, <2>3, <2>4, <2>5 DEF IdInv
<1>14. ChainInv'
  <2>1. ASSUME NEW g \in Hosts, NEW k \in Hosts, Settled(g)', Settled(k)',
               row'[g].id < row'[k].id
        PROVE  Phase(g)' \in {"prepared", "completed"}
    <3>1. g # h
      BY <1>1, <1>2, <1>3, <1>10, <2>1, SettledIds
    <3>2. Settled(g) /\ Phase(g)' = Phase(g)
      BY <1>7, <1>10, <2>1, <3>1, SettledIds
    <3>3. QED
      BY <1>1, <3>2 DEF Claim
  <2>2. QED
    BY <2>1 DEF ChainInv
<1>15. VMInv'
  BY <1>2, <1>6, <1>7, <1>11, SettledIds DEF IInv, VMInv, TypeOK, Claim
<1>16. OpInv'
  BY <1>5, <1>6, <1>7, <1>9 DEF IInv, OpInv
<1>17. \A g \in Hosts : ~Importing(g)'
  BY <1>1, <1>5 DEF Importing
<1>18. ImportInv'
  BY <1>17 DEF ImportInv
<1>19. TokInv'
  <2>1. \A j \in Ids : /\ rcpt'[j] = None <=> rcpt[j] = None
                       /\ rcpt[j] # None => rcpt'[j].tok = rcpt[j].tok
    BY <1>2, <1>4
  <2>2. \A t \in Toks : (Unused(t) => Unused(t)') /\ (NoObject(t) => NoObject(t)')
    BY <1>1, <1>5, <1>6, <2>1 DEF Unused, NoObject
  <2>3. \A i, j \in Ids : mig[i] # None /\ rcpt'[j] # None /\ mig[i].tok = rcpt'[j].tok => i < j
    BY <2>1 DEF IInv, TokInv
  <2>4. QED
    BY <1>6, <2>2, <2>3, TokKept DEF IInv
<1>20. FrontInv'
  <2>1. ASSUME front # None, InPhase(front.src, front.tok, {"preparing", "prepared"})'
        PROVE  InPhase(front.src, front.tok, {"preparing", "prepared"}) /\ front.src # h
    <3>1. PICK g \in Hosts, t \in Toks : g = front.src /\ t = front.tok
      BY <2>1 DEF TypeOK, Fronts
    <3>2. InPhase(g, t, {"preparing", "prepared"})'
      BY <1>6, <2>1, <3>1
    <3>3. g # h
      BY <1>8, <3>2 DEF InPhase
    <3>4. Visible(g) /\ MigOf(g)' = MigOf(g)
      BY <1>7, <1>9, <3>2, <3>3 DEF InPhase
    <3>5. InPhase(g, t, {"preparing", "prepared"})
      BY <3>2, <3>4 DEF InPhase
    <3>6. QED
      BY <3>1, <3>3, <3>5
  <2>2. QED
    BY <1>1, <1>6, <1>12, <2>1 DEF IInv, FrontInv
<1>21. HeadInv'
  <2>1. Current(h) => Current(h)'
    BY <1>6 DEF Current
  <2>2. QED
    BY <1>1, <1>6, <1>8, <1>12, <1>17, <2>1 DEF IInv, HeadInv
<1>22. QED
  BY <1>13, <1>14, <1>15, <1>16, <1>18, <1>19, <1>20, <1>21 DEF IInv

\* There is one last incarnation after a step too.
LEMMA HeadUniqueNext ==
    ASSUME TypeOK', NEW g \in Hosts, NEW h \in Hosts, Head(g)', Head(h)'
    PROVE  g = h
PROOF
<1>1. row'[g].id \in Nat /\ row'[h].id \in Nat
  BY DEF TypeOK, Rows, Ids, Head, Claim, Settled, Visible
<1>2. QED
  BY <1>1 DEF Head, Claim

\* What is deleted is the live copy, or not the last incarnation.
LEMMA DeleteKeeps ==
    ASSUME TypeOK, TypeOK', IInv, NEW h \in Hosts, Delete(h)
    PROVE  IInv'
PROOF
<1>1. /\ op[h] = None /\ Visible(h) /\ row[h] # None
      /\ MigOf(h) # None => MigOf(h).phase \in {"completed", "aborted"}
  BY DEF Delete, MayDelete, Visible
<1>2. /\ \A g \in Hosts \ {h} : row'[g] = row[g] /\ disk'[g] = disk[g]
      /\ row'[h] # None /\ row'[h].id = row[h].id /\ ~Visible(h)'
  <2>1. /\ \A g \in Hosts \ {h} : row'[g] = row[g]
        /\ row'[h] # None /\ row'[h].id = row[h].id /\ row'[h].state = "deleted"
    BY <1>1, StateRow DEF Delete, TypeOK
  <2>2. \A g \in Hosts \ {h} : disk'[g] = disk[g]
    BY DEF Delete, TypeOK
  <2>3. QED
    BY <2>1, <2>2 DEF Visible
<1>3. /\ UNCHANGED <<mig, rcpt, snap, store, base, art, op, front, insts, tokens, ver>>
      /\ vm' = vm \ {h} /\ (gone => gone') /\ (Startable(h) => gone')
  BY DEF Delete, moveVars, TypeOK
<1>4. \A g \in Hosts \ {h} : /\ Visible(g) <=> Visible(g)'
                             /\ Visible(g) => row[g] # None
                             /\ MigOf(g)' = MigOf(g)
                             /\ RcptOf(g)' = RcptOf(g)
                             /\ Phase(g)' = Phase(g)
  BY <1>2, <1>3 DEF Visible, MigOf, RcptOf, Phase
<1>5. \A g \in Hosts \ {h} : Settled(g) <=> Settled(g)'
  BY <1>4 DEF Settled
<1>6. \A g \in Hosts \ {h} : Claim(g) <=> Claim(g)'
  BY <1>4, <1>5 DEF Claim
<1>7. ~Settled(h)' /\ ~Claim(h)' /\ ~Head(h)'
  BY <1>2 DEF Settled, Claim, Head
<1>8. \A g \in Hosts \ {h} : Head(g) => Head(g)'
  BY <1>2, <1>5, <1>6, <1>7 DEF Head
<1>9. ~Startable(h) => ~Head(h) /\ ~RevokesDevice(h)
  <2>1. ASSUME ~Startable(h), RcptOf(h) # None, RcptOf(h).phase # "imported"
        PROVE  ~Head(h) /\ ~RevokesDevice(h)
    <3>1. RcptOf(h).phase = "importing"
      BY <1>1, <2>1 DEF TypeOK, RcptOf, Rows, Rcpts
    <3>2. QED
      BY <2>1, <3>1 DEF Head, Claim, Settled, RevokesDevice
  <2>2. ASSUME ~Startable(h), MigOf(h) # None, MigOf(h).phase # "aborted"
        PROVE  ~Head(h) /\ ~RevokesDevice(h)
    BY <1>1, <2>2 DEF Head, Claim, Phase, RevokesDevice
  <2>3. QED
    BY <1>1, <2>1, <2>2 DEF Startable, Fenced
<1>10. IdInv'
  BY <1>1, <1>2, <1>3, <1>4, <1>5 DEF IInv, IdInv
<1>11. ChainInv'
  BY <1>2, <1>4, <1>5, <1>7 DEF IInv, ChainInv
<1>12. VMInv'
  BY <1>3, <1>4, <1>6 DEF IInv, VMInv, TypeOK
<1>13. OpInv'
  BY <1>1, <1>3, <1>4 DEF IInv, OpInv
<1>14. \A g \in Hosts : /\ Importing(g) <=> Importing(g)'
                        /\ Importing(g) => g # h
  BY <1>1, <1>3 DEF Importing
<1>15. ImportInv'
  BY <1>2, <1>3, <1>4, <1>5, <1>6, <1>7, <1>14 DEF IInv, ImportInv
<1>16. TokInv'
  <2>1. \A t \in Toks : (Unused(t) => Unused(t)') /\ (NoObject(t) => NoObject(t)')
    BY <1>3 DEF Unused, NoObject
  <2>2. QED
    BY <1>3, <2>1, TokKept DEF IInv, TokInv
<1>17. FrontInv'
  <2>1. ASSUME front # None, InPhase(front.src, front.tok, {"preparing", "prepared"})'
        PROVE  /\ InPhase(front.src, front.tok, {"preparing", "prepared"})
               /\ front.src \in Hosts \ {h}
    <3>1. PICK g \in Hosts, t \in Toks : g = front.src /\ t = front.tok
      BY <2>1 DEF TypeOK, Fronts
    <3>2. InPhase(g, t, {"preparing", "prepared"})'
      BY <1>3, <2>1, <3>1
    <3>3. g # h
      BY <1>2, <3>2 DEF InPhase
    <3>4. InPhase(g, t, {"preparing", "prepared"})
      BY <1>4, <3>2, <3>3 DEF InPhase
    <3>5. QED
      BY <3>1, <3>3, <3>4
  <2>2. \A g \in Hosts : Head(g) => gone' \/ Head(g)'
    BY <1>3, <1>8, <1>9
  <2>3. QED
    BY <1>3, <1>8, <1>14, <2>1, <2>2 DEF IInv, FrontInv
<1>18. HeadInv'
  <2>1. SUFFICES ASSUME ~gone' PROVE HeadInv'
    BY DEF HeadInv
  <2>2. ~gone /\ ~Startable(h) /\ ~Head(h) /\ device'
    BY <1>3, <1>9, <2>1 DEF Delete, IInv, HeadInv
  <2>3. PICK m \in Hosts \ {h} : Head(m) /\ Head(m)'
    BY <1>8, <2>2 DEF IInv, HeadInv
  <2>4. ASSUME NEW g \in Hosts, Head(g)' PROVE g = m
    BY <2>3, <2>4, HeadUniqueNext
  <2>5. \A g \in Hosts \ {h} : Current(g) <=> Current(g)'
    BY <1>2, <1>3 DEF Current
  <2>6. QED
    BY <1>3, <1>4, <1>14, <2>2, <2>3, <2>4, <2>5 DEF IInv, HeadInv
<1>19. QED
  BY <1>10, <1>11, <1>12, <1>13, <1>15, <1>16, <1>17, <1>18 DEF IInv

-----------------------------------------------------------------------------
(* The invariant and what follows from it *)

\* A new instance has one incarnation, and nothing was made of it.
LEMMA InitInv == Init => TypeOK /\ IInv
PROOF
<1>1. SUFFICES ASSUME Init PROVE TypeOK /\ IInv
  OBVIOUS
<1>2. /\ 1 \in Ids /\ 0 \in Vers
      /\ \A s \in {"ready", "stopped"} :
            [id |-> 1, state |-> s, node |-> TRUE] \in Rows
      /\ [ver |-> 0, whole |-> TRUE] \in Disks
  BY MigrationAssumption DEF Ids, Vers, Rows, Disks
<1>3. PICK s \in {"ready", "stopped"} :
         /\ row = [h \in Hosts |->
                     IF h = Origin THEN [id |-> 1, state |-> s, node |-> TRUE]
                                   ELSE None]
         /\ vm = IF s = "ready" THEN {Origin} ELSE {}
  BY <1>1 DEF Init
<1>4. TypeOK
  <2>1. row \in [Hosts -> Rows \cup {None}] /\ vm \subseteq Hosts
    BY <1>2, <1>3, MigrationAssumption
  <2>2. mig \in [Ids -> Migs \cup {None}] /\ rcpt \in [Ids -> Rcpts \cup {None}]
    BY <1>1 DEF Init
  <2>3. disk \in [Hosts -> Disks \cup {None}]
    BY <1>1, <1>2 DEF Init
  <2>4. /\ snap \in [Toks -> Snaps \cup {None}] /\ base \subseteq Hosts
        /\ store \in [Hosts -> [Toks -> Vers \cup {None, Removed}]]
        /\ op \in [Hosts -> Prepares \cup Snapshots \cup Imports \cup {None}]
    BY <1>1, MigrationAssumption DEF Init
  <2>5. /\ insts \in Ids /\ tokens \in 0 .. MaxTokens /\ faults \in 0 .. MaxFaults
        /\ ver \in Vers
    BY <1>1, <1>2, MigrationAssumption DEF Init
  <2>6. /\ art \in Arts \cup {None} /\ front \in Fronts \cup {None}
        /\ device \in BOOLEAN /\ gone \in BOOLEAN
    BY <1>1 DEF Init
  <2>7. QED
    BY <2>1, <2>2, <2>3, <2>4, <2>5, <2>6 DEF TypeOK
<1>5. /\ \A h \in Hosts \ {Origin} : row[h] = None
      /\ row[Origin] # None /\ row[Origin].id = 1 /\ row[Origin].state # "deleted"
      /\ disk[Origin] # None /\ disk[Origin].whole /\ disk[Origin].ver = ver
  BY <1>1, <1>2, <1>3, NoneAssumption, MigrationAssumption DEF Init
<1>6. /\ \A i \in Ids : mig[i] = None /\ rcpt[i] = None
      /\ \A h \in Hosts : op[h] = None
      /\ front = None /\ insts = 1 /\ tokens = 0 /\ ~gone /\ device /\ art = None
      /\ \A t \in Toks : snap[t] = None /\ \A h \in Hosts : store[h][t] = None
  BY <1>1 DEF Init
<1>7. /\ Settled(Origin) /\ Phase(Origin) = "none" /\ Claim(Origin) /\ Head(Origin)
      /\ \A h \in Hosts : (Visible(h) \/ Settled(h) \/ Claim(h) \/ Head(h)) => h = Origin
      /\ \A h \in Hosts : ~Importing(h)
  BY <1>2, <1>5, <1>6 DEF Visible, Settled, Claim, Head, Phase, MigOf, RcptOf, Importing
<1>8. IdInv
  BY <1>2, <1>5, <1>6, <1>7 DEF IdInv, Ids
<1>9. VMInv /\ OpInv /\ ImportInv /\ FrontInv
  BY <1>3, <1>6, <1>7 DEF VMInv, OpInv, ImportInv, FrontInv
<1>10. ChainInv
  BY <1>5, <1>7 DEF ChainInv
<1>11. TokInv
  BY <1>6 DEF TokInv, Unused, NoObject
<1>12. HeadInv
  BY <1>5, <1>6, <1>7, MigrationAssumption DEF HeadInv, Current
<1>13. QED
  BY <1>4, <1>8, <1>9, <1>10, <1>11, <1>12 DEF IInv

\* Every step keeps it.
LEMMA NextInv == TypeOK /\ IInv /\ [Next]_vars => TypeOK' /\ IInv'
PROOF
<1>1. SUFFICES ASSUME TypeOK, IInv, [Next]_vars PROVE TypeOK' /\ IInv'
  OBVIOUS
<1>2. CASE UNCHANGED vars
  <2>1. UNCHANGED <<row, mig, rcpt, disk, snap, store, base, art, vm, op, front, insts, tokens,
                    ver, device, gone, faults>>
    BY <1>2 DEF vars, hostVars, moveVars, ghostVars
  <2>2. TypeOK'
    BY <1>1, <2>1 DEF TypeOK
  <2>3. FrameStep
    BY <2>1 DEF FrameStep, SameRows, Visible
  <2>4. QED
    BY <1>1, <2>2, <2>3, FrameKeeps
<1>3. CASE Next
  <2>0. TypeOK'
    BY <1>1, <1>3, TypeKept
  <2>1. ASSUME NEW h \in Hosts,
               \/ Start(h) \/ Stop(h) \/ GuestWrite(h) \/ Delete(h) \/ Restore(h)
               \/ HostSteps(h) \/ ImportFailure(h) \/ PrepareFails(h) \/ Crash(h)
               \/ Operator(h)
        PROVE  IInv'
    <3>1. ASSUME \/ Start(h) \/ Stop(h) \/ GuestWrite(h) \/ Delete(h) \/ Restore(h)
                 \/ PrepareFails(h) \/ Crash(h)
          PROVE  IInv'
      BY <1>1, <2>0, <3>1, FrameKeeps, StartFrame, StopFrame, RestoreFrame, FaultFrame,
         GuestWriteKeeps, DeleteKeeps
    <3>2. ASSUME HostSteps(h) \/ ImportFailure(h) PROVE IInv'
      BY <1>1, <2>0, <3>2, PrepareStopKeeps, PrepareFinishKeeps, FrameKeeps,
         PrepareReplyFrame, SnapshotSealFrame, ImportMkdirKeeps, ImportReserveKeeps,
         ImportPublishKeeps, ImportFinalizeKeeps, ImportDiscardFrame, ImportFailsKeeps DEF
         HostSteps, ImportFailure, ImportRefused
    <3>3. ASSUME Operator(h) PROVE IInv'
      BY <1>1, <2>0, <3>3, OperatorPrepareKeeps, OperatorCompleteKeeps, OperatorExportKeeps,
         OperatorImportKeeps, OperatorClearsKeeps, OperatorAbortsKeeps, FrameKeeps,
         OperatorDiscardsFrame DEF Operator
    <3>4. QED
      BY <2>1, <3>1, <3>2, <3>3
  <2>2. ASSUME NEW s \in Hosts, NEW d \in Hosts, FrontBegin(s, d) PROVE IInv'
    BY <1>1, <2>0, <2>2, FrontBeginKeeps
  <2>3. ASSUME FrontSteps PROVE IInv'
    BY <1>1, <2>0, <2>3, FrontPrepareKeeps, FrontSnapshotKeeps, FrontSendKeeps, FrameKeeps,
       FrontBaseFrame, FrontImportKeeps, FrontReceiptKeeps, FrontCompleteKeeps,
       FrontCleanupKeeps, FrontStartFrame DEF FrontSteps
  <2>4. ASSUME FrontRefused \/ FrontLost PROVE IInv'
    BY <1>1, <2>0, <2>4, FrameKeeps, FrontEndsFrame
  <2>5. QED
    BY <1>3, <2>0, <2>1, <2>2, <2>3, <2>4 DEF Next
<1>4. QED
  BY <1>1, <1>2, <1>3

\* The types and the inductive invariant hold in every behaviour, for any number of
\* hosts, incarnations, frontend migrations, guest writes and faults.
THEOREM MigrationInvariant == Spec => [](TypeOK /\ IInv)
PROOF
  BY InitInv, NextInv, PTL DEF Spec

\* At most one host runs the guest or may start it (migrationOnlyFence, the record
\* of the source and the receipt of the target), at every point of a migration and
\* of its recovery.
THEOREM OneCopyIsLive == Spec => []OneLiveCopy
PROOF
<1>1. TypeOK /\ IInv => OneLiveCopy
  <2>1. SUFFICES ASSUME TypeOK, IInv, NEW a \in Hosts, NEW b \in Hosts,
                        a \in vm \/ Startable(a), b \in vm \/ Startable(b)
                 PROVE  a = b
    BY DEF OneLiveCopy
  <2>2. \A h \in Hosts : h \in vm \/ Startable(h) => Claim(h) /\ Phase(h) # "prepared"
    BY <2>1, StartableView DEF IInv, VMInv
  <2>3. Head(a) /\ Head(b)
    BY <2>1, <2>2, LiveIsHead DEF IInv
  <2>4. QED
    BY <2>1, <2>3, HeadUnique
<1>2. QED
  BY <1>1, MigrationInvariant, PTL

\* What may be started has every write of the guest, whether it was never moved,
\* released by an abort, or imported from a native object or a portable artifact.
THEOREM StartedIsCurrent == Spec => []StartableIsCurrent
PROOF
<1>1. TypeOK /\ IInv => StartableIsCurrent
  <2>1. SUFFICES ASSUME TypeOK, IInv, ~gone, NEW h \in Hosts, Startable(h) PROVE Current(h)
    BY DEF StartableIsCurrent, Current
  <2>2. Head(h)
    BY <2>1, StartableView, LiveIsHead DEF IInv
  <2>3. QED
    BY <2>1, <2>2 DEF IInv, HeadInv
<1>2. QED
  BY <1>1, MigrationInvariant, PTL

\* No step of a migration or of its recovery destroys the only whole copy or takes
\* the guest's device from the tailnet, unless the owner deletes the live copy.
THEOREM CopyIsKept == Spec => []CopyAndDeviceKept
PROOF
<1>1. TypeOK /\ IInv => CopyAndDeviceKept
  BY DEF IInv, HeadInv, Current, CopyAndDeviceKept
<1>2. QED
  BY <1>1, MigrationInvariant, PTL

====
