----------------------------- MODULE AccountsProofs -----------------------------
(***************************************************************************)
(* Proofs about Accounts, for every set of persons, keys and sessions,     *)
(* every pool and every number of requests.                                *)
(*                                                                         *)
(* Three locks carry the argument.  The operation row of a key makes the   *)
(* commit of its receipt the only one; the player row makes the copy a     *)
(* session works on the rows that are committed plus its own request; the  *)
(* shared row of the terms keeps them current until a registration ends.   *)
(*                                                                         *)
(* The second half is about an account's history: what the level curve     *)
(* sums up to, what one more entry or row does to the sums, and that each  *)
(* copy a session works on has a right history, as the committed rows do.  *)
(***************************************************************************)
EXTENDS Accounts, FiniteSetTheorems, SequenceTheorems, SumTheorems, TLAPS

\* An installation that knows which terms it has been given as current.
Installing == {"CHECKED", "UNNAMED", "NAMED", "REPLACING"}
Phases == {"IDLE", "QUEUED", "ASKING", "READING", "AGREED"} \cup Installing \cup Holding

\* What a registration has agreed to, once it has, is current as long as it runs.
Agreed(t, current) ==
    t.request.kind = "REGISTER" /\ t.phase \in {"AGREED"} \cup Holding =>
        /\ t.seen = t.request.version /\ current = t.seen
        /\ t.seen \in Versions

\* A Rebirth is one step from the cap of the account as it is committed.
OneMore(w, old) ==
    /\ IsActive(old) /\ AtCap(old)
    /\ w.rebirths = old.rebirths + 1 /\ w.xp = 0
    /\ w.activity = old.activity /\ w.wallet = old.wallet

Terms(t) == IF t.request.kind = "REGISTER" THEN {t.request.version} ELSE {}

\* What the copy of a session has in common with the committed rows.
Derived(t, w, old) ==
    /\ IsAccount(w) /\ w.status # "NONE"
    /\ old.status # "NONE" => w.loadouts = old.loadouts
    /\ w.accepted \subseteq old.accepted \cup Terms(t)
    /\ \/ w.rebirths = old.rebirths
       \/ t.request.kind = "REBIRTH" /\ OneMore(w, old)

\* The rows of the terms a transaction has: none before it knows the current ones, and
\* then a registration those it accepts, an installation its own when it has named them.
HeldOK(t) ==
    /\ t.phase \in {"QUEUED", "ASKING", "READING"} => t.held = {}
    /\ t.phase \in {"AGREED"} \cup Holding =>
           t.held = IF t.request.kind = "REGISTER" THEN {t.request.version} ELSE {}
    /\ t.phase \in {"NAMED", "REPLACING"} => t.request.version \in t.held
    /\ None \notin t.held

\* What a transaction has at each of its phases.
TxOK(t, rows, entries, current) ==
    /\ t = [phase |-> t.phase, request |-> t.request, key |-> t.key, seen |-> t.seen,
            work |-> t.work, legs |-> t.legs, asked |-> t.asked, held |-> t.held]
    /\ t.phase \in Phases
    /\ t.phase # "IDLE" =>
           /\ t.request \in Requests /\ t.key \in KeysOf(t.request)
           /\ t.request.kind = "OWNED" => t.legs \in Seq(PlanLegs)
    /\ t.phase \in Installing => t.request.kind = "TERMS"
    /\ t.phase \in {"AGREED", "UNKNOWN"} => t.request.kind = "REGISTER"
    /\ t.phase \in {"ELIGIBLE", "REFRESHING", "REFRESHED"} => t.request.kind = "REBIRTH"
    /\ t.phase \in Holding => t.request.kind # "TERMS" /\ entries[t.key].state # "COMMITTED"
    /\ t.phase = "IDLE" => t.held = {}
    /\ t.phase # "IDLE" => Agreed(t, current) /\ HeldOK(t)
    /\ t.phase = "LOCKED" => Derived(t, t.work, rows[t.request.person])

\* One session has the operation row of a key, and one the row of a person.
Exclusive ==
    \A s, t \in Sessions :
        s # t => /\ HasRow(s) /\ HasRow(t) => tx[s].key # tx[t].key
                 /\ HasPlayer(s) /\ HasPlayer(t) => Person(s) # Person(t)

Loadout(k) == db[operation[k].of.person]

\* A registration's receipt names the loadout the player still has.
ReceiptsStand ==
    \A k \in Keys :
        operation[k].state = "COMMITTED" =>
            /\ operation[k].of \in Requests
            /\ operation[k].of.kind = "REGISTER" =>
                   /\ operation[k].of.person \in Persons
                   /\ Loadout(k).status # "NONE"
                   /\ operation[k].receipt.loadouts = Loadout(k).loadouts

\* What callers were told is what the committed rows say.
ToldFromRows ==
    \A a \in told :
        /\ a.key \in Keys
        /\ operation[a.key].state = "COMMITTED"
        /\ a = [key |-> a.key, of |-> operation[a.key].of, receipt |-> operation[a.key].receipt]

IInv ==
    /\ tx = [s \in Sessions |-> tx[s]]
    /\ db = [p \in Persons |-> db[p]] /\ \A p \in Persons : IsAccount(db[p])
    /\ operation = [k \in Keys |-> operation[k]]
    /\ terms = [recorded |-> terms.recorded, current |-> terms.current]
    /\ \A s \in Sessions : TxOK(tx[s], db, operation, terms.current)
    /\ Exclusive
    /\ ReceiptsStand
    /\ ToldFromRows

---------------------------------------------------------------------------
(* What the primitives leave alone.                                        *)

\* An account's status, loadouts and terms, which no primitive below touches.
Same(new, w) ==
    /\ IsAccount(new) /\ new.status = w.status
    /\ new.loadouts = w.loadouts /\ new.accepted = w.accepted

\* The columns the primitives write.
LEMMA Columns ==
    ASSUME NEW w, IsAccount(w), w.status # "NONE", NEW new,
           new = [w EXCEPT !.xp = new.xp, !.activity = new.activity, !.wallet = new.wallet,
                           !.rebirths = new.rebirths, !.paid = new.paid,
                           !.events = new.events, !.ledger = new.ledger]
    PROVE  Same(new, w)
<1>1. new = [status |-> w.status, cooling |-> w.cooling, loadouts |-> w.loadouts,
             accepted |-> w.accepted, xp |-> new.xp, activity |-> new.activity,
             wallet |-> new.wallet, rebirths |-> new.rebirths, paid |-> new.paid,
             events |-> new.events, ledger |-> new.ledger]
  BY DEF IsAccount
<1>2. /\ new.status = w.status /\ new.cooling = w.cooling
      /\ new.loadouts = w.loadouts /\ new.accepted = w.accepted
  BY <1>1
<1>3. w.status \in {"ACTIVE", "SOFT_FROZEN", "DELETED"} /\ \E k \in w.loadouts : w.loadouts = {k}
  BY DEF IsAccount, Absent
<1> QED BY <1>1, <1>2, <1>3, Zenon DEF Same, IsAccount

\* A grant, whatever it is worth, is no Rebirth.
LEMMA GrantKeeps ==
    ASSUME NEW w, IsAccount(w), w.status # "NONE", NEW k, NEW key, NEW amount
    PROVE  /\ Same(XpGranted(w, k, key, amount), w)
           /\ XpGranted(w, k, key, amount).rebirths = w.rebirths
<1> DEFINE new == XpGranted(w, k, key, amount)
<1>1. new = [w EXCEPT !.xp = new.xp, !.wallet = new.wallet, !.ledger = new.ledger,
                      !.events = new.events]
  BY Zenon DEF XpGranted, IsAccount
<1>2. Same(new, w) /\ new.rebirths = w.rebirths
  <2> HIDE DEF new
  <2> QED BY <1>1, Columns DEF IsAccount
<1> QED BY <1>2

\* An accrual of interest writes the days only.
LEMMA AccrualKeeps ==
    ASSUME NEW w, IsAccount(w), w.status # "NONE", NEW day
    PROVE  /\ Same(Accrued(w, day), w)
           /\ Accrued(w, day).rebirths = w.rebirths
<1> DEFINE new == Accrued(w, day)
<1>1. new = [w EXCEPT !.paid = new.paid]
  BY Zenon DEF Accrued, IsAccount
<1>2. Same(new, w) /\ new.rebirths = w.rebirths
  <2> HIDE DEF new
  <2> QED BY <1>1, Columns DEF IsAccount
<1> QED BY <1>2

\* A Rebirth keeps everything but the experience.
LEMMA RebirthKeeps ==
    ASSUME NEW w, IsAccount(w), w.status # "NONE", NEW k, NEW asked
    PROVE  /\ Same(Reborn(w, k, asked), w)
           /\ Reborn(w, k, asked).rebirths = w.rebirths + 1 /\ Reborn(w, k, asked).xp = 0
           /\ Reborn(w, k, asked).activity = w.activity
           /\ Reborn(w, k, asked).wallet = w.wallet
<1> DEFINE new == Reborn(w, k, asked)
<1>1. new = [w EXCEPT !.xp = 0, !.rebirths = w.rebirths + 1, !.events = new.events]
  BY Zenon DEF Reborn, IsAccount
<1>2. /\ Same(new, w) /\ new.rebirths = w.rebirths + 1 /\ new.xp = 0
      /\ new.activity = w.activity /\ new.wallet = w.wallet
  <2> HIDE DEF new
  <2> QED BY <1>1, Columns DEF IsAccount
<1> QED BY <1>2

\* A leg of an owning operation changes points and money only.
LEMMA LegKeeps ==
    ASSUME NEW w, IsAccount(w), w.status # "NONE", NEW k, NEW leg \in PlanLegs
    PROVE  Same(Ran(w, k, leg), w) /\ Ran(w, k, leg).rebirths = w.rebirths
<1> DEFINE new == Ran(w, k, leg)
<1>1. leg.kind \in {"XP", "ACTIVITY", "SPEND"}
  BY DEF PlanLegs
<1>2. CASE leg.kind = "XP"
  <2>1. new = XpGranted(w, k, SettlementKey, leg.amount)
    BY <1>2 DEF Ran
  <2> QED BY <2>1, GrantKeeps
<1>3. CASE leg.kind # "XP"
  <2>1. new = [w EXCEPT !.activity = new.activity, !.events = new.events]
        \/ new = [w EXCEPT !.wallet = new.wallet, !.ledger = new.ledger]
    BY <1>1, <1>3, Zenon DEF Ran, IsAccount
  <2>2. Same(new, w) /\ new.rebirths = w.rebirths
    <3> HIDE DEF new
    <3> QED BY <2>1, Columns DEF IsAccount
  <2> QED BY <2>2
<1> QED BY <1>2, <1>3

---------------------------------------------------------------------------
(* Steps of one session that leave the tables alone.                       *)

\* A session that moves to a sound transaction, and takes no row that another has,
\* keeps the invariant.
LEMMA Moves ==
    ASSUME IInv, NEW s \in Sessions, NEW new,
           tx' = [tx EXCEPT ![s] = new],
           TxOK(new, db, operation, terms.current),
           new.phase \in Holding =>
               \/ HasRow(s) /\ new.key = tx[s].key
               \/ \A t \in Sessions \ {s} : HasRow(t) => tx[t].key # new.key,
           new.phase = "LOCKED" =>
               \/ HasPlayer(s) /\ new.request = tx[s].request
               \/ \A t \in Sessions \ {s} : HasPlayer(t) => Person(t) # new.request.person,
           UNCHANGED <<db, operation, terms>>,
           ToldFromRows'
    PROVE  IInv'
<1>1. tx' = [t \in Sessions |-> IF t = s THEN new ELSE tx[t]]
  BY DEF IInv
<1>2. \A t \in Sessions : TxOK(tx'[t], db, operation, terms.current)
  BY <1>1 DEF IInv
<1>3. Exclusive'
  <2> SUFFICES ASSUME NEW a \in Sessions, NEW b \in Sessions, a # b
               PROVE  /\ HasRow(a)' /\ HasRow(b)' => tx'[a].key # tx'[b].key
                      /\ HasPlayer(a)' /\ HasPlayer(b)' => Person(a)' # Person(b)'
    BY DEF Exclusive
  <2>1. Exclusive
    BY DEF IInv
  <2> QED BY <1>1, <2>1 DEF Exclusive, HasRow, HasPlayer, Person
<1>4. ReceiptsStand'
  BY DEF IInv, ReceiptsStand, Loadout
<1>5. tx' = [t \in Sessions |-> tx'[t]]
  BY <1>1
<1> QED BY <1>2, <1>3, <1>4, <1>5 DEF IInv

\* An idle transaction is sound.
LEMMA IdleOK ==
    ASSUME NEW rows, NEW entries, NEW current
    PROVE  TxOK(Idle, rows, entries, current)
  BY DEF TxOK, Idle, Phases, Installing, Holding

\* Whoever leaves, whether refused, rolled back or answered, disturbs nothing.
LEMMA Leaves ==
    ASSUME IInv, NEW s \in Sessions, Leave(s), UNCHANGED <<db, operation, terms>>,
           ToldFromRows'
    PROVE  IInv'
<1>1. Idle.phase \notin Holding /\ Idle.phase # "LOCKED"
  BY DEF Idle, Holding
<1>2. TxOK(Idle, db, operation, terms.current)
  BY IdleOK
<1>3. tx' = [tx EXCEPT ![s] = Idle]
  BY DEF Leave
<1> QED BY <1>1, <1>2, <1>3, Moves

\* A session that only goes on to its next statement.
LEMMA Steps ==
    ASSUME IInv, NEW s \in Sessions, NEW phase, Goes(s, phase)
    PROVE  \E new : /\ tx' = [tx EXCEPT ![s] = new]
                    /\ new = [phase |-> phase, request |-> tx[s].request, key |-> tx[s].key,
                              seen |-> tx[s].seen, work |-> tx[s].work, legs |-> tx[s].legs,
                              asked |-> tx[s].asked, held |-> tx[s].held]
<1>1. TxOK(tx[s], db, operation, terms.current) /\ tx = [t \in Sessions |-> tx[t]]
  BY DEF IInv
<1>2. tx' = [tx EXCEPT ![s] = [tx[s] EXCEPT !.phase = phase]]
  BY <1>1 DEF Goes
<1>3. [tx[s] EXCEPT !.phase = phase] =
          [phase |-> phase, request |-> tx[s].request, key |-> tx[s].key,
           seen |-> tx[s].seen, work |-> tx[s].work, legs |-> tx[s].legs,
           asked |-> tx[s].asked, held |-> tx[s].held]
  BY <1>1 DEF TxOK
<1> QED BY <1>2, <1>3

\* One that comes to hold rows of the terms with it.
LEMMA Collects ==
    ASSUME IInv, NEW s \in Sessions, NEW phase, NEW rows, Holds(s, phase, rows)
    PROVE  \E new : /\ tx' = [tx EXCEPT ![s] = new]
                    /\ new = [phase |-> phase, request |-> tx[s].request, key |-> tx[s].key,
                              seen |-> tx[s].seen, work |-> tx[s].work, legs |-> tx[s].legs,
                              asked |-> tx[s].asked, held |-> rows]
<1>1. TxOK(tx[s], db, operation, terms.current) /\ tx = [t \in Sessions |-> tx[t]]
  BY DEF IInv
<1> DEFINE new == [tx[s] EXCEPT !.phase = phase, !.held = rows]
<1>2. tx' = [tx EXCEPT ![s] = new]
  BY <1>1 DEF Holds
<1>3. new = [tx[s] EXCEPT !.phase = phase, !.held = rows]
  OBVIOUS
<1> HIDE DEF new
<1>4. new = [phase |-> phase, request |-> tx[s].request, key |-> tx[s].key,
             seen |-> tx[s].seen, work |-> tx[s].work, legs |-> tx[s].legs,
             asked |-> tx[s].asked, held |-> rows]
  BY <1>1, <1>3 DEF TxOK
<1> QED BY <1>2, <1>4

---------------------------------------------------------------------------
(* The steps of a request up to its player row.                            *)

\* A new request is sound, and takes nothing.
LEMMA BeginKeeps ==
    ASSUME IInv, NEW s \in Sessions, Begin(s)
    PROVE  IInv'
<1>1. PICK r \in Requests : \E k \in KeysOf(r), legs \in PlansOf(r) :
          tx' = [tx EXCEPT ![s] = Asking(r, k, legs)]
  BY DEF Begin
<1>2. PICK k \in KeysOf(r), legs \in PlansOf(r) : tx' = [tx EXCEPT ![s] = Asking(r, k, legs)]
  BY <1>1
<1> DEFINE new == Asking(r, k, legs)
<1>3. r.kind = "OWNED" => legs \in Seq(PlanLegs)
  BY RequestsAssumption DEF PlansOf
<1>4. TxOK(new, db, operation, terms.current)
  BY <1>3 DEF TxOK, Agreed, HeldOK, Phases, Installing, Holding, Asking
<1>5. new.phase \notin Holding /\ new.phase # "LOCKED"
  BY DEF Holding, Asking
<1>6. UNCHANGED <<db, operation, terms>> /\ ToldFromRows'
  BY DEF Begin, IInv, ToldFromRows
<1> QED BY <1>2, <1>4, <1>5, <1>6, Moves

\* The statements before the operation row is taken.
LEMMA AsksKeep ==
    ASSUME IInv, NEW s \in Sessions,
           \/ Connect(s) \/ ReadTerms(s) \/ Agree(s) \/ Check(s)
           \/ FindVersion(s) \/ MissVersion(s) \/ InsertVersion(s) \/ Replace(s)
    PROVE  IInv'
<1>1. TxOK(tx[s], db, operation, terms.current) /\ tx = [t \in Sessions |-> tx[t]]
  BY DEF IInv
<1>2. UNCHANGED <<db, operation, terms>> /\ ToldFromRows'
  BY DEF Connect, ReadTerms, Agree, Check, FindVersion, MissVersion, InsertVersion, Replace,
         IInv, ToldFromRows
<1>3. ASSUME NEW new, tx' = [tx EXCEPT ![s] = new], TxOK(new, db, operation, terms.current),
             new.phase \in {"ASKING", "READING", "AGREED"} \cup Installing
      PROVE  IInv'
  <2>1. new.phase \notin Holding /\ new.phase # "LOCKED"
    BY <1>3 DEF Holding, Installing
  <2> QED BY <1>2, <1>3, <2>1, Moves
<1>4. CASE Connect(s)
  <2>1. PICK new : /\ tx' = [tx EXCEPT ![s] = new]
                   /\ new = [phase |-> "ASKING", request |-> tx[s].request, key |-> tx[s].key,
                             seen |-> tx[s].seen, work |-> tx[s].work, legs |-> tx[s].legs,
                             asked |-> tx[s].asked, held |-> tx[s].held]
    BY <1>4, Steps DEF Connect
  <2>2. tx[s].phase = "QUEUED"
    BY <1>4 DEF Connect
  <2>3. TxOK(new, db, operation, terms.current)
    BY <1>1, <2>1, <2>2 DEF TxOK, Agreed, HeldOK, Phases, Installing, Holding
  <2> QED BY <1>3, <2>1, <2>3
<1>5. CASE ReadTerms(s)
  <2> DEFINE new == [tx[s] EXCEPT !.phase = "READING", !.seen = terms.current]
  <2>1. tx' = [tx EXCEPT ![s] = new]
    BY <1>1, <1>5 DEF ReadTerms
  <2> HIDE DEF new
  <2>0. new = [tx[s] EXCEPT !.phase = "READING", !.seen = terms.current]
    BY DEF new
  <2>2. new = [phase |-> "READING", request |-> tx[s].request, key |-> tx[s].key,
               seen |-> terms.current, work |-> tx[s].work, legs |-> tx[s].legs,
               asked |-> tx[s].asked, held |-> tx[s].held]
    BY <1>1, <2>0 DEF TxOK
  <2>3. tx[s].phase = "ASKING"
    BY <1>5 DEF ReadTerms
  <2>4. TxOK(new, db, operation, terms.current)
    BY <1>1, <2>2, <2>3 DEF TxOK, Agreed, HeldOK, Phases, Installing, Holding
  <2> QED BY <1>3, <2>1, <2>2, <2>4
<1>6. CASE Agree(s)
  <2>1. PICK new : /\ tx' = [tx EXCEPT ![s] = new]
                   /\ new = [phase |-> "AGREED", request |-> tx[s].request, key |-> tx[s].key,
                             seen |-> tx[s].seen, work |-> tx[s].work, legs |-> tx[s].legs,
                             asked |-> tx[s].asked, held |-> {tx[s].seen}]
    BY <1>6, Collects DEF Agree
  <2>2. tx[s].phase = "READING" /\ tx[s].request.kind = "REGISTER"
    BY <1>6 DEF Agree, Asks
  <2>3. tx[s].request.version \in Versions
    BY <1>1, <2>2, RequestsAssumption DEF TxOK
  <2>4. tx[s].seen = tx[s].request.version /\ terms.current = tx[s].seen
    BY <1>6, <2>3, VersionsAssumption DEF Agree, Returned
  <2>5. TxOK(new, db, operation, terms.current)
    BY <1>1, <2>1, <2>2, <2>3, <2>4, VersionsAssumption
       DEF TxOK, Agreed, HeldOK, Phases, Installing, Holding
  <2> QED BY <1>3, <2>1, <2>5
<1>7. CASE Check(s)
  <2>1. PICK new : /\ tx' = [tx EXCEPT ![s] = new]
                   /\ new = [phase |-> "CHECKED", request |-> tx[s].request, key |-> tx[s].key,
                             seen |-> tx[s].seen, work |-> tx[s].work, legs |-> tx[s].legs,
                             asked |-> tx[s].asked, held |-> {tx[s].seen} \ {None}]
    BY <1>7, Collects DEF Check
  <2>2. tx[s].phase = "READING" /\ tx[s].request.kind = "TERMS"
    BY <1>7 DEF Check, Asks
  <2>3. TxOK(new, db, operation, terms.current)
    BY <1>1, <2>1, <2>2 DEF TxOK, Agreed, HeldOK, Phases, Installing, Holding
  <2>4. new.phase \in Installing
    BY <2>1 DEF Installing
  <2> QED BY <1>3, <2>1, <2>3, <2>4
<1>8. CASE FindVersion(s) \/ InsertVersion(s)
  <2>1. PICK new : /\ tx' = [tx EXCEPT ![s] = new]
                   /\ new = [phase |-> "NAMED", request |-> tx[s].request, key |-> tx[s].key,
                             seen |-> tx[s].seen, work |-> tx[s].work, legs |-> tx[s].legs,
                             asked |-> tx[s].asked,
                             held |-> tx[s].held \cup {tx[s].request.version}]
    BY <1>8, Collects DEF FindVersion, InsertVersion, Named
  <2>2. tx[s].phase \in Installing /\ tx[s].phase \notin {"IDLE"} \cup Holding
    BY <1>8 DEF FindVersion, InsertVersion, Installing, Holding
  <2>3. tx[s].request.kind = "TERMS" /\ tx[s].request.version \in Versions
    BY <1>1, <2>2, RequestsAssumption DEF TxOK
  <2>4. TxOK(new, db, operation, terms.current)
    BY <1>1, <2>1, <2>2, <2>3, VersionsAssumption
       DEF TxOK, Agreed, HeldOK, Phases, Installing, Holding
  <2>5. new.phase \in Installing
    BY <2>1 DEF Installing
  <2> QED BY <1>3, <2>1, <2>4, <2>5
<1>9. CASE MissVersion(s)
  <2>1. PICK new : /\ tx' = [tx EXCEPT ![s] = new]
                   /\ new = [phase |-> "UNNAMED", request |-> tx[s].request, key |-> tx[s].key,
                             seen |-> tx[s].seen, work |-> tx[s].work, legs |-> tx[s].legs,
                             asked |-> tx[s].asked, held |-> tx[s].held]
    BY <1>9, Steps DEF MissVersion
  <2>2. tx[s].phase = "CHECKED"
    BY <1>9 DEF MissVersion
  <2>3. TxOK(new, db, operation, terms.current)
    BY <1>1, <2>1, <2>2 DEF TxOK, Agreed, HeldOK, Phases, Installing, Holding
  <2>4. new.phase \in Installing
    BY <2>1 DEF Installing
  <2> QED BY <1>3, <2>1, <2>3, <2>4
<1>10. CASE Replace(s)
  <2>1. PICK seen : tx' = [tx EXCEPT ![s].phase = "REPLACING", ![s].seen = seen]
    BY <1>10 DEF Replace
  <2> DEFINE new == [tx[s] EXCEPT !.phase = "REPLACING", !.seen = seen]
  <2>2. tx' = [tx EXCEPT ![s] = new]
    BY <1>1, <2>1
  <2>3. new = [tx[s] EXCEPT !.phase = "REPLACING", !.seen = seen]
    OBVIOUS
  <2> HIDE DEF new
  <2>4. new = [phase |-> "REPLACING", request |-> tx[s].request, key |-> tx[s].key,
               seen |-> seen, work |-> tx[s].work, legs |-> tx[s].legs,
               asked |-> tx[s].asked, held |-> tx[s].held]
    BY <1>1, <2>3 DEF TxOK
  <2>5. tx[s].phase = "NAMED"
    BY <1>10 DEF Replace
  <2>6. TxOK(new, db, operation, terms.current)
    BY <1>1, <2>4, <2>5 DEF TxOK, Agreed, HeldOK, Phases, Installing, Holding
  <2>7. new.phase \in Installing
    BY <2>4 DEF Installing
  <2> QED BY <1>3, <2>2, <2>6, <2>7
<1> QED BY <1>4, <1>5, <1>6, <1>7, <1>8, <1>9, <1>10

\* The operation row is taken when nobody has it and nothing is committed under it.
LEMMA OpenKeeps ==
    ASSUME IInv, NEW s \in Sessions, Open(s)
    PROVE  IInv'
<1>1. TxOK(tx[s], db, operation, terms.current) /\ tx = [t \in Sessions |-> tx[t]]
  BY DEF IInv
<1>2. UNCHANGED <<db, operation, terms>> /\ ToldFromRows'
  BY DEF Open, IInv, ToldFromRows
<1>3. PICK new : /\ tx' = [tx EXCEPT ![s] = new]
                 /\ new = [phase |-> "OPEN", request |-> tx[s].request, key |-> tx[s].key,
                           seen |-> tx[s].seen, work |-> tx[s].work, legs |-> tx[s].legs,
                           asked |-> tx[s].asked, held |-> tx[s].held]
  BY Steps DEF Open
<1>4. /\ tx[s].phase \in {"ASKING", "AGREED"} /\ tx[s].request.kind # "TERMS"
      /\ tx[s].phase = "ASKING" => tx[s].request.kind # "REGISTER"
  BY <1>1 DEF Open, TxOK, Asks
<1>5. operation[tx[s].key].state # "COMMITTED"
  BY DEF Open, Entry, NoEntry
<1>6. TxOK(new, db, operation, terms.current)
  BY <1>1, <1>3, <1>4, <1>5 DEF TxOK, Agreed, HeldOK, Phases, Installing, Holding
<1>7. \A t \in Sessions \ {s} : HasRow(t) => tx[t].key # new.key
  BY <1>3 DEF Open, RowFree
<1> QED BY <1>2, <1>3, <1>6, <1>7, Moves

---------------------------------------------------------------------------
(* The steps under the operation row.                                      *)

\* A step of a session that goes on without the player row.
LEMMA GoesOn ==
    ASSUME IInv, NEW s \in Sessions, NEW phase, Goes(s, phase),
           tx[s].phase \in Holding, phase \in Holding \ {"LOCKED"},
           phase = "UNKNOWN" => tx[s].request.kind = "REGISTER",
           phase \in {"ELIGIBLE", "REFRESHING", "REFRESHED"} => tx[s].request.kind = "REBIRTH",
           UNCHANGED <<db, operation, terms, told>>
    PROVE  IInv'
<1>1. TxOK(tx[s], db, operation, terms.current) /\ HasRow(s)
  BY DEF IInv, HasRow
<1>2. PICK new : /\ tx' = [tx EXCEPT ![s] = new]
                 /\ new = [phase |-> phase, request |-> tx[s].request, key |-> tx[s].key,
                           seen |-> tx[s].seen, work |-> tx[s].work, legs |-> tx[s].legs,
                           asked |-> tx[s].asked, held |-> tx[s].held]
  BY Steps
<1>3. TxOK(new, db, operation, terms.current)
  BY <1>1, <1>2 DEF TxOK, Agreed, HeldOK, Phases, Installing, Holding
<1>4. ToldFromRows'
  BY DEF IInv, ToldFromRows
<1> QED BY <1>1, <1>2, <1>3, <1>4, Moves

\* A session works on, or begins to work on, a copy derived from the committed rows.
LEMMA WorksOn ==
    ASSUME IInv, NEW s \in Sessions, NEW w, NEW legs, Works(s, w, legs),
           tx[s].phase \in Holding, HasPlayer(s) \/ PlayerFree(s),
           tx[s].request.kind = "OWNED" => legs \in Seq(PlanLegs),
           Derived(tx[s], w, db[Person(s)]),
           UNCHANGED <<db, operation, terms, told>>
    PROVE  IInv'
<1>1. TxOK(tx[s], db, operation, terms.current) /\ HasRow(s) /\ tx = [t \in Sessions |-> tx[t]]
  BY DEF IInv, HasRow
<1> DEFINE new == [tx[s] EXCEPT !.phase = "LOCKED", !.work = w, !.legs = legs]
<1>2. tx' = [tx EXCEPT ![s] = new]
  BY <1>1 DEF Works
<1> HIDE DEF new
<1>3. new = [phase |-> "LOCKED", request |-> tx[s].request, key |-> tx[s].key,
             seen |-> tx[s].seen, work |-> w, legs |-> legs,
             asked |-> tx[s].asked, held |-> tx[s].held]
  <2>1. new = [tx[s] EXCEPT !.phase = "LOCKED", !.work = w, !.legs = legs]
    BY DEF new
  <2> QED BY <1>1, <2>1 DEF TxOK
<1>4. Derived(new, w, db[Person(s)])
  BY <1>3 DEF Derived, Terms
<1>5. TxOK(new, db, operation, terms.current)
  <2> HIDE DEF Derived
  <2> QED BY <1>1, <1>3, <1>4 DEF TxOK, Agreed, HeldOK, Phases, Installing, Holding, Person
<1>6. ToldFromRows'
  BY DEF IInv, ToldFromRows
<1>7. HasPlayer(s) \/ \A t \in Sessions \ {s} : HasPlayer(t) => Person(t) # new.request.person
  BY <1>3 DEF PlayerFree, Person
<1> QED BY <1>1, <1>2, <1>3, <1>5, <1>6, <1>7, Moves

\* The rows of a session's person, and what it may work on.
LEMMA OwnRows ==
    ASSUME IInv, NEW s \in Sessions, tx[s].phase \in Holding
    PROVE  /\ Person(s) \in Persons /\ IsAccount(db[Person(s)])
           /\ tx[s].request \in Requests
           /\ tx[s].request.kind \in {"REGISTER", "GRANT", "REBIRTH", "OWNED"}
           /\ HasPlayer(s) => Derived(tx[s], tx[s].work, db[Person(s)])
<1>1. TxOK(tx[s], db, operation, terms.current)
  BY DEF IInv
<1>2. tx[s].phase # "IDLE" /\ tx[s].request \in Requests /\ tx[s].request.kind # "TERMS"
  BY <1>1 DEF TxOK, Holding
<1>3. Person(s) \in Persons /\ tx[s].request.kind \in {"REGISTER", "GRANT", "REBIRTH", "OWNED"}
  BY <1>2, RequestsAssumption DEF Person
<1> QED BY <1>1, <1>2, <1>3 DEF IInv, TxOK, HasPlayer, Person

\* A copy of an account whose rows are kept is derived from it.
LEMMA SameIsDerived ==
    ASSUME NEW t, NEW old, NEW w, NEW new,
           Derived(t, w, old), Same(new, w), new.rebirths = w.rebirths,
           w.rebirths = old.rebirths
    PROVE  Derived(t, new, old)
  BY DEF Derived, Same

\* A registration's copy is the row that is there with the terms, or a new one.
LEMMA RegistersKeep ==
    ASSUME IInv, NEW s \in Sessions, Return(s) \/ MissPlayer(s) \/ Enrol(s)
    PROVE  IInv'
<1>1. TxOK(tx[s], db, operation, terms.current)
  BY DEF IInv
<1>2. tx[s].phase \in {"OPEN", "UNKNOWN"} /\ tx[s].request.kind = "REGISTER"
  BY <1>1 DEF Return, MissPlayer, Enrol, Registering, Asks, TxOK
<1>3. tx[s].phase \in Holding /\ IsAccount(db[Person(s)])
  BY <1>2, OwnRows DEF Holding
<1>4. CASE Return(s)
  <2> DEFINE old == db[Person(s)]
             new == [old EXCEPT !.accepted = @ \cup {tx[s].request.version}]
  <2>1. IsAccount(old) /\ old.status # "NONE"
    BY <1>3, <1>4 DEF Return, Exists
  <2>2. new = [status |-> old.status, cooling |-> old.cooling, loadouts |-> old.loadouts,
               accepted |-> new.accepted, xp |-> old.xp, activity |-> old.activity,
               wallet |-> old.wallet, rebirths |-> old.rebirths, paid |-> old.paid,
               events |-> old.events, ledger |-> old.ledger]
        /\ new.accepted = old.accepted \cup {tx[s].request.version}
    BY <2>1 DEF IsAccount
  <2>3. Works(s, new, <<>>) /\ PlayerFree(s) /\ UNCHANGED <<db, operation, terms, told>>
    BY <1>4 DEF Return
  <2> HIDE DEF new
  <2>4. IsAccount(new)
    BY <2>1, <2>2 DEF IsAccount, Absent
  <2>5. Derived(tx[s], new, old)
    BY <1>2, <2>1, <2>2, <2>4 DEF Derived, Terms
  <2> QED BY <1>2, <1>3, <2>3, <2>5, WorksOn
<1>5. CASE MissPlayer(s)
  BY <1>2, <1>3, <1>5, GoesOn DEF MissPlayer, Holding
<1>6. CASE Enrol(s)
  <2> DEFINE old == db[Person(s)]
             made == Created(tx[s].key, tx[s].request.version, today)
             new == [made EXCEPT !.loadouts = @ \cup old.loadouts]
  <2>1. old = Absent
    BY <1>3, <1>6 DEF Enrol, Unclaimed, IsAccount
  <2>2. made = [Absent EXCEPT !.status = "ACTIVE", !.loadouts = {tx[s].key},
                              !.accepted = {tx[s].request.version}, !.paid = made.paid]
    BY Zenon DEF Created, Absent
  <2> HIDE DEF made
  <2>3. made = [status |-> "ACTIVE", cooling |-> FALSE, loadouts |-> {tx[s].key},
                accepted |-> {tx[s].request.version}, xp |-> 0, activity |-> 0, wallet |-> 0,
                rebirths |-> 0, paid |-> made.paid, events |-> <<>>, ledger |-> {}]
    BY <2>2 DEF Absent
  <2>4. Works(s, new, <<>>) /\ PlayerFree(s) /\ UNCHANGED <<db, operation, terms, told>>
    BY <1>6 DEF Enrol, made
  <2> HIDE DEF new
  <2>5. made.loadouts \cup old.loadouts = {tx[s].key}
    BY <2>1, <2>3 DEF Absent
  <2>6. new = [status |-> made.status, cooling |-> made.cooling, loadouts |-> {tx[s].key},
               accepted |-> made.accepted, xp |-> made.xp, activity |-> made.activity,
               wallet |-> made.wallet, rebirths |-> made.rebirths, paid |-> made.paid,
               events |-> made.events, ledger |-> made.ledger]
    <3>1. new = [made EXCEPT !.loadouts = {tx[s].key}]
      BY <2>5, Zenon DEF new
    <3>2. made = [status |-> made.status, cooling |-> made.cooling, loadouts |-> made.loadouts,
                  accepted |-> made.accepted, xp |-> made.xp, activity |-> made.activity,
                  wallet |-> made.wallet, rebirths |-> made.rebirths, paid |-> made.paid,
                  events |-> made.events, ledger |-> made.ledger]
      BY <2>3
    <3> QED BY <3>1, <3>2
  <2>7. IsAccount(new)
    BY <2>3, <2>6 DEF IsAccount
  <2>8. Derived(tx[s], new, old)
    BY <1>2, <2>1, <2>3, <2>6, <2>7 DEF Derived, Terms, Absent
  <2> QED BY <1>2, <1>3, <2>4, <2>8, WorksOn
<1> QED BY <1>4, <1>5, <1>6

\* The copies of a grant and of a Rebirth differ from the row by the request only.
LEMMA GrantsKeep ==
    ASSUME IInv, NEW s \in Sessions, Grant(s) \/ Eligible(s) \/ BeginRefresh(s) \/ Rebirth(s)
    PROVE  IInv'
<1>1. TxOK(tx[s], db, operation, terms.current) /\ tx = [t \in Sessions |-> tx[t]]
  BY DEF IInv
<1>2. tx[s].phase \in {"OPEN", "ELIGIBLE", "REFRESHED"} /\ tx[s].request.kind \in {"GRANT", "REBIRTH"}
  BY <1>1 DEF Grant, Eligible, BeginRefresh, Rebirth, Asks, TxOK
<1>3. tx[s].phase \in Holding /\ IsAccount(db[Person(s)])
  BY <1>2, OwnRows DEF Holding
<1>4. CASE Grant(s)
  <2> DEFINE old == db[Person(s)]
             new == XpGranted(old, tx[s].key, "primary", tx[s].request.amount)
  <2>1. old.status # "NONE" /\ Works(s, new, <<>>) /\ PlayerFree(s)
        /\ UNCHANGED <<db, operation, terms, told>>
    BY <1>4 DEF Grant, IsActive
  <2>2. Same(new, old) /\ new.rebirths = old.rebirths
    BY <1>3, <2>1, GrantKeeps
  <2> HIDE DEF new
  <2>3. Derived(tx[s], new, old)
    BY <2>1, <2>2 DEF Derived, Same
  <2> QED BY <1>2, <1>3, <2>1, <2>3, WorksOn
<1>5. CASE Eligible(s)
  BY <1>2, <1>3, <1>5, GoesOn DEF Eligible, Holding, Asks
<1>6. CASE BeginRefresh(s)
  <2> DEFINE new == [tx[s] EXCEPT !.phase = "REFRESHING", !.seen = today]
  <2>1. tx' = [tx EXCEPT ![s] = new] /\ tx[s].phase = "ELIGIBLE"
        /\ UNCHANGED <<db, operation, terms, told>>
    BY <1>1, <1>6 DEF BeginRefresh
  <2>2. new = [tx[s] EXCEPT !.phase = "REFRESHING", !.seen = today]
    OBVIOUS
  <2> HIDE DEF new
  <2>3. new = [phase |-> "REFRESHING", request |-> tx[s].request, key |-> tx[s].key,
               seen |-> today, work |-> tx[s].work, legs |-> tx[s].legs,
               asked |-> tx[s].asked, held |-> tx[s].held]
    BY <1>1, <2>2 DEF TxOK
  <2>4. TxOK(new, db, operation, terms.current)
    BY <1>1, <2>1, <2>3 DEF TxOK, Agreed, HeldOK, Phases, Installing, Holding
  <2>5. HasRow(s) /\ new.key = tx[s].key /\ new.phase # "LOCKED" /\ ToldFromRows'
    BY <1>3, <2>1, <2>3 DEF HasRow, IInv, ToldFromRows
  <2> QED BY <2>1, <2>4, <2>5, Moves
<1>7. CASE Rebirth(s)
  <2> DEFINE old == db[Person(s)]
             new == Reborn(old, tx[s].key, tx[s].asked)
  <2>1. /\ old.status # "NONE" /\ IsActive(old) /\ AtCap(old)
        /\ Works(s, new, <<>>) /\ PlayerFree(s) /\ tx[s].phase = "REFRESHED"
        /\ UNCHANGED <<db, operation, terms, told>>
    BY <1>7 DEF Rebirth, MayBeReborn, IsActive
  <2>2. /\ Same(new, old) /\ new.rebirths = old.rebirths + 1 /\ new.xp = 0
        /\ new.activity = old.activity /\ new.wallet = old.wallet
    BY <1>3, <2>1, RebirthKeeps
  <2>3. tx[s].request.kind = "REBIRTH"
    BY <1>1, <2>1 DEF TxOK
  <2> HIDE DEF new
  <2>4. Derived(tx[s], new, old)
    <3> HIDE DEF old
    <3> QED BY <2>1, <2>2, <2>3 DEF Derived, Same, OneMore
  <2> QED BY <1>3, <2>1, <2>3, <2>4, WorksOn
<1> QED BY <1>4, <1>5, <1>6, <1>7

\* What an owning operation sees is its copy or, before it has one, an account as
\* it is committed.
LEMMA OwnerSees ==
    ASSUME IInv, NEW s \in Sessions, Legs(s)
    PROVE  /\ tx[s].phase \in Holding /\ tx[s].request.kind = "OWNED"
           /\ tx[s].legs \in Seq(PlanLegs)
           /\ IsAccount(Sees(s)) /\ Sees(s).rebirths = db[Person(s)].rebirths
           /\ HasPlayer(s) => Derived(tx[s], Sees(s), db[Person(s)])
           /\ Sees(s).status # "NONE" => Derived(tx[s], Sees(s), db[Person(s)])
<1>1. tx[s].phase \in Holding /\ tx[s].request.kind = "OWNED" /\ tx[s].phase # "IDLE"
  BY DEF Legs, Holding, Asks
<1>2. tx[s].legs \in Seq(PlanLegs)
  BY <1>1 DEF IInv, TxOK
<1>3. CASE HasPlayer(s)
  BY <1>1, <1>2, <1>3, OwnRows DEF Sees, Derived
<1>4. CASE ~ HasPlayer(s)
  BY <1>1, <1>2, <1>4, OwnRows DEF Sees, Derived
<1> QED BY <1>3, <1>4

\* So does the copy of an operation that owns its legs, after any of them.
LEMMA LegsKeep ==
    ASSUME IInv, NEW s \in Sessions, Prepare(s) \/ RunAgain(s) \/ Run(s)
    PROVE  IInv'
<1>1. TxOK(tx[s], db, operation, terms.current) /\ tx = [t \in Sessions |-> tx[t]]
  BY DEF IInv
<1>2. Legs(s) /\ tx[s].legs # <<>> /\ UNCHANGED <<db, operation, terms, told>>
  BY DEF Prepare, RunAgain, Run, More
<1>3. /\ tx[s].phase \in Holding /\ tx[s].request.kind = "OWNED"
      /\ tx[s].legs \in Seq(PlanLegs)
      /\ Head(tx[s].legs) \in PlanLegs /\ Tail(tx[s].legs) \in Seq(PlanLegs)
  BY <1>2, OwnerSees
<1>4. CASE Prepare(s)
  <2>1. /\ Works(s, db[Person(s)], tx[s].legs) /\ PlayerFree(s)
        /\ ~ HasPlayer(s) /\ db[Person(s)].status # "NONE"
    BY <1>4 DEF Prepare, MayPrepare, IsActive
  <2>2. Derived(tx[s], db[Person(s)], db[Person(s)])
    BY <1>2, <2>1, OwnerSees DEF Sees
  <2> QED BY <1>2, <1>3, <2>1, <2>2, WorksOn
<1>5. CASE RunAgain(s)
  <2> DEFINE new == [tx[s] EXCEPT !.legs = Tail(tx[s].legs)]
  <2>1. tx' = [tx EXCEPT ![s] = new]
    BY <1>1, <1>5 DEF RunAgain
  <2> HIDE DEF new
  <2>2. new = [phase |-> tx[s].phase, request |-> tx[s].request, key |-> tx[s].key,
               seen |-> tx[s].seen, work |-> tx[s].work, legs |-> Tail(tx[s].legs),
               asked |-> tx[s].asked, held |-> tx[s].held]
    <3>1. new = [tx[s] EXCEPT !.legs = Tail(tx[s].legs)]
      BY DEF new
    <3> QED BY <1>1, <3>1 DEF TxOK
  <2>3. TxOK(new, db, operation, terms.current)
    BY <1>1, <1>3, <2>2 DEF TxOK, Agreed, HeldOK, Derived, Terms
  <2>4. HasRow(s) /\ new.key = tx[s].key /\ new.request = tx[s].request /\ ToldFromRows'
    BY <1>2, <1>3, <2>2 DEF HasRow, IInv, ToldFromRows
  <2>5. new.phase = "LOCKED" => HasPlayer(s)
    BY <2>2 DEF HasPlayer
  <2> QED BY <1>2, <2>1, <2>3, <2>4, <2>5, Moves
<1>6. CASE Run(s)
  <2> DEFINE new == Ran(Sees(s), tx[s].key, Head(tx[s].legs))
  <2>1. /\ Sees(s).status # "NONE" /\ PlayerFree(s)
        /\ Works(s, new, Tail(tx[s].legs))
    BY <1>6 DEF Run, MayRun, IsActive, Leg
  <2>2. Same(new, Sees(s)) /\ new.rebirths = Sees(s).rebirths
    BY <1>2, <1>3, <2>1, OwnerSees, LegKeeps
  <2>3. Derived(tx[s], new, db[Person(s)])
    <3>1. Derived(tx[s], Sees(s), db[Person(s)]) /\ Sees(s).rebirths = db[Person(s)].rebirths
      BY <1>2, <2>1, OwnerSees
    <3> HIDE DEF new
    <3> QED BY <2>2, <3>1, SameIsDerived
  <2> HIDE DEF new
  <2> QED BY <1>2, <1>3, <2>1, <2>3, WorksOn
<1> QED BY <1>4, <1>5, <1>6

---------------------------------------------------------------------------
(* The steps that change the tables.                                       *)

\* A person's row may be written if it keeps its loadout and no session works on a
\* copy that would be outdated.
LEMMA Writes ==
    ASSUME IInv, NEW S \in SUBSET Sessions,
           tx' = [t \in Sessions |-> tx'[t]], \A t \in Sessions \ S : tx'[t] = tx[t],
           \A t \in S : /\ HasRow(t) /\ tx'[t].key = tx[t].key
                        /\ tx'[t].phase # "LOCKED"
                        /\ TxOK(tx'[t], db', operation, terms.current),
           NEW p \in Persons, NEW w, db' = [db EXCEPT ![p] = w],
           IsAccount(w),
           db[p].status # "NONE" => w.status # "NONE" /\ w.loadouts = db[p].loadouts,
           \A t \in Sessions \ S :
               HasPlayer(t) /\ Person(t) = p => Derived(tx[t], tx[t].work, w),
           UNCHANGED <<operation, terms, told>>
    PROVE  IInv'
<1>1. db' = [q \in Persons |-> IF q = p THEN w ELSE db[q]]
  BY DEF IInv
<1>2. \A q \in Persons : IsAccount(db'[q])
  BY <1>1 DEF IInv
<1>3. ASSUME NEW t \in Sessions PROVE TxOK(tx'[t], db', operation, terms.current)
  <2>1. CASE t \in S
    BY <2>1
  <2>2. CASE t \notin S
    <3>1. tx'[t] = tx[t] /\ TxOK(tx[t], db, operation, terms.current)
      BY <2>2 DEF IInv
    <3>2. HasPlayer(t) => Derived(tx[t], tx[t].work, db'[Person(t)])
      <4> SUFFICES ASSUME HasPlayer(t)
                   PROVE  Derived(tx[t], tx[t].work, db'[Person(t)])
        OBVIOUS
      <4>1. Derived(tx[t], tx[t].work, db[Person(t)]) /\ Person(t) \in Persons
        BY OwnRows DEF HasPlayer, Holding
      <4> QED BY <1>1, <2>2, <4>1
    <3> HIDE DEF IInv
    <3> QED BY <3>1, <3>2 DEF TxOK, HasPlayer, Person
  <2> QED BY <2>1, <2>2
<1>4. Exclusive'
  <2> SUFFICES ASSUME NEW a \in Sessions, NEW b \in Sessions, a # b
               PROVE  /\ HasRow(a)' /\ HasRow(b)' => tx'[a].key # tx'[b].key
                      /\ HasPlayer(a)' /\ HasPlayer(b)' => Person(a)' # Person(b)'
    BY DEF Exclusive
  <2>1. Exclusive
    BY DEF IInv
  <2> QED BY <2>1 DEF Exclusive, HasRow, HasPlayer, Person
<1>5. ReceiptsStand'
  BY <1>1 DEF IInv, ReceiptsStand, Loadout
<1>6. ToldFromRows'
  BY DEF IInv, ToldFromRows
<1>7. db' = [q \in Persons |-> db'[q]]
  BY <1>1
<1> QED BY <1>2, <1>3, <1>4, <1>5, <1>6, <1>7 DEF IInv

\* What happens to a row from elsewhere: the worker and the operator wait for it,
\* and the end of a cooldown is of no concern to a copy.
LEMMA ElseKeeps ==
    ASSUME IInv, Else
    PROVE  IInv'
<1>1. tx = [t \in Sessions |-> tx[t]]
  BY DEF IInv
<1>2. ASSUME NEW p \in Persons, NEW w, db' = [db EXCEPT ![p] = w], IsAccount(w),
             db[p].status # "NONE" => w.status # "NONE" /\ w.loadouts = db[p].loadouts,
             \A t \in Sessions :
                 HasPlayer(t) /\ Person(t) = p => Derived(tx[t], tx[t].work, w),
             UNCHANGED <<tx, operation, terms, told>>
      PROVE  IInv'
  <2> DEFINE S == {}
  <2>1. /\ S \in SUBSET Sessions
        /\ tx' = [t \in Sessions |-> tx'[t]] /\ \A t \in Sessions \ S : tx'[t] = tx[t]
        /\ \A t \in S : /\ HasRow(t) /\ tx'[t].key = tx[t].key
                         /\ tx'[t].phase # "LOCKED"
                         /\ TxOK(tx'[t], db', operation, terms.current)
        /\ \A t \in Sessions \ S :
               HasPlayer(t) /\ Person(t) = p => Derived(tx[t], tx[t].work, w)
    BY <1>1, <1>2
  <2> HIDE DEF S
  <2> QED BY <1>2, <2>1, Writes
<1>3. ASSUME NEW p \in Persons, Sweep(p) PROVE IInv'
  <2> DEFINE w == Accrued(db[p], today)
  <2>1. IsAccount(db[p]) /\ db[p].status # "NONE"
    BY <1>3 DEF Sweep, Exists, IInv
  <2>2. Same(w, db[p])
    BY <2>1, AccrualKeeps
  <2>3. \A t \in Sessions : ~ (HasPlayer(t) /\ Person(t) = p)
    BY <1>3 DEF Sweep, Unlocked
  <2>4. db' = [db EXCEPT ![p] = w] /\ UNCHANGED <<tx, operation, terms, told>>
    BY <1>3 DEF Sweep
  <2> HIDE DEF w
  <2>5. IsAccount(w) /\ w.status # "NONE" /\ w.loadouts = db[p].loadouts
    BY <2>1, <2>2 DEF Same
  <2> QED BY <1>2, <2>3, <2>4, <2>5
<1>4. ASSUME NEW p \in Persons, NEW status \in OperatorStatuses, SetStatus(p, status)
      PROVE  IInv'
  <2> DEFINE w == [db[p] EXCEPT !.status = status, !.cooling = (status = "DELETED")]
  <2>1. IsAccount(db[p]) /\ db[p].status # "NONE"
    BY <1>4 DEF SetStatus, Exists, IInv
  <2>2. db' = [db EXCEPT ![p] = w] /\ UNCHANGED <<tx, operation, terms, told>>
    BY <1>4 DEF SetStatus, IInv
  <2>3. w = [db[p] EXCEPT !.status = status, !.cooling = w.cooling]
    BY <2>1, Zenon DEF IsAccount
  <2> HIDE DEF w
  <2>4. IsAccount(w) /\ w.status # "NONE" /\ w.loadouts = db[p].loadouts
    <3>1. w = [status |-> status, cooling |-> w.cooling, loadouts |-> db[p].loadouts,
               accepted |-> db[p].accepted, xp |-> db[p].xp, activity |-> db[p].activity,
               wallet |-> db[p].wallet, rebirths |-> db[p].rebirths, paid |-> db[p].paid,
               events |-> db[p].events, ledger |-> db[p].ledger]
      BY <2>1, <2>3 DEF IsAccount
    <3>2. \E k \in db[p].loadouts : db[p].loadouts = {k}
      BY <2>1 DEF IsAccount
    <3> QED BY <3>1, <3>2, OperatorAssumption DEF IsAccount
  <2>5. \A t \in Sessions : ~ (HasPlayer(t) /\ Person(t) = p)
    BY <1>4 DEF SetStatus, Unlocked
  <2> QED BY <1>2, <2>2, <2>4, <2>5
<1>5. ASSUME NEW p \in Persons, EndCooldown(p) PROVE IInv'
  <2> DEFINE w == [db[p] EXCEPT !.cooling = FALSE]
  <2>1. IsAccount(db[p]) /\ db[p].cooling
    BY <1>5 DEF EndCooldown, IInv
  <2>2. db[p].status # "NONE"
    <3>1. Absent.cooling = FALSE
      BY Zenon DEF Absent
    <3>2. db[p] # Absent
      BY <2>1, <3>1, Zenon
    <3> QED BY <2>1, <3>2 DEF IsAccount
  <2>3. db' = [db EXCEPT ![p] = w] /\ UNCHANGED <<tx, operation, terms, told>>
    BY <1>5 DEF EndCooldown, IInv
  <2>4. w = [db[p] EXCEPT !.cooling = w.cooling]
    BY <2>1, Zenon DEF IsAccount
  <2> HIDE DEF w
  <2>5. w = [status |-> db[p].status, cooling |-> w.cooling, loadouts |-> db[p].loadouts,
             accepted |-> db[p].accepted, xp |-> db[p].xp, activity |-> db[p].activity,
             wallet |-> db[p].wallet, rebirths |-> db[p].rebirths, paid |-> db[p].paid,
             events |-> db[p].events, ledger |-> db[p].ledger]
    BY <2>1, <2>4 DEF IsAccount
  <2>6. IsAccount(w) /\ w.status # "NONE" /\ w.loadouts = db[p].loadouts
    BY <2>1, <2>2, <2>5 DEF IsAccount, Absent
  <2>7. ASSUME NEW t \in Sessions, HasPlayer(t), Person(t) = p
        PROVE  Derived(tx[t], tx[t].work, w)
    <3>1. Derived(tx[t], tx[t].work, db[p])
      BY <2>7, OwnRows DEF HasPlayer, Holding
    <3> QED BY <2>5, <3>1 DEF Derived, OneMore, IsActive, AtCap
  <2> QED BY <1>2, <2>3, <2>6, <2>7
<1>6. CASE NextDay
  BY <1>6, Zenon DEF NextDay, IInv, Exclusive, HasRow, HasPlayer, Person, ReceiptsStand,
                     Loadout, ToldFromRows
<1> QED BY <1>3, <1>4, <1>5, <1>6 DEF Else

\* The second transaction of a Rebirth writes the days of a row nobody works on.
LEMMA RefreshKeeps ==
    ASSUME IInv, NEW s \in Sessions, Refresh(s)
    PROVE  IInv'
<1> DEFINE p == Person(s)
           w == Accrued(db[p], tx[s].seen)
<1>1. tx = [t \in Sessions |-> tx[t]] /\ TxOK(tx[s], db, operation, terms.current)
  BY DEF IInv
<1>2. tx[s].phase = "REFRESHING" /\ tx[s].phase \in Holding /\ p \in Persons /\ HasRow(s)
  BY OwnRows DEF Refresh, Holding, HasRow
<1>3. IsAccount(db[p]) /\ db[p].status # "NONE"
  BY <1>2 DEF Refresh, Exists, IInv
<1>4. IsAccount(w) /\ w.status # "NONE" /\ w.loadouts = db[p].loadouts
  BY <1>3, AccrualKeeps DEF Same
<1>5. \A t \in Sessions : ~ (HasPlayer(t) /\ Person(t) = p)
  BY DEF Refresh, Unlocked
<1>6. db' = [db EXCEPT ![p] = w] /\ UNCHANGED <<operation, terms, told>>
  BY DEF Refresh
<1>7. PICK new : /\ tx' = [tx EXCEPT ![s] = new]
                 /\ new = [phase |-> "REFRESHED", request |-> tx[s].request, key |-> tx[s].key,
                           seen |-> tx[s].seen, work |-> tx[s].work, legs |-> tx[s].legs,
                           asked |-> tx[s].asked, held |-> tx[s].held]
  BY Steps DEF Refresh
<1>8. TxOK(new, db', operation, terms.current)
  BY <1>1, <1>2, <1>7 DEF TxOK, Agreed, HeldOK, Phases, Installing, Holding
<1> DEFINE S == {s}
<1>9. /\ S \in SUBSET Sessions
      /\ tx' = [t \in Sessions |-> tx'[t]] /\ \A t \in Sessions \ S : tx'[t] = tx[t]
      /\ \A t \in S : /\ HasRow(t) /\ tx'[t].key = tx[t].key
                       /\ tx'[t].phase # "LOCKED"
                       /\ TxOK(tx'[t], db', operation, terms.current)
      /\ \A t \in Sessions \ S :
             HasPlayer(t) /\ Person(t) = p => Derived(tx[t], tx[t].work, w)
  BY <1>1, <1>2, <1>5, <1>7, <1>8
<1> HIDE DEF S, w, p
<1> QED BY <1>2, <1>3, <1>4, <1>6, <1>9, Writes

\* New terms are installed when no registration holds the current ones.
LEMMA InstallKeeps ==
    ASSUME IInv, NEW s \in Sessions, Install(s)
    PROVE  IInv'
<1>1. /\ tx' = [t \in Sessions |-> IF t = s THEN Idle ELSE tx[t]]
      /\ UNCHANGED <<db, operation, told>>
      /\ terms' = [recorded |-> terms'.recorded, current |-> terms'.current]
  BY DEF Install, Leave, IInv
<1>2. tx[s].request.kind = "TERMS"
  BY DEF Install, IInv, TxOK, Installing
<1>3. ASSUME NEW t \in Sessions, t # s, tx[t].phase # "IDLE", tx[t].request.kind = "REGISTER",
             tx[t].phase \in {"AGREED"} \cup Holding
      PROVE  terms'.current = terms.current
  <2>1. Agreed(tx[t], terms.current) /\ HeldOK(tx[t])
    BY <1>3 DEF IInv, TxOK
  <2>3. terms.current \in tx[t].held
    BY <1>3, <2>1 DEF Agreed, HeldOK
  <2>2. terms.current \notin {tx[s].seen}
    BY <1>2, <1>3, <2>3 DEF Install, TermsFree, Sharing, Asks
  <2> QED BY <2>2 DEF Install, Unrivalled
<1>4. ASSUME NEW t \in Sessions PROVE TxOK(tx'[t], db, operation, terms'.current)
  <2>1. CASE t = s
    BY <1>1, <2>1, IdleOK
  <2>2. CASE t # s
    <3>1. tx'[t] = tx[t] /\ TxOK(tx[t], db, operation, terms.current)
      BY <1>1, <2>2 DEF IInv
    <3>2. tx[t].phase # "IDLE" => Agreed(tx[t], terms'.current)
      <4>1. tx[t].phase # "IDLE" => Agreed(tx[t], terms.current)
        BY <3>1, Zenon DEF TxOK
      <4> QED BY <1>3, <2>2, <4>1 DEF Agreed
    <3> QED BY <3>1, <3>2 DEF TxOK
  <2> QED BY <2>1, <2>2
<1>5. Exclusive'
  <2>1. Exclusive
    BY DEF IInv
  <2>2. Idle.phase \notin Holding /\ Idle.phase # "LOCKED"
    BY DEF Idle, Holding
  <2> QED BY <1>1, <2>1, <2>2 DEF Exclusive, HasRow, HasPlayer, Person
<1>6. ReceiptsStand' /\ ToldFromRows'
  BY <1>1 DEF IInv, ReceiptsStand, Loadout, ToldFromRows
<1>7. tx' = [t \in Sessions |-> tx'[t]]
  BY <1>1
<1> QED BY <1>1, <1>4, <1>5, <1>6, <1>7 DEF IInv

\* A commit of what a session has made of its person's row.
LEMMA Commits ==
    ASSUME IInv, NEW s \in Sessions, tx[s].phase \in Holding, Leave(s), UNCHANGED terms,
           NEW w, w = db[Person(s)] \/ (HasPlayer(s) /\ w = tx[s].work),
           db' = [db EXCEPT ![Person(s)] = w],
           NEW state \in {"PENDING", "COMMITTED"}, NEW receipt,
           operation' = [operation EXCEPT ![tx[s].key] =
                             [of |-> tx[s].request, state |-> state, receipt |-> receipt]],
           state = "COMMITTED" =>
               receipt.loadouts = w.loadouts /\ (tx[s].request.kind = "REGISTER" => HasPlayer(s) /\ w = tx[s].work),
           \/ told' = told
           \/ /\ state = "COMMITTED"
              /\ told' = told \cup {[key |-> tx[s].key, of |-> tx[s].request, receipt |-> receipt]}
    PROVE  IInv'
<1> DEFINE p == Person(s)
           k == tx[s].key
           row == [of |-> tx[s].request, state |-> state, receipt |-> receipt]
<1>1. /\ p \in Persons /\ IsAccount(db[p]) /\ tx[s].request \in Requests
      /\ tx[s].request.kind # "TERMS"
      /\ HasPlayer(s) => Derived(tx[s], tx[s].work, db[p])
  BY OwnRows
<1>2. k \in Keys /\ operation[k].state # "COMMITTED" /\ HasRow(s)
  BY <1>1 DEF IInv, TxOK, KeysOf, HasRow, Holding
<1>3. /\ IsAccount(w)
      /\ db[p].status # "NONE" => w.status # "NONE" /\ w.loadouts = db[p].loadouts
      /\ HasPlayer(s) /\ w = tx[s].work => w.status # "NONE"
  BY <1>1 DEF Derived
<1>4. /\ tx' = [t \in Sessions |-> IF t = s THEN Idle ELSE tx[t]]
      /\ db' = [q \in Persons |-> IF q = p THEN w ELSE db[q]]
      /\ operation' = [j \in Keys |-> IF j = k THEN row ELSE operation[j]]
  BY DEF IInv, Leave
<1>5. row.of = tx[s].request /\ row.state = state /\ row.receipt = receipt
  OBVIOUS
<1> HIDE DEF row, p, k
<1>6. ASSUME NEW t \in Sessions PROVE TxOK(tx'[t], db', operation', terms.current)
  <2>1. CASE t = s
    BY <1>4, <2>1, IdleOK
  <2>2. CASE t # s
    <3>1. tx'[t] = tx[t] /\ TxOK(tx[t], db, operation, terms.current)
      BY <1>4, <2>2 DEF IInv
    <3>2. tx[t].phase \in Holding => operation'[tx[t].key].state # "COMMITTED"
      <4> SUFFICES ASSUME tx[t].phase \in Holding
                   PROVE  operation'[tx[t].key].state # "COMMITTED"
        OBVIOUS
      <4>1. tx[t].key # k
        BY <1>2, <2>2 DEF IInv, Exclusive, HasRow, k
      <4>2. tx[t].key \in Keys /\ operation[tx[t].key].state # "COMMITTED"
        BY <3>1, OwnRows DEF TxOK, KeysOf, Holding
      <4> QED BY <1>4, <4>1, <4>2
    <3>3. tx[t].phase = "LOCKED" => Derived(tx[t], tx[t].work, db'[tx[t].request.person])
      <4> SUFFICES ASSUME tx[t].phase = "LOCKED"
                   PROVE  Derived(tx[t], tx[t].work, db'[tx[t].request.person])
        OBVIOUS
      <4>1. Derived(tx[t], tx[t].work, db[tx[t].request.person]) /\ tx[t].request.person \in Persons
        BY <3>1, OwnRows DEF TxOK, Holding, Person
      <4>2. tx[t].request.person # p \/ w = db[p]
        BY <2>2 DEF IInv, Exclusive, HasPlayer, Person, p
      <4> QED BY <1>4, <4>1, <4>2
    <3> HIDE DEF IInv
    <3> QED BY <3>1, <3>2, <3>3 DEF TxOK
  <2> QED BY <2>1, <2>2
<1>7. Exclusive'
  <2>1. Exclusive
    BY DEF IInv
  <2>2. Idle.phase \notin Holding /\ Idle.phase # "LOCKED"
    BY DEF Idle, Holding
  <2> QED BY <1>4, <2>1, <2>2 DEF Exclusive, HasRow, HasPlayer, Person
<1>8. ReceiptsStand'
  <2> SUFFICES ASSUME NEW j \in Keys, operation'[j].state = "COMMITTED"
               PROVE  /\ operation'[j].of \in Requests
                      /\ operation'[j].of.kind = "REGISTER" =>
                             /\ operation'[j].of.person \in Persons
                             /\ Loadout(j)'.status # "NONE"
                             /\ operation'[j].receipt.loadouts = Loadout(j)'.loadouts
    BY DEF ReceiptsStand
  <2>1. CASE j = k
    <3>1. operation'[j] = row /\ state = "COMMITTED"
      BY <1>4, <1>5, <2>1
    <3>2. Loadout(j)' = w
      BY <1>1, <1>4, <1>5, <3>1 DEF Loadout, Person, p
    <3> QED BY <1>1, <1>3, <1>5, <3>1, <3>2 DEF Person, p
  <2>2. CASE j # k
    <3>1. operation'[j] = operation[j]
      BY <1>4, <2>2
    <3>2. ReceiptsStand
      BY DEF IInv
    <3> QED BY <1>3, <1>4, <3>1, <3>2 DEF ReceiptsStand, Loadout
  <2> QED BY <2>1, <2>2
<1>9. ToldFromRows'
  <2>1. ASSUME NEW a \in told
        PROVE  /\ a.key \in Keys /\ operation'[a.key].state = "COMMITTED"
               /\ a = [key |-> a.key, of |-> operation'[a.key].of,
                       receipt |-> operation'[a.key].receipt]
    <3>1. ToldFromRows
      BY DEF IInv
    <3>2. a.key # k
      BY <1>2, <2>1, <3>1 DEF ToldFromRows
    <3> QED BY <1>4, <2>1, <3>1, <3>2 DEF ToldFromRows
  <2>2. ASSUME NEW a, a = [key |-> k, of |-> tx[s].request, receipt |-> receipt],
               state = "COMMITTED"
        PROVE  /\ a.key \in Keys /\ operation'[a.key].state = "COMMITTED"
               /\ a = [key |-> a.key, of |-> operation'[a.key].of,
                       receipt |-> operation'[a.key].receipt]
    <3>1. a.key = k /\ operation'[k] = row
      BY <1>2, <1>4, <2>2
    <3> QED BY <1>2, <1>5, <2>2, <3>1
  <2> QED BY <2>1, <2>2 DEF ToldFromRows, k
<1> QED BY <1>3, <1>4, <1>6, <1>7, <1>8, <1>9 DEF IInv

\* A transaction's end leaves what the others hold as it is.
LEMMA EndsKeep ==
    ASSUME IInv, NEW s \in Sessions,
           Answer(s) \/ Save(s) \/ Commit(s) \/ Refuse(s) \/ RollBack(s)
    PROVE  IInv'
<1>1. CASE Answer(s)
  <2>1. TxOK(tx[s], db, operation, terms.current) /\ tx[s].phase # "IDLE"
    BY <1>1 DEF IInv, Answer
  <2>2. tx[s].key \in Keys
    BY <1>1, <2>1 DEF TxOK, KeysOf, Answer, Asks
  <2>3. ToldFromRows'
    BY <1>1, <2>2 DEF IInv, ToldFromRows, Answer, Entry, IsOfRequest
  <2> QED BY <1>1, <2>3, Leaves DEF Answer
<1>2. CASE Save(s)
  <2>1. tx[s].phase \in Holding
    BY <1>2 DEF Save, Legs, Holding
  <2>2. Sees(s) = db[Person(s)] \/ (HasPlayer(s) /\ Sees(s) = tx[s].work)
    BY DEF Sees
  <2> QED BY <1>2, <2>1, <2>2, Commits DEF Save
<1>3. CASE Commit(s)
  <2> DEFINE receipt == ReceiptOf(Sees(s))
  <2>1. /\ db' = [db EXCEPT ![Person(s)] = Sees(s)]
        /\ operation' = [operation EXCEPT ![tx[s].key] =
                             [of |-> tx[s].request, state |-> "COMMITTED", receipt |-> receipt]]
        /\ told' = told \cup {[key |-> tx[s].key, of |-> tx[s].request, receipt |-> receipt]}
        /\ Leave(s) /\ UNCHANGED terms
    BY <1>3 DEF Commit
  <2>2. receipt.loadouts = Sees(s).loadouts
    BY DEF ReceiptOf
  <2>3. tx[s].phase \in Holding
    BY <1>3 DEF Commit, Finished, Legs, HasPlayer, Holding
  <2>4. Sees(s) = db[Person(s)] \/ (HasPlayer(s) /\ Sees(s) = tx[s].work)
    BY DEF Sees
  <2>5. tx[s].request.kind = "REGISTER" => HasPlayer(s) /\ Sees(s) = tx[s].work
    BY <1>3 DEF Commit, Finished, Asks, Sees
  <2> HIDE DEF receipt
  <2> QED BY <2>1, <2>2, <2>3, <2>4, <2>5, Commits
<1>4. CASE Refuse(s) \/ RollBack(s)
  <2>1. ToldFromRows'
    BY <1>4 DEF Refuse, RollBack, IInv, ToldFromRows
  <2> QED BY <1>4, <2>1, Leaves DEF Refuse, RollBack
<1> QED BY <1>1, <1>2, <1>3, <1>4

---------------------------------------------------------------------------
(* The invariant and what follows from it.                                 *)

\* Nobody holds anything at the start.
LEMMA InitHolds == Init => IInv
<1> SUFFICES ASSUME Init PROVE IInv
  OBVIOUS
<1>1. \A s \in Sessions : TxOK(tx[s], db, operation, terms.current) /\ tx[s].phase = "IDLE"
  BY IdleOK DEF Init, Idle
<1>2. \A p \in Persons : IsAccount(db[p])
  BY StartsAssumption DEF Init
<1>3. Exclusive
  BY <1>1 DEF Exclusive, HasRow, HasPlayer, Holding
<1>4. ReceiptsStand /\ ToldFromRows
  BY DEF Init, NoEntry, ReceiptsStand, ToldFromRows
<1>5. /\ tx = [s \in Sessions |-> tx[s]] /\ db = [p \in Persons |-> db[p]]
      /\ operation = [k \in Keys |-> operation[k]]
      /\ terms = [recorded |-> terms.recorded, current |-> terms.current]
  BY DEF Init
<1> QED BY <1>1, <1>2, <1>3, <1>4, <1>5 DEF IInv

\* The locks hold after every step.
LEMMA NextKeeps == IInv /\ [Next]_vars => IInv'
<1> SUFFICES ASSUME IInv, [Next]_vars PROVE IInv'
  OBVIOUS
<1>1. ASSUME NEW s \in Sessions, Step(s) PROVE IInv'
  BY <1>1, AsksKeep, OpenKeeps, RegistersKeep, GrantsKeep, LegsKeep, RefreshKeeps,
     InstallKeeps, EndsKeep DEF Step
<1>2. ASSUME NEW s \in Sessions, Begin(s) \/ Prepare(s) \/ Save(s) \/ RollBack(s) PROVE IInv'
  BY <1>2, BeginKeeps, LegsKeep, EndsKeep
<1>3. CASE UNCHANGED vars
  BY <1>3, Zenon DEF vars, IInv, Exclusive, HasRow, HasPlayer, Person, ReceiptsStand, Loadout,
                     ToldFromRows
<1> QED BY <1>1, <1>2, <1>3, ElseKeeps DEF Next

\* The operation rows, the player rows and the terms are each held by those who may,
\* a copy differs from the committed row by its own request only, and receipts stand.
THEOREM LocksHold == Spec => []IInv
  BY InitHolds, NextKeeps, PTL DEF Spec

\* Callers of one key are told one receipt, however they interleave, retry or crash.
THEOREM OneAnswer == Spec => []RepliesAgree
<1>1. IInv => RepliesAgree
  BY DEF IInv, ToldFromRows, RepliesAgree
<1> QED BY <1>1, LocksHold, PTL

\* Concurrent registrations of a person make one player with one loadout, and every
\* receipt names it.
THEOREM OnePlayer == Spec => []OneLoadout
<1>1. IInv => OneLoadout
  <2> SUFFICES ASSUME IInv PROVE OneLoadout
    OBVIOUS
  <2>1. ASSUME NEW p \in Persons
        PROVE  Cardinality(db[p].loadouts) = IF db[p].status = "NONE" THEN 0 ELSE 1
    <3>1. CASE db[p].status = "NONE"
      <4>1. db[p].loadouts = {}
        BY <3>1 DEF IInv, IsAccount, Absent
      <4> QED BY <3>1, <4>1, FS_EmptySet
    <3>2. CASE db[p].status # "NONE"
      <4>1. PICK k : db[p].loadouts = {k}
        BY <3>2 DEF IInv, IsAccount
      <4> QED BY <3>2, <4>1, FS_Singleton
    <3> QED BY <3>1, <3>2
  <2>2. ASSUME NEW a \in told, a.of.kind = "REGISTER"
        PROVE  a.receipt.loadouts = db[a.of.person].loadouts
    BY <2>2 DEF IInv, ToldFromRows, ReceiptsStand, Loadout
  <2> QED BY <2>1, <2>2 DEF OneLoadout
<1> QED BY <1>1, LocksHold, PTL

\* A person's row changes by the commit of a session that holds it, or in the days
\* paid, the status or the cooldown.
LEMMA RowSteps ==
    ASSUME IInv, [Next]_vars, NEW p \in Persons
    PROVE  \/ /\ db'[p].rebirths = db[p].rebirths
              /\ db'[p].accepted = db[p].accepted
           \/ \E s \in Sessions : HasPlayer(s) /\ Person(s) = p /\ db'[p] = tx[s].work
<1>1. db = [q \in Persons |-> db[q]] /\ IsAccount(db[p])
  BY DEF IInv
<1>2. ASSUME NEW q \in Persons, NEW w, db' = [db EXCEPT ![q] = w],
             q = p => w.rebirths = db[p].rebirths /\ w.accepted = db[p].accepted
      PROVE  db'[p].rebirths = db[p].rebirths /\ db'[p].accepted = db[p].accepted
  <2>1. db'[p] = IF p = q THEN w ELSE db[p]
    BY <1>1, <1>2
  <2> QED BY <1>2, <2>1
<1>3. ASSUME NEW s \in Sessions, Save(s) \/ Commit(s)
      PROVE  \/ /\ db'[p].rebirths = db[p].rebirths
                /\ db'[p].accepted = db[p].accepted
             \/ HasPlayer(s) /\ Person(s) = p /\ db'[p] = tx[s].work
  <2>1. db'[p] = IF p = Person(s) THEN Sees(s) ELSE db[p]
    BY <1>1, <1>3 DEF Save, Commit
  <2> QED BY <2>1 DEF Sees
<1>4. ASSUME NEW q \in Persons, NEW day, IsAccount(db[q]), db[q].status # "NONE",
             db' = [db EXCEPT ![q] = Accrued(db[q], day)]
      PROVE  db'[p].rebirths = db[p].rebirths /\ db'[p].accepted = db[p].accepted
  <2> DEFINE w == Accrued(db[q], day)
  <2>1. w.rebirths = db[q].rebirths /\ w.accepted = db[q].accepted
    BY <1>4, AccrualKeeps DEF Same
  <2> HIDE DEF w
  <2> QED BY <1>2, <1>4, <2>1 DEF w
<1>5. ASSUME NEW s \in Sessions, Refresh(s)
      PROVE  db'[p].rebirths = db[p].rebirths /\ db'[p].accepted = db[p].accepted
  <2>1. Person(s) \in Persons
    BY <1>5, OwnRows DEF Refresh, Holding
  <2>2. IsAccount(db[Person(s)]) /\ db[Person(s)].status # "NONE"
    BY <1>5, <2>1 DEF Refresh, Exists, IInv
  <2> QED BY <1>4, <1>5, <2>1, <2>2 DEF Refresh
<1>6. CASE Else
  <2>1. ASSUME NEW q \in Persons, Sweep(q)
        PROVE  db'[p].rebirths = db[p].rebirths /\ db'[p].accepted = db[p].accepted
    BY <1>4, <2>1 DEF Sweep, Exists, IInv
  <2>2. ASSUME NEW q \in Persons, NEW status, SetStatus(q, status) \/ EndCooldown(q)
        PROVE  db'[p].rebirths = db[p].rebirths /\ db'[p].accepted = db[p].accepted
    <3> DEFINE frozen == [db[q] EXCEPT !.status = status, !.cooling = (status = "DELETED")]
               ended == [db[q] EXCEPT !.cooling = FALSE]
    <3>1. db' = [db EXCEPT ![q] = frozen] \/ db' = [db EXCEPT ![q] = ended]
      BY <1>1, <2>2 DEF SetStatus, EndCooldown
    <3>2. /\ frozen = [db[q] EXCEPT !.status = status, !.cooling = frozen.cooling]
          /\ ended = [db[q] EXCEPT !.cooling = ended.cooling]
          /\ IsAccount(db[q])
      <4>1. IsAccount(db[q])
        BY DEF IInv
      <4> QED BY <4>1, Zenon DEF IsAccount
    <3> HIDE DEF frozen, ended
    <3>3. /\ frozen.rebirths = db[q].rebirths /\ frozen.accepted = db[q].accepted
          /\ ended.rebirths = db[q].rebirths /\ ended.accepted = db[q].accepted
      BY <3>2 DEF IsAccount
    <3> QED BY <1>2, <3>1, <3>3
  <2>3. CASE NextDay
    BY <2>3 DEF NextDay
  <2> QED BY <1>6, <2>1, <2>2, <2>3 DEF Else
<1>7. ASSUME NEW s \in Sessions, Begin(s) \/ Prepare(s) \/ RollBack(s) \/ Answer(s) \/ Refuse(s)
      PROVE  db' = db
  BY <1>7 DEF Begin, Prepare, RollBack, Answer, Refuse
<1>8. ASSUME NEW s \in Sessions, Step(s)
      PROVE  db' = db \/ Commit(s) \/ Refresh(s)
  BY <1>8, <1>7 DEF Step, Connect, Open, ReadTerms, Agree, Check, FindVersion, MissVersion,
     InsertVersion, Replace, Install, Return, MissPlayer, Enrol, Grant, Eligible, BeginRefresh, Rebirth, RunAgain, Run
<1>9. CASE UNCHANGED vars
  BY <1>9 DEF vars
<1> QED BY <1>3, <1>5, <1>6, <1>7, <1>8, <1>9 DEF Next

\* A person accepts terms only while they are current: nobody can install others
\* between a registration's agreement and its commit.
THEOREM AcceptsCurrentTerms == Spec => AcceptedWasCurrent
<1>1. ASSUME IInv, [Next]_vars
      PROVE  \A p \in Persons : db'[p].accepted \subseteq db[p].accepted \cup {terms.current}
  <2> SUFFICES ASSUME NEW p \in Persons
               PROVE  db'[p].accepted \subseteq db[p].accepted \cup {terms.current}
    OBVIOUS
  <2>1. CASE db'[p].accepted = db[p].accepted
    BY <2>1
  <2>2. ASSUME NEW s \in Sessions, HasPlayer(s), Person(s) = p, db'[p] = tx[s].work
        PROVE  db'[p].accepted \subseteq db[p].accepted \cup {terms.current}
    <3>1. tx[s].phase = "LOCKED" /\ tx[s].phase \in Holding
      BY <2>2 DEF HasPlayer, Holding
    <3>2. tx[s].work.accepted \subseteq db[p].accepted \cup Terms(tx[s])
      BY <1>1, <2>2, <3>1, OwnRows DEF Derived
    <3>3. Agreed(tx[s], terms.current)
      BY <1>1, <3>1 DEF IInv, TxOK
    <3>4. Terms(tx[s]) \subseteq {terms.current}
      BY <3>1, <3>3 DEF Terms, Agreed
    <3> QED BY <2>2, <3>2, <3>4
  <2> QED BY <1>1, <2>1, <2>2, RowSteps
<1> QED BY <1>1, LocksHold, PTL DEF Spec, AcceptedWasCurrent

\* A Rebirth starts from the cap of an active account and takes the experience only,
\* whatever came between its unlocked check and its commit.
THEOREM RebirthsFromCap == Spec => RebirthFromCap
<1>1. ASSUME IInv, [Next]_vars
      PROVE  \A p \in Persons :
                 db'[p].rebirths # db[p].rebirths =>
                     /\ IsActive(db[p]) /\ AtCap(db[p])
                     /\ db'[p].rebirths = db[p].rebirths + 1
                     /\ db'[p].xp = 0
                     /\ db'[p].activity = db[p].activity /\ db'[p].wallet = db[p].wallet
  <2> SUFFICES ASSUME NEW p \in Persons, db'[p].rebirths # db[p].rebirths
               PROVE  OneMore(db'[p], db[p])
    BY DEF OneMore
  <2>1. PICK s \in Sessions : HasPlayer(s) /\ Person(s) = p /\ db'[p] = tx[s].work
    BY <1>1, RowSteps
  <2>2. Derived(tx[s], tx[s].work, db[p])
    BY <1>1, <2>1, OwnRows DEF HasPlayer, Holding
  <2> QED BY <2>1, <2>2 DEF Derived
<1> QED BY <1>1, LocksHold, PTL DEF Spec, RebirthFromCap

---------------------------------------------------------------------------
(* The level curve.                                                        *)

\* The running sum of a sequence's amounts from the second on.
RunsUp(f, a, n) == f = [l \in 1 .. n |-> IF l = 1 THEN 0 ELSE f[l - 1] + a[l]]

\* There is one, whatever the amounts are.
LEMMA RunsUpExist ==
    ASSUME NEW a, NEW n \in Nat
    PROVE  \E f : RunsUp(f, a, n)
<1> DEFINE T == {m \in Nat : \E f : RunsUp(f, a, m)}
<1>1. 0 \in T
  <2> DEFINE f == [l \in 1 .. 0 |-> 0]
  <2>1. f = [l \in 1 .. 0 |-> IF l = 1 THEN 0 ELSE f[l - 1] + a[l]]
    OBVIOUS
  <2> QED
    BY <2>1 DEF RunsUp
<1>2. ASSUME NEW m \in T PROVE m + 1 \in T
  <2>1. PICK f : RunsUp(f, a, m)
    OBVIOUS
  <2> DEFINE g == [l \in 1 .. m + 1 |->
                     IF l = 1 THEN 0 ELSE IF l = m + 1 THEN f[m] + a[l] ELSE f[l]]
  <2>2. m \in Nat
    OBVIOUS
  <2>3. \A l \in 1 .. m : f[l] = IF l = 1 THEN 0 ELSE f[l - 1] + a[l]
    BY <2>1 DEF RunsUp
  <2>4. ASSUME NEW l \in 1 .. m + 1
        PROVE  g[l] = IF l = 1 THEN 0 ELSE g[l - 1] + a[l]
    <3>1. CASE l = 1
      BY <3>1
    <3>2. CASE l # 1 /\ l = m + 1
      <4>1. g[l] = f[m] + a[l] /\ l - 1 = m /\ m # m + 1 /\ m \in 1 .. m + 1
        BY <2>2, <3>2
      <4>2. g[l - 1] = f[m]
        BY <2>2, <2>3, <3>2, <4>1
      <4> QED
        BY <3>2, <4>1, <4>2, Zenon
    <3>3. CASE l # 1 /\ l # m + 1
      <4>1. l \in 1 .. m /\ g[l] = f[l] /\ l - 1 \in 1 .. m
        BY <2>2, <3>3
      <4>2. g[l - 1] = f[l - 1]
        BY <2>2, <2>3, <4>1
      <4>3. f[l] = f[l - 1] + a[l]
        BY <2>3, <3>3, <4>1
      <4> QED
        BY <3>3, <4>1, <4>2, <4>3, Zenon
    <3> QED
      BY <3>1, <3>2, <3>3
  <2>5. g = [l \in 1 .. m + 1 |-> g[l]]
    OBVIOUS
  <2> HIDE DEF g
  <2>6. g = [l \in 1 .. m + 1 |-> IF l = 1 THEN 0 ELSE g[l - 1] + a[l]]
    BY <2>4, <2>5
  <2>7. RunsUp(g, a, m + 1)
    BY <2>6 DEF RunsUp
  <2> QED
    BY <2>2, <2>7
<1> HIDE DEF T
<1>3. Nat \subseteq T
  BY <1>1, <1>2, NatSetInduction
<1> QED
  BY <1>3 DEF T

\* A running sum of amounts that are not negative starts from nothing and never falls.
LEMMA RunsUpRise ==
    ASSUME NEW a, NEW n \in Nat, \A l \in 2 .. n : a[l] \in Nat,
           NEW f, RunsUp(f, a, n)
    PROVE  /\ \A l \in 1 .. n : f[l] \in Nat
           /\ n > 0 => f[1] = 0
           /\ \A l \in 2 .. n : f[l] >= a[l]
           /\ \A l, m \in 1 .. n : l <= m => f[l] <= f[m]
<1>1. \A l \in 1 .. n : f[l] = IF l = 1 THEN 0 ELSE f[l - 1] + a[l]
  BY DEF RunsUp
<1> DEFINE T == {m \in Nat : m \in 1 .. n =>
                   /\ f[m] \in Nat
                   /\ \A l \in 1 .. m : f[l] \in Nat /\ f[l] <= f[m]}
<1>2. 0 \in T
  OBVIOUS
<1>3. ASSUME NEW m \in Nat, m \in T PROVE m + 1 \in T
  <2>1. CASE m = 0
    BY <1>1, <2>1
  <2>2. CASE m # 0 /\ m + 1 \in 1 .. n
    <3>1. m \in 1 .. n /\ m + 1 \in 2 .. n /\ m + 1 # 1 /\ (m + 1) - 1 = m
      BY <2>2
    <3>2. f[m] \in Nat /\ \A l \in 1 .. m : f[l] \in Nat /\ f[l] <= f[m]
      BY <1>3, <3>1
    <3>3. f[m + 1] = f[m] + a[m + 1] /\ a[m + 1] \in Nat
      BY <1>1, <3>1
    <3>4. \A l \in 1 .. m + 1 : l \in 1 .. m \/ l = m + 1
      BY <1>3
    <3> QED
      BY <1>3, <3>2, <3>3, <3>4
  <2> QED
    BY <1>3, <2>1, <2>2
<1>4. Nat \subseteq T
  <2> HIDE DEF T
  <2> QED
    BY <1>2, <1>3, NatSetInduction
<1>5. \A m \in 1 .. n : f[m] \in Nat /\ \A l \in 1 .. m : f[l] <= f[m]
  BY <1>4
<1>6. ASSUME NEW l \in 2 .. n PROVE f[l] >= a[l]
  <2>1. f[l] = f[l - 1] + a[l] /\ f[l - 1] \in Nat /\ a[l] \in Nat
    BY <1>1, <1>5
  <2> QED
    BY <2>1
<1>7. n > 0 => f[1] = 0
  BY <1>1
<1>8. ASSUME NEW l \in 1 .. n, NEW m \in 1 .. n, l <= m PROVE f[l] <= f[m]
  BY <1>5, <1>8
<1> QED
  BY <1>5, <1>6, <1>7, <1>8

\* The steps of the two curves.
LEMMA CurveSteps ==
    ASSUME NEW level \in Nat
    PROVE  XpToNext(level) \in Nat \ {0} /\ LevelReward(level) \in Nat
<1> DEFINE square == level * level
<1>1. square \in Nat
  OBVIOUS
<1>2. /\ XpToNext(level) = ((5000 + 250 * level + square + 250) \div 500) * 10
      /\ LevelReward(level) = ((500 + 75 * level + 50) \div 100) * 100
  BY DEF XpToNext, LevelReward
<1> HIDE DEF square
<1> QED
  BY <1>1, <1>2

\* The sums of the steps of a curve, cut to its levels.
LEMMA CurveSums ==
    ASSUME NEW f, NEW a, \A level \in 2 .. MaxLevel : a[level] \in Nat,
           RunsUp(f, a, MaxLevel), NEW curve, curve = SubSeq(f, 1, MaxLevel)
    PROVE  /\ \A level \in 1 .. MaxLevel : curve[level] \in Nat
           /\ curve[1] = 0
           /\ \A level \in 2 .. MaxLevel : curve[level] >= a[level]
           /\ \A l, m \in 1 .. MaxLevel : l <= m => curve[l] <= curve[m]
<1>1. MaxLevel \in Nat /\ MaxLevel > 0
  BY DEF MaxLevel
<1>3. /\ \A level \in 1 .. MaxLevel : f[level] \in Nat
      /\ f[1] = 0
      /\ \A level \in 2 .. MaxLevel : f[level] >= a[level]
      /\ \A l, m \in 1 .. MaxLevel : l <= m => f[l] <= f[m]
  <2> HIDE DEF MaxLevel
  <2> QED
    BY <1>1, RunsUpRise
<1>4. \A level \in 1 .. MaxLevel : curve[level] = f[level]
  <2>1. f \in [1 .. MaxLevel -> Nat]
    BY <1>3 DEF RunsUp
  <2>2. f \in Seq(Nat) /\ Len(f) = MaxLevel
    BY <1>1, <2>1
  <2> HIDE DEF MaxLevel
  <2>3. 1 \in 1 .. Len(f) + 1 /\ MaxLevel \in 1 - 1 .. Len(f)
    BY <1>1, <2>2
  <2>4. \A level \in 1 .. MaxLevel - 1 + 1 : curve[level] = f[1 + level - 1]
    BY <2>2, <2>3, SubSeqProperties
  <2>5. \A level \in 1 .. MaxLevel : 1 + level - 1 = level /\ level \in 1 .. MaxLevel - 1 + 1
    BY <1>1
  <2> QED
    BY <2>4, <2>5
<1>5. 1 \in 1 .. MaxLevel /\ \A level \in 2 .. MaxLevel : level \in 1 .. MaxLevel
  BY <1>1
<1> HIDE DEF MaxLevel
<1> QED
  BY <1>3, <1>4, <1>5

\* The experience that a level takes begins with nothing, rises with the level and
\* is above nothing from the second level on.
LEMMA Thresholds ==
    /\ \A level \in 1 .. MaxLevel : Threshold[level] \in Nat
    /\ Threshold[1] = 0
    /\ \A level \in 2 .. MaxLevel : Threshold[level] > 0
<1> DEFINE a == [level \in 1 .. MaxLevel |-> XpToNext(level - 1)]
<1>1. MaxLevel \in Nat /\ \A level \in 2 .. MaxLevel : level \in 1 .. MaxLevel /\ level - 1 \in Nat
  BY DEF MaxLevel
<1>2. \A level \in 2 .. MaxLevel : a[level] \in Nat \ {0}
  BY <1>1, CurveSteps
<1>3. \A g : RunsUp(g, a, MaxLevel) <=>
          g = [level \in 1 .. MaxLevel |->
                  IF level = 1 THEN 0 ELSE g[level - 1] + XpToNext(level - 1)]
  BY DEF RunsUp
<1>4. \E g : RunsUp(g, a, MaxLevel)
  <2> HIDE DEF a, MaxLevel
  <2> QED
    BY <1>1, RunsUpExist
<1>5. XpBefore = CHOOSE g : g = [level \in 1 .. MaxLevel |->
                  IF level = 1 THEN 0 ELSE g[level - 1] + XpToNext(level - 1)]
  BY DEF XpBefore
<1>6. \E g : g = [level \in 1 .. MaxLevel |->
                  IF level = 1 THEN 0 ELSE g[level - 1] + XpToNext(level - 1)]
  BY <1>3, <1>4
<1>7. RunsUp(XpBefore, a, MaxLevel)
  <2>1. XpBefore = [level \in 1 .. MaxLevel |->
                  IF level = 1 THEN 0 ELSE XpBefore[level - 1] + XpToNext(level - 1)]
    BY <1>5, <1>6
  <2> QED
    BY <1>3, <2>1
<1> HIDE DEF a
<1>8. /\ \A level \in 1 .. MaxLevel : Threshold[level] \in Nat
      /\ Threshold[1] = 0
      /\ \A level \in 2 .. MaxLevel : Threshold[level] >= a[level]
  <2> HIDE DEF MaxLevel
  <2> QED
    BY <1>2, <1>7, CurveSums DEF Threshold
<1>9. \A level \in 2 .. MaxLevel : Threshold[level] > 0
  <2> HIDE DEF MaxLevel
  <2> QED
    BY <1>1, <1>2, <1>8
<1> QED
  BY <1>8, <1>9

\* The rewards up to a level begin with nothing and never fall.
LEMMA CumulativeRewards ==
    /\ \A level \in 1 .. MaxLevel : CumulativeReward[level] \in Nat
    /\ CumulativeReward[1] = 0
    /\ \A l, m \in 1 .. MaxLevel : l <= m => CumulativeReward[l] <= CumulativeReward[m]
<1> DEFINE a == [level \in 1 .. MaxLevel |-> LevelReward(level)]
<1>1. MaxLevel \in Nat /\ \A level \in 2 .. MaxLevel : level \in 1 .. MaxLevel /\ level \in Nat
  BY DEF MaxLevel
<1>2. \A level \in 2 .. MaxLevel : a[level] \in Nat
  BY <1>1, CurveSteps
<1>3. \A g : RunsUp(g, a, MaxLevel) <=>
          g = [level \in 1 .. MaxLevel |->
                  IF level = 1 THEN 0 ELSE g[level - 1] + LevelReward(level)]
  BY DEF RunsUp
<1>4. \E g : RunsUp(g, a, MaxLevel)
  <2> HIDE DEF a, MaxLevel
  <2> QED
    BY <1>1, RunsUpExist
<1>5. RewardsUpTo = CHOOSE g : g = [level \in 1 .. MaxLevel |->
                  IF level = 1 THEN 0 ELSE g[level - 1] + LevelReward(level)]
  BY DEF RewardsUpTo
<1>6. \E g : g = [level \in 1 .. MaxLevel |->
                  IF level = 1 THEN 0 ELSE g[level - 1] + LevelReward(level)]
  BY <1>3, <1>4
<1>7. RunsUp(RewardsUpTo, a, MaxLevel)
  <2>1. RewardsUpTo = [level \in 1 .. MaxLevel |->
                  IF level = 1 THEN 0 ELSE RewardsUpTo[level - 1] + LevelReward(level)]
    BY <1>5, <1>6
  <2> QED
    BY <1>3, <2>1
<1> HIDE DEF a, MaxLevel
<1> QED
  BY <1>2, <1>7, CurveSums DEF CumulativeReward

\* An account has a level of the curve, the first without experience, and more
\* experience is no lower level.
LEMMA Levels ==
    /\ \A xp \in Nat : LevelOf(xp) \in 1 .. MaxLevel
    /\ LevelOf(0) = 1
    /\ \A a, b \in Nat : a <= b => LevelOf(a) <= LevelOf(b)
<1> DEFINE Passed(xp) == {level \in 1 .. MaxLevel : Threshold[level] <= xp}
<1>1. /\ MaxLevel \in Nat /\ 1 \in 1 .. MaxLevel
      /\ \A level \in 1 .. MaxLevel : level # 1 => level \in 2 .. MaxLevel
  BY DEF MaxLevel
<1> HIDE DEF MaxLevel
<1>2. IsFiniteSet(1 .. MaxLevel) /\ Cardinality(1 .. MaxLevel) = MaxLevel
  BY <1>1, FS_Interval
<1>3. ASSUME NEW xp \in Nat
      PROVE  /\ Passed(xp) \in SUBSET (1 .. MaxLevel) /\ {1} \in SUBSET Passed(xp)
             /\ IsFiniteSet(Passed(xp)) /\ Cardinality(Passed(xp)) \in 1 .. MaxLevel
  <2>1. Passed(xp) \in SUBSET (1 .. MaxLevel) /\ {1} \in SUBSET Passed(xp)
    BY <1>1, Thresholds
  <2> HIDE DEF Passed
  <2>2. IsFiniteSet(Passed(xp)) /\ Cardinality(Passed(xp)) <= MaxLevel
        /\ Cardinality(Passed(xp)) \in Nat
    BY <1>2, <2>1, FS_Subset, FS_CardinalityType
  <2>3. Cardinality({1}) <= Cardinality(Passed(xp)) /\ Cardinality({1}) = 1
    BY <2>1, <2>2, FS_Subset, FS_Singleton
  <2> QED
    BY <1>1, <2>1, <2>2, <2>3
<1>4. LevelOf(0) = 1
  <2>1. Passed(0) = {1}
    BY <1>1, Thresholds
  <2> QED
    BY <2>1, FS_Singleton DEF LevelOf
<1>5. ASSUME NEW a \in Nat, NEW b \in Nat, a <= b
      PROVE  LevelOf(a) <= LevelOf(b)
  <2>1. Passed(a) \in SUBSET Passed(b)
    BY <1>5, Thresholds
  <2>2. Cardinality(Passed(a)) <= Cardinality(Passed(b))
    <3> HIDE DEF Passed
    <3> QED
      BY <1>3, <2>1, FS_Subset
  <2> QED
    BY <2>2 DEF LevelOf
<1> QED
  BY <1>3, <1>4, <1>5 DEF LevelOf

\* The reward of a grant is the difference of two running sums, and never negative.
LEMMA Rewards ==
    ASSUME NEW w, w.xp \in Nat, NEW granted \in Nat
    PROVE  /\ Reward(w, granted) \in Nat
           /\ CumulativeReward[LevelOf(w.xp + granted)] =
                  CumulativeReward[LevelOf(w.xp)] + Reward(w, granted)
<1>1. w.xp + granted \in Nat /\ w.xp <= w.xp + granted
  OBVIOUS
<1>2. /\ LevelOf(w.xp) \in 1 .. MaxLevel /\ LevelOf(w.xp + granted) \in 1 .. MaxLevel
      /\ LevelOf(w.xp) <= LevelOf(w.xp + granted)
  BY <1>1, Levels
<1>3. /\ CumulativeReward[LevelOf(w.xp)] \in Nat
      /\ CumulativeReward[LevelOf(w.xp + granted)] \in Nat
      /\ CumulativeReward[LevelOf(w.xp)] <= CumulativeReward[LevelOf(w.xp + granted)]
  BY <1>2, CumulativeRewards
<1> QED
  BY <1>3 DEF Reward

---------------------------------------------------------------------------
(* The entries of an account.                                              *)

IsEvents(e) ==
    /\ e \in Seq({e[n] : n \in DOMAIN e})
    /\ \A n \in DOMAIN e : e[n].amount \in Int /\ e[n].asked \in Int

IsEntry(entry) == entry.amount \in Int /\ entry.asked \in Int

Entries(e) == {e[n] : n \in DOMAIN e}

\* An operation has one entry under a mutation key.
UniqueEvents(e) == \A m, n \in DOMAIN e : e[m].op = e[n].op /\ e[m].key = e[n].key => m = n

\* An entry is written, the first of its operation under its mutation key.
Enters(e, entry, f) ==
    /\ IsEvents(e) /\ IsEntry(entry) /\ f = Append(e, entry)
    /\ \A x \in Entries(e) : ~ (x.op = entry.op /\ x.key = entry.key)

OfKind(e, kind, n) == {m \in DOMAIN e : m > n /\ e[m].kind = kind}
Amounts(e, S) == [m \in S |-> e[m].amount]
TotalOf(e, kind, n) == SumFunctionOnSet(Amounts(e, OfKind(e, kind, n)), OfKind(e, kind, n))
RebirthsOf(e) == {n \in DOMAIN e : e[n].kind = "REBIRTH"}

\* The totals of an account are those of its entries.
LEMMA TotalsOfEvents ==
    ASSUME NEW w, NEW kind, NEW n
    PROVE  Total(w, kind, n) = TotalOf(w.events, kind, n) /\ Rebirths(w) = RebirthsOf(w.events)
BY DEF Total, TotalOf, Amounts, OfKind, SumFunction, Rebirths, RebirthsOf

ComesLast(e, entry, f) ==
    /\ IsEvents(f) /\ Len(e) \in Nat /\ Len(f) = Len(e) + 1
    /\ DOMAIN e = 1 .. Len(e) /\ IsFiniteSet(DOMAIN e)
    /\ DOMAIN f = DOMAIN e \cup {Len(e) + 1} /\ Len(e) + 1 \notin DOMAIN e
    /\ \A n \in DOMAIN e : f[n] = e[n]
    /\ f[Len(e) + 1] = entry

\* An appended entry comes last and leaves the others as they are.
LEMMA Entered ==
    ASSUME NEW e, NEW entry, NEW f, Enters(e, entry, f)
    PROVE  ComesLast(e, entry, f)
<1> DEFINE S == {e[n] : n \in DOMAIN e}
<1>0. IsEntry(entry) /\ f = Append(e, entry)
  BY DEF Enters
<1>1. e \in Seq(S) /\ \A n \in DOMAIN e : e[n].amount \in Int /\ e[n].asked \in Int
  BY DEF Enters, IsEvents
<1>2. DOMAIN e = 1 .. Len(e) /\ Len(e) \in Nat
  BY <1>1
<1> DEFINE U == S \cup {entry}
<1>3. e \in Seq(U) /\ entry \in U
  <2>1. \A n \in 1 .. Len(e) : e[n] \in U
    BY <1>2
  <2> QED
    BY <1>1, <1>2, <2>1
<1> HIDE DEF U, S
<1>4. /\ f \in Seq(U) /\ Len(f) = Len(e) + 1
      /\ \A n \in 1 .. Len(e) : f[n] = e[n]
      /\ f[Len(e) + 1] = entry
  BY <1>0, <1>3, AppendProperties
<1>5. DOMAIN f = 1 .. Len(e) + 1
  BY <1>2, <1>4
<1>6. DOMAIN f = DOMAIN e \cup {Len(e) + 1} /\ Len(e) + 1 \notin DOMAIN e
  BY <1>2, <1>5
<1>7. \A n \in DOMAIN f : f[n].amount \in Int /\ f[n].asked \in Int
  BY <1>0, <1>1, <1>2, <1>4, <1>6 DEF IsEntry
<1>8. f \in Seq({f[n] : n \in DOMAIN f})
  <2>1. \A n \in 1 .. Len(f) : f[n] \in {f[m] : m \in DOMAIN f}
    BY <1>4, <1>5
  <2> QED
    BY <1>2, <1>4, <2>1
<1>9. IsFiniteSet(DOMAIN e)
  BY <1>2, FS_Interval
<1> QED
  BY <1>2, <1>4, <1>6, <1>7, <1>8, <1>9 DEF IsEvents, ComesLast

\* It joins the entries there are, and is unique among them.
LEMMA UniqueEntered ==
    ASSUME NEW e, NEW entry, NEW f, Enters(e, entry, f), UniqueEvents(e)
    PROVE  UniqueEvents(f) /\ Entries(f) = Entries(e) \cup {entry}
<1> DEFINE last == Len(e) + 1
<1>1. /\ DOMAIN f = DOMAIN e \cup {last} /\ last \notin DOMAIN e
      /\ \A n \in DOMAIN e : f[n] = e[n]
      /\ f[last] = entry
  <2>1. ComesLast(e, entry, f)
    BY Entered
  <2> QED
    BY <2>1, Zenon DEF ComesLast
<1> HIDE DEF last
<1>2. \A n \in DOMAIN e : ~ (e[n].op = entry.op /\ e[n].key = entry.key)
  BY DEF Enters, Entries
<1>3. UniqueEvents(f)
  BY <1>1, <1>2 DEF UniqueEvents
<1>4. Entries(f) = Entries(e) \cup {entry}
  BY <1>1 DEF Entries
<1> QED
  BY <1>3, <1>4

\* The entries of a kind are finitely many numbers.
LEMMA KindFacts ==
    ASSUME NEW e, IsEvents(e), NEW kind, NEW n
    PROVE  /\ IsFiniteSet(OfKind(e, kind, n)) /\ OfKind(e, kind, n) \in SUBSET DOMAIN e
           /\ \A m \in OfKind(e, kind, n) : Amounts(e, OfKind(e, kind, n))[m] = e[m].amount
           /\ \A m \in OfKind(e, kind, n) : e[m].amount \in Int
           /\ TotalOf(e, kind, n) \in Int
<1>1. DOMAIN e = 1 .. Len(e) /\ Len(e) \in Nat
  BY DEF IsEvents
<1>2. IsFiniteSet(DOMAIN e)
  BY <1>1, FS_Interval
<1>3. OfKind(e, kind, n) \in SUBSET DOMAIN e
  BY DEF OfKind
<1>4. IsFiniteSet(OfKind(e, kind, n))
  BY <1>2, <1>3, FS_Subset
<1>5. \A m \in OfKind(e, kind, n) : Amounts(e, OfKind(e, kind, n))[m] = e[m].amount
                                      /\ e[m].amount \in Int
  BY <1>3 DEF Amounts, IsEvents
<1>6. TotalOf(e, kind, n) \in Int
  BY <1>4, <1>5, SumInt DEF TotalOf
<1> QED
  BY <1>3, <1>4, <1>5, <1>6

\* A total grows by an entry of its kind, and by no other.
LEMMA TotalAfter ==
    ASSUME NEW e, NEW entry, NEW f, Enters(e, entry, f),
           NEW kind, NEW n \in 0 .. Len(e)
    PROVE  TotalOf(f, kind, n) =
               TotalOf(e, kind, n) + (IF entry.kind = kind THEN entry.amount ELSE 0)
<1> DEFINE last == Len(e) + 1
           old == OfKind(e, kind, n)
           new == OfKind(f, kind, n)
<1>1. /\ IsEvents(f) /\ Len(e) \in Nat /\ DOMAIN e = 1 .. Len(e)
      /\ DOMAIN f = DOMAIN e \cup {last} /\ last \notin DOMAIN e
      /\ \A m \in DOMAIN e : f[m] = e[m]
      /\ f[last] = entry
  <2>1. ComesLast(e, entry, f)
    BY Entered
  <2> QED
    BY <2>1, Zenon DEF ComesLast
<1>2. /\ IsFiniteSet(old) /\ old \in SUBSET DOMAIN e
      /\ \A m \in old : Amounts(e, old)[m] = e[m].amount /\ e[m].amount \in Int
      /\ TotalOf(e, kind, n) \in Int
  BY KindFacts DEF Enters
<1>3. /\ IsFiniteSet(new)
      /\ \A m \in new : Amounts(f, new)[m] = f[m].amount /\ f[m].amount \in Int
  BY <1>1, KindFacts
<1>4. last > n
  BY <1>1
<1>5. new = IF entry.kind = kind THEN old \cup {last} ELSE old
  BY <1>1, <1>4 DEF OfKind
<1>6. last \notin old
  BY <1>1, <1>2
<1>7. old \subseteq new
  BY <1>5
<1>8. \A m \in old : Amounts(e, old)[m] \in Int /\ Amounts(f, new)[m] = Amounts(e, old)[m]
  BY <1>1, <1>2, <1>3, <1>7
<1> HIDE DEF old, new
<1>9. SumFunctionOnSet(Amounts(f, new), old) = SumFunctionOnSet(Amounts(e, old), old)
  BY <1>2, <1>8, SumSame
<1>10. TotalOf(e, kind, n) = SumFunctionOnSet(Amounts(e, old), old)
       /\ TotalOf(f, kind, n) = SumFunctionOnSet(Amounts(f, new), new)
  BY DEF TotalOf, old, new
<1>11. CASE entry.kind = kind
  <2>1. new = old \cup {last} /\ last \in new
    BY <1>5, <1>11
  <2>2. Amounts(f, new)[last] = entry.amount /\ entry.amount \in Int
    BY <1>1, <1>3, <2>1
  <2>3. \A m \in old : Amounts(f, new)[m] \in Int
    BY <1>8
  <2>4. SumFunctionOnSet(Amounts(f, new), old \cup {last}) =
            SumFunctionOnSet(Amounts(f, new), old) + Amounts(f, new)[last]
    BY <1>2, <1>6, <2>2, <2>3, SumAdd
  <2>5. SumFunctionOnSet(Amounts(f, new), new) =
            SumFunctionOnSet(Amounts(f, new), old) + Amounts(f, new)[last]
    BY <2>1, <2>4, Zenon
  <2> QED
    BY <1>9, <1>10, <1>11, <2>2, <2>5
<1>12. CASE entry.kind # kind
  <2>1. new = old
    BY <1>5, <1>12
  <2>2. SumFunctionOnSet(Amounts(f, new), new) = SumFunctionOnSet(Amounts(f, new), old)
    BY <2>1, Zenon
  <2>3. TotalOf(f, kind, n) = TotalOf(e, kind, n)
    BY <1>9, <1>10, <2>2
  <2> QED
    BY <1>2, <1>12, <2>3
<1> QED
  BY <1>11, <1>12

\* Nothing comes after the last entry.
LEMMA TotalAtEnd ==
    ASSUME NEW e, IsEvents(e), NEW kind
    PROVE  TotalOf(e, kind, Len(e)) = 0
<1>1. DOMAIN e = 1 .. Len(e) /\ Len(e) \in Nat
  BY DEF IsEvents
<1>2. OfKind(e, kind, Len(e)) = {}
  BY <1>1 DEF OfKind
<1> QED
  BY <1>2, SumEmpty DEF TotalOf

\* The Rebirths of an account: one more when the entry is one.
LEMMA RebirthsAfter ==
    ASSUME NEW e, NEW entry, NEW f, Enters(e, entry, f)
    PROVE  /\ entry.kind # "REBIRTH" => RebirthsOf(f) = RebirthsOf(e)
           /\ entry.kind = "REBIRTH" => RebirthsOf(f) = RebirthsOf(e) \cup {Len(e) + 1}
           /\ RebirthsOf(e) \in SUBSET DOMAIN e /\ Len(e) + 1 \notin RebirthsOf(e)
           /\ IsFiniteSet(RebirthsOf(e))
<1>1. /\ IsFiniteSet(DOMAIN e)
      /\ DOMAIN f = DOMAIN e \cup {Len(e) + 1} /\ Len(e) + 1 \notin DOMAIN e
      /\ \A m \in DOMAIN e : f[m] = e[m]
      /\ f[Len(e) + 1] = entry
  <2>1. ComesLast(e, entry, f)
    BY Entered
  <2> QED
    BY <2>1, Zenon DEF ComesLast
<1>2. RebirthsOf(e) \in SUBSET DOMAIN e
  BY DEF RebirthsOf
<1>3. IsFiniteSet(RebirthsOf(e))
  BY <1>1, <1>2, FS_Subset
<1>4. entry.kind # "REBIRTH" => RebirthsOf(f) = RebirthsOf(e)
  BY <1>1 DEF RebirthsOf
<1>5. entry.kind = "REBIRTH" => RebirthsOf(f) = RebirthsOf(e) \cup {Len(e) + 1}
  BY <1>1 DEF RebirthsOf
<1> QED
  BY <1>1, <1>2, <1>3, <1>4, <1>5

\* The greatest of a set of numbers that are bounded.
LEMMA GreatestElement ==
    ASSUME NEW n \in Nat, NEW T \in SUBSET (0 .. n), T # {}
    PROVE  Max(T) \in T /\ \A m \in T : m <= Max(T)
<1> DEFINE U == {n - m : m \in T}
<1>1. U \in SUBSET Nat /\ U # {}
  <2>1. \A m \in T : n - m \in Nat /\ n - m \in U
    OBVIOUS
  <2>2. PICK m : m \in T
    OBVIOUS
  <2> QED
    BY <2>1, <2>2
<1>2. PICK k \in U : \A j \in U : k <= j
  BY <1>1, SmallestElement
<1>3. PICK m \in T : k = n - m
  OBVIOUS
<1>4. \A j \in T : n - j \in U /\ j \in Int
  OBVIOUS
<1>5. \A j \in T : m >= j
  BY <1>2, <1>3, <1>4
<1> QED
  BY <1>4, <1>5 DEF Max

\* The last Rebirth, and 0 before the first.
LEMMA LastRebirth ==
    ASSUME NEW e, IsEvents(e)
    PROVE  Max(RebirthsOf(e) \cup {0}) \in 0 .. Len(e)
<1>1. DOMAIN e = 1 .. Len(e) /\ Len(e) \in Nat
  BY DEF IsEvents
<1>2. RebirthsOf(e) \cup {0} \in SUBSET (0 .. Len(e))
  BY <1>1 DEF RebirthsOf
<1> QED
  BY <1>1, <1>2, GreatestElement

\* The entry of a Rebirth is the last one.
LEMMA LastAfterRebirth ==
    ASSUME NEW e, NEW entry, NEW f, Enters(e, entry, f), entry.kind = "REBIRTH"
    PROVE  Max(RebirthsOf(f) \cup {0}) = Len(f)
<1>1. /\ IsEvents(f) /\ Len(f) = Len(e) + 1 /\ Len(e) \in Nat
      /\ DOMAIN f = DOMAIN e \cup {Len(e) + 1} /\ DOMAIN e = 1 .. Len(e)
  BY Entered DEF ComesLast
<1>2. RebirthsOf(f) = RebirthsOf(e) \cup {Len(e) + 1}
  BY RebirthsAfter
<1> DEFINE T == RebirthsOf(f) \cup {0}
<1>3. T \in SUBSET (0 .. Len(f)) /\ Len(f) \in T /\ Len(f) \in Nat
  BY <1>1, <1>2 DEF RebirthsOf
<1> HIDE DEF T
<1>4. Max(T) \in T /\ \A m \in T : m <= Max(T)
  BY <1>3, GreatestElement
<1>5. Max(T) = Len(f)
  <2>1. Max(T) \in 0 .. Len(f) /\ Len(f) <= Max(T)
    BY <1>3, <1>4
  <2> QED
    BY <1>3, <2>1
<1> QED
  BY <1>5 DEF T

---------------------------------------------------------------------------
(* The parts of an account's history.                                      *)

EventsAgree(e, xp, activity, rebirths) ==
    /\ IsEvents(e) /\ UniqueEvents(e)
    /\ xp = TotalOf(e, "ACCOUNT_XP", Max(RebirthsOf(e) \cup {0}))
    /\ activity = TotalOf(e, "ACTIVITY_XP", 0)
    /\ rebirths = Cardinality(RebirthsOf(e))

MoneyAgrees(rows, wallet) ==
    /\ IsFiniteSet(rows) /\ \A row \in rows : row.amount \in Int
    /\ wallet = LedgerTotal(rows)

RewardRows(rows) == {row \in rows : row.kind = "LEVEL_REWARD"}

\* What the rewards of an account come to.
Due(xp, rebirths) == CumulativeReward[LevelOf(xp)] + rebirths * CumulativeReward[MaxLevel]

\* No account is ever further behind than one accrual settles.
Prompt == MaxDay <= MaxCatchupDays

\* Days paid at growths not above the present one, and if all that are due are settled
\* at once, those of each Rebirth before it.
DaysAgree(e, paid, rebirths) ==
    /\ paid \in Seq(0 .. rebirths)
    /\ Prompt => \A n \in RebirthsOf(e) : \A day \in 1 .. e[n].asked :
          /\ day \in DOMAIN paid
          /\ paid[day] < Cardinality({m \in RebirthsOf(e) : m <= n})

Kept(w) ==
    /\ w.xp \in 0 .. XpCap
    /\ EventsAgree(w.events, w.xp, w.activity, w.rebirths)
    /\ MoneyAgrees(w.ledger, w.wallet)
    /\ LedgerTotal(RewardRows(w.ledger)) = Due(w.xp, w.rebirths)
    /\ DaysAgree(w.events, w.paid, w.rebirths)

\* The parts are what the model says of an account.
LEMMA KeptParts ==
    ASSUME NEW w
    PROVE  Kept(w) <=> /\ IsHistory(w) /\ Reconciles(w) /\ RewardsAreDue(w)
                       /\ Prompt => DaysArePaid(w)
<1>1. /\ Total(w, "ACCOUNT_XP", Max(Rebirths(w) \cup {0}))
            = TotalOf(w.events, "ACCOUNT_XP", Max(RebirthsOf(w.events) \cup {0}))
      /\ Total(w, "ACTIVITY_XP", 0) = TotalOf(w.events, "ACTIVITY_XP", 0)
      /\ Rebirths(w) = RebirthsOf(w.events)
  BY TotalsOfEvents
<1>2. EventsAgree(w.events, w.xp, w.activity, w.rebirths) /\ MoneyAgrees(w.ledger, w.wallet)
        <=> /\ Reconciles(w) /\ IsEvents(w.events)
            /\ IsFiniteSet(w.ledger) /\ \A row \in w.ledger : row.amount \in Int
  BY <1>1, Zenon DEF EventsAgree, UniqueEvents, MoneyAgrees, Reconciles, EntriesAreUnique
<1>3. LedgerTotal(RewardRows(w.ledger)) = Due(w.xp, w.rebirths) <=> RewardsAreDue(w)
  BY Zenon DEF RewardsAreDue, LevelRewards, RewardRows, Due
<1>4. DaysAgree(w.events, w.paid, w.rebirths)
        <=> (Prompt => DaysArePaid(w)) /\ w.paid \in Seq(0 .. w.rebirths)
  BY <1>1, Zenon DEF DaysAgree, DaysArePaid
<1>5. IsHistory(w) <=>
          /\ w.xp \in 0 .. XpCap /\ IsEvents(w.events)
          /\ IsFiniteSet(w.ledger) /\ \A row \in w.ledger : row.amount \in Int
          /\ w.paid \in Seq(0 .. w.rebirths)
  BY Zenon DEF IsHistory, IsEvents
<1> QED
  BY <1>2, <1>3, <1>4, <1>5, Zenon DEF Kept

\* The Rebirths are counted by a number.
LEMMA AgreeingNumbers ==
    ASSUME NEW e, NEW xp, NEW activity, NEW rebirths,
           EventsAgree(e, xp, activity, rebirths)
    PROVE  /\ xp \in Int /\ activity \in Int /\ rebirths \in Nat
           /\ Max(RebirthsOf(e) \cup {0}) \in 0 .. Len(e)
           /\ IsFiniteSet(RebirthsOf(e)) /\ Len(e) \in Nat
<1>1. IsEvents(e)
  BY DEF EventsAgree
<1>2. DOMAIN e = 1 .. Len(e) /\ Len(e) \in Nat
  BY <1>1 DEF IsEvents
<1>3. IsFiniteSet(DOMAIN e) /\ RebirthsOf(e) \in SUBSET DOMAIN e
  BY <1>2, FS_Interval DEF RebirthsOf
<1>4. IsFiniteSet(RebirthsOf(e)) /\ Cardinality(RebirthsOf(e)) \in Nat
  BY <1>3, FS_Subset, FS_CardinalityType
<1> QED
  BY <1>1, <1>2, <1>4, KindFacts, LastRebirth DEF EventsAgree

\* An entry of Account XP or of Activity XP adds its amount to the column it is of.
LEMMA PointsEntered ==
    ASSUME NEW e, NEW xp, NEW activity, NEW rebirths,
           EventsAgree(e, xp, activity, rebirths),
           NEW entry, NEW f, Enters(e, entry, f), entry.kind # "REBIRTH"
    PROVE  EventsAgree(f, xp + (IF entry.kind = "ACCOUNT_XP" THEN entry.amount ELSE 0),
                       activity + (IF entry.kind = "ACTIVITY_XP" THEN entry.amount ELSE 0),
                       rebirths)
<1> DEFINE last == Max(RebirthsOf(e) \cup {0})
<1>1. last \in 0 .. Len(e) /\ 0 \in 0 .. Len(e)
  BY AgreeingNumbers
<1>2. RebirthsOf(f) = RebirthsOf(e)
  BY RebirthsAfter
<1>3. IsEvents(f) /\ UniqueEvents(f)
  BY Entered, UniqueEntered DEF ComesLast, EventsAgree
<1>4. /\ xp = TotalOf(e, "ACCOUNT_XP", last) /\ activity = TotalOf(e, "ACTIVITY_XP", 0)
      /\ rebirths = Cardinality(RebirthsOf(e))
  BY DEF EventsAgree
<1>5. Max(RebirthsOf(f) \cup {0}) = last /\ rebirths = Cardinality(RebirthsOf(f))
  BY <1>2, <1>4, Zenon
<1> HIDE DEF last
<1>6. TotalOf(f, "ACCOUNT_XP", last) =
          xp + (IF entry.kind = "ACCOUNT_XP" THEN entry.amount ELSE 0)
  BY <1>1, <1>4, TotalAfter
<1>7. TotalOf(f, "ACTIVITY_XP", 0) =
          activity + (IF entry.kind = "ACTIVITY_XP" THEN entry.amount ELSE 0)
  BY <1>1, <1>4, TotalAfter
<1> QED
  BY <1>3, <1>5, <1>6, <1>7, Zenon DEF EventsAgree

\* A Rebirth begins the Account XP anew.
LEMMA RebirthEntered ==
    ASSUME NEW e, NEW xp, NEW activity, NEW rebirths,
           EventsAgree(e, xp, activity, rebirths),
           NEW entry, NEW f, Enters(e, entry, f), entry.kind = "REBIRTH"
    PROVE  EventsAgree(f, 0, activity, rebirths + 1)
<1>1. 0 \in 0 .. Len(e) /\ rebirths \in Nat /\ activity \in Int
  <2>1. activity \in Int /\ rebirths \in Nat /\ Len(e) \in Nat
    BY AgreeingNumbers
  <2> QED
    BY <2>1
<1>2. /\ RebirthsOf(f) = RebirthsOf(e) \cup {Len(e) + 1}
      /\ Len(e) + 1 \notin RebirthsOf(e) /\ IsFiniteSet(RebirthsOf(e))
  BY RebirthsAfter
<1>3. IsEvents(f) /\ UniqueEvents(f)
  BY Entered, UniqueEntered DEF ComesLast, EventsAgree
<1>4. activity = TotalOf(e, "ACTIVITY_XP", 0) /\ rebirths = Cardinality(RebirthsOf(e))
  BY DEF EventsAgree
<1>5. Cardinality(RebirthsOf(e) \cup {Len(e) + 1}) = rebirths + 1
  BY <1>2, <1>4, FS_AddElement
<1>6. Cardinality(RebirthsOf(f)) = rebirths + 1
  BY <1>2, <1>5, Zenon
<1>7. Max(RebirthsOf(f) \cup {0}) = Len(f)
  BY LastAfterRebirth
<1>8. TotalOf(f, "ACCOUNT_XP", Len(f)) = 0
  BY <1>3, TotalAtEnd
<1>9. TotalOf(f, "ACTIVITY_XP", 0) = activity
  <2>1. TotalOf(f, "ACTIVITY_XP", 0) =
            activity + (IF entry.kind = "ACTIVITY_XP" THEN entry.amount ELSE 0)
    BY <1>1, <1>4, TotalAfter
  <2> QED
    BY <1>1, <2>1
<1> QED
  BY <1>3, <1>6, <1>7, <1>8, <1>9, Zenon DEF EventsAgree

\* A new row of the ledger adds its amount to what all rows come to, and to the
\* rewards if it is one.
LEMMA RowEntered ==
    ASSUME NEW rows, NEW wallet, MoneyAgrees(rows, wallet),
           NEW row, row \notin rows, row.amount \in Int
    PROVE  /\ MoneyAgrees(rows \cup {row}, wallet + row.amount)
           /\ row.kind = "LEVEL_REWARD" =>
                  LedgerTotal(RewardRows(rows \cup {row})) =
                      LedgerTotal(RewardRows(rows)) + row.amount
           /\ row.kind # "LEVEL_REWARD" => RewardRows(rows \cup {row}) = RewardRows(rows)
           /\ LedgerTotal(RewardRows(rows)) \in Int /\ wallet \in Int
<1>0. IsFiniteSet(rows) /\ (\A r \in rows : r.amount \in Int) /\ wallet = LedgerTotal(rows)
  BY DEF MoneyAgrees
<1>1. ASSUME NEW S \in SUBSET rows
      PROVE  /\ LedgerTotal(S) \in Int
             /\ LedgerTotal(S \cup {row}) = LedgerTotal(S) + row.amount
  <2> DEFINE f == [r \in S |-> r.amount]
             g == [r \in S \cup {row} |-> r.amount]
  <2>1. IsFiniteSet(S) /\ row \notin S
    BY <1>0, FS_Subset
  <2>2. /\ LedgerTotal(S) = SumFunctionOnSet(f, S)
        /\ LedgerTotal(S \cup {row}) = SumFunctionOnSet(g, S \cup {row})
    BY DEF LedgerTotal, SumFunction
  <2>3. /\ \A r \in S : f[r] \in Int /\ g[r] = f[r] /\ g[r] \in Int
        /\ g[row] = row.amount
    BY <1>0
  <2> HIDE DEF f, g
  <2>4. SumFunctionOnSet(g, S) = SumFunctionOnSet(f, S)
    BY <2>1, <2>3, SumSame
  <2>5. SumFunctionOnSet(g, S \cup {row}) = SumFunctionOnSet(g, S) + g[row]
    BY <2>1, <2>3, SumAdd
  <2>6. SumFunctionOnSet(f, S) \in Int
    BY <2>1, <2>3, SumInt
  <2> QED
    BY <2>2, <2>3, <2>4, <2>5, <2>6
<1>2. MoneyAgrees(rows \cup {row}, wallet + row.amount)
  <2>1. LedgerTotal(rows \cup {row}) = wallet + row.amount
    BY <1>0, <1>1
  <2>2. IsFiniteSet(rows \cup {row})
    BY <1>0, FS_AddElement
  <2> QED
    BY <1>0, <2>1, <2>2 DEF MoneyAgrees
<1>3. RewardRows(rows) \in SUBSET rows
  BY DEF RewardRows
<1>4. ASSUME row.kind = "LEVEL_REWARD"
      PROVE  LedgerTotal(RewardRows(rows \cup {row})) =
                 LedgerTotal(RewardRows(rows)) + row.amount
  <2>1. RewardRows(rows \cup {row}) = RewardRows(rows) \cup {row}
    BY <1>4 DEF RewardRows
  <2>2. LedgerTotal(RewardRows(rows) \cup {row}) = LedgerTotal(RewardRows(rows)) + row.amount
    BY <1>1, <1>3
  <2> QED
    BY <2>1, <2>2, Zenon
<1>5. ASSUME row.kind # "LEVEL_REWARD"
      PROVE  RewardRows(rows \cup {row}) = RewardRows(rows)
  BY <1>5 DEF RewardRows
<1> QED
  BY <1>0, <1>1, <1>2, <1>3, <1>4, <1>5

\* An entry that is no Rebirth changes nothing of what the days were paid at.
LEMMA DaysStand ==
    ASSUME NEW e, NEW paid, NEW rebirths, DaysAgree(e, paid, rebirths),
           NEW entry, NEW f, Enters(e, entry, f), entry.kind # "REBIRTH"
    PROVE  DaysAgree(f, paid, rebirths)
<1>1. RebirthsOf(f) = RebirthsOf(e) /\ RebirthsOf(e) \in SUBSET DOMAIN e
  BY RebirthsAfter
<1>2. \A n \in DOMAIN e : f[n] = e[n]
  <2>1. ComesLast(e, entry, f)
    BY Entered
  <2> QED
    BY <2>1, Zenon DEF ComesLast
<1>3. \A n \in RebirthsOf(e) : f[n] = e[n]
  BY <1>1, <1>2
<1> QED
  BY <1>1, <1>3, Zenon DEF DaysAgree

\* A Rebirth whose days have been paid finds them paid at the growth before it.
LEMMA DaysBeforeRebirth ==
    ASSUME NEW e, NEW paid, NEW rebirths, DaysAgree(e, paid, rebirths),
           NEW xp, NEW activity, EventsAgree(e, xp, activity, rebirths),
           NEW entry, NEW f, Enters(e, entry, f), entry.kind = "REBIRTH",
           Prompt => entry.asked <= Len(paid)
    PROVE  DaysAgree(f, paid, rebirths + 1)
<1> DEFINE last == Len(e) + 1
<1>1. /\ RebirthsOf(f) = RebirthsOf(e) \cup {last} /\ last \notin RebirthsOf(e)
      /\ RebirthsOf(e) \in SUBSET DOMAIN e /\ IsFiniteSet(RebirthsOf(e))
  BY RebirthsAfter
<1>2. /\ \A n \in DOMAIN e : f[n] = e[n]
      /\ f[last] = entry /\ DOMAIN e = 1 .. Len(e) /\ Len(e) \in Nat
  <2>1. ComesLast(e, entry, f)
    BY Entered
  <2> QED
    BY <2>1, Zenon DEF ComesLast
<1>3. rebirths \in Nat /\ rebirths = Cardinality(RebirthsOf(e)) /\ entry.asked \in Int
  BY AgreeingNumbers DEF EventsAgree, Enters, IsEntry
<1>4. /\ paid \in Seq(0 .. rebirths) /\ Len(paid) \in Nat /\ DOMAIN paid = 1 .. Len(paid)
      /\ \A day \in DOMAIN paid : paid[day] \in 0 .. rebirths
  <2> DEFINE growths == 0 .. rebirths
  <2>1. paid \in Seq(growths)
    BY Zenon DEF DaysAgree
  <2> HIDE DEF growths
  <2>2. /\ Len(paid) \in Nat /\ DOMAIN paid = 1 .. Len(paid)
        /\ \A day \in DOMAIN paid : paid[day] \in growths
    BY <2>1
  <2> QED
    BY <2>1, <2>2, Zenon DEF growths
<1>5. paid \in Seq(0 .. rebirths + 1)
  <2> DEFINE growths == 0 .. rebirths + 1
  <2>1. \A day \in 1 .. Len(paid) : paid[day] \in growths
    BY <1>3, <1>4
  <2> HIDE DEF growths
  <2>2. paid \in Seq(growths)
    BY <1>4, <2>1
  <2> QED
    BY <2>2 DEF growths
<1>6. ASSUME Prompt, NEW n \in RebirthsOf(f), NEW day \in 1 .. f[n].asked
      PROVE  /\ day \in DOMAIN paid
             /\ paid[day] < Cardinality({m \in RebirthsOf(f) : m <= n})
  <2>1. CASE n = last
    <3>1. f[n] = entry /\ day \in DOMAIN paid
      BY <1>2, <1>3, <1>4, <1>6, <2>1
    <3>2. {m \in RebirthsOf(f) : m <= n} = RebirthsOf(e) \cup {last}
      BY <1>1, <1>2, <2>1
    <3>3. Cardinality(RebirthsOf(e) \cup {last}) = rebirths + 1
      BY <1>1, <1>3, FS_AddElement
    <3>4. Cardinality({m \in RebirthsOf(f) : m <= n}) = rebirths + 1
      BY <3>2, <3>3, Zenon
    <3> QED
      BY <1>3, <1>4, <3>1, <3>4
  <2>2. CASE n # last
    <3>1. n \in RebirthsOf(e) /\ n \in DOMAIN e /\ f[n] = e[n]
      BY <1>1, <1>2, <1>6, <2>2
    <3>2. {m \in RebirthsOf(f) : m <= n} = {m \in RebirthsOf(e) : m <= n}
      BY <1>1, <1>2, <3>1
    <3>3. day \in DOMAIN paid /\ paid[day] < Cardinality({m \in RebirthsOf(e) : m <= n})
      BY <1>6, <3>1 DEF DaysAgree
    <3> QED
      BY <3>2, <3>3, Zenon
  <2> QED
    BY <2>1, <2>2
<1> QED
  BY <1>5, <1>6 DEF DaysAgree

\* Days paid later leave those paid before as they are.
LEMMA DaysAdded ==
    ASSUME NEW e, NEW paid, NEW rebirths, DaysAgree(e, paid, rebirths),
           NEW more \in Seq(0 .. rebirths), Len(paid) <= Len(more),
           \A day \in 1 .. Len(paid) : more[day] = paid[day]
    PROVE  DaysAgree(e, more, rebirths)
<1>1. /\ Len(paid) \in Nat /\ DOMAIN paid = 1 .. Len(paid)
      /\ Len(more) \in Nat /\ DOMAIN more = 1 .. Len(more)
  BY DEF DaysAgree
<1>2. \A day \in DOMAIN paid : day \in DOMAIN more /\ more[day] = paid[day]
  BY <1>1
<1> QED
  BY <1>2, Zenon DEF DaysAgree

---------------------------------------------------------------------------
(* What the primitives do to an account's history.                         *)

\* An operation adds entries and rows of the ledger of its own, and days at the end only.
Adds(w, new, k) ==
    /\ Kept(new)
    /\ \A x \in Entries(new.events) : x \in Entries(w.events) \/ x.op = k
    /\ \A row \in new.ledger : row \in w.ledger \/ row.op = k
    /\ Len(w.paid) <= Len(new.paid)

\* The seven columns of an account that history is about.
Columned(w, xp, activity, wallet, rebirths, paid, events, ledger) ==
    /\ w.xp = xp /\ w.activity = activity /\ w.wallet = wallet /\ w.rebirths = rebirths
    /\ w.paid = paid /\ w.events = events /\ w.ledger = ledger

\* A row whose columns agree is kept.
LEMMA ColumnsKept ==
    ASSUME NEW w, NEW xp, NEW activity, NEW wallet, NEW rebirths, NEW paid, NEW events,
           NEW ledger, Columned(w, xp, activity, wallet, rebirths, paid, events, ledger),
           xp \in 0 .. XpCap, EventsAgree(events, xp, activity, rebirths),
           MoneyAgrees(ledger, wallet),
           LedgerTotal(RewardRows(ledger)) = Due(xp, rebirths),
           DaysAgree(events, paid, rebirths)
    PROVE  Kept(w)
BY Zenon DEF Columned, Kept

\* The numbers of an account.
LEMMA KeptNumbers ==
    ASSUME NEW w, Kept(w)
    PROVE  /\ w.xp \in 0 .. XpCap /\ XpCap \in Nat
           /\ w.activity \in Int /\ w.wallet \in Int /\ w.rebirths \in Nat
           /\ Len(w.paid) \in Nat
           /\ IsFiniteSet(w.ledger) /\ \A row \in w.ledger : row.amount \in Int
<1>1. /\ w.xp \in 0 .. XpCap /\ EventsAgree(w.events, w.xp, w.activity, w.rebirths)
      /\ MoneyAgrees(w.ledger, w.wallet) /\ DaysAgree(w.events, w.paid, w.rebirths)
  BY Zenon DEF Kept
<1>2. w.activity \in Int /\ w.rebirths \in Nat
  BY <1>1, AgreeingNumbers
<1>3. IsFiniteSet(w.ledger) /\ (\A row \in w.ledger : row.amount \in Int)
      /\ w.wallet = LedgerTotal(w.ledger)
  BY <1>1, Zenon DEF MoneyAgrees
<1>4. w.wallet \in Int
  <2> DEFINE f == [row \in w.ledger |-> row.amount]
  <2>1. LedgerTotal(w.ledger) = SumFunctionOnSet(f, w.ledger)
    BY DEF LedgerTotal, SumFunction
  <2>2. \A row \in w.ledger : f[row] \in Int
    BY <1>3
  <2> HIDE DEF f
  <2> QED
    BY <1>3, <2>1, <2>2, SumInt
<1>5. w.paid \in Seq(0 .. w.rebirths)
  BY <1>1, Zenon DEF DaysAgree
<1>6. Len(w.paid) \in Nat
  BY <1>5
<1>7. XpCap \in Nat
  BY Thresholds DEF XpCap, MaxLevel
<1> QED
  BY <1>1, <1>2, <1>3, <1>4, <1>6, <1>7

\* What an operation writes first under a mutation key is entered.
LEMMA FirstEntry ==
    ASSUME NEW w, Kept(w), NEW entry, IsEntry(entry),
           EventsOf(w, entry.op, entry.key) = {}, NEW f, f = Append(w.events, entry)
    PROVE  /\ Enters(w.events, entry, f)
           /\ \A x \in Entries(f) : x \in Entries(w.events) \/ x.op = entry.op
<1>1. IsEvents(w.events) /\ UniqueEvents(w.events)
  BY Zenon DEF Kept, EventsAgree
<1>2. \A x \in Entries(w.events) : ~ (x.op = entry.op /\ x.key = entry.key)
  BY DEF Entries, EventsOf
<1>3. Enters(w.events, entry, f)
  BY <1>1, <1>2 DEF Enters
<1> QED
  BY <1>1, <1>3, UniqueEntered

\* A grant writes one entry for the experience and one row for its reward.
LEMMA GrantHistory ==
    ASSUME NEW w, IsAccount(w), Kept(w), NEW k, NEW key, NEW amount \in Nat,
           LedgerOf(w, k) = {}, EventsOf(w, k, key) = {}
    PROVE  Adds(w, XpGranted(w, k, key, amount), k)
<1> DEFINE granted == Granted(w, amount)
           reward == Reward(w, granted)
           row == [op |-> k, kind |-> "LEVEL_REWARD", amount |-> reward]
           entry == [op |-> k, key |-> key, kind |-> "ACCOUNT_XP",
                     asked |-> amount, amount |-> granted]
           rows == w.ledger \cup (IF reward > 0 THEN {row} ELSE {})
           f == Append(w.events, entry)
           new == XpGranted(w, k, key, amount)
<1>1. Columned(new, w.xp + granted, w.activity, w.wallet + reward, w.rebirths, w.paid, f, rows)
  <2>1. new = [w EXCEPT !.xp = w.xp + granted, !.wallet = w.wallet + reward,
                        !.ledger = rows, !.events = f]
    BY Zenon DEF XpGranted, IsAccount
  <2> HIDE DEF new, granted, reward, rows, f, row, entry
  <2> QED
    BY <2>1 DEF IsAccount, Columned
<1>2. /\ w.xp \in 0 .. XpCap /\ XpCap \in Nat /\ w.rebirths \in Nat
      /\ w.activity \in Int /\ w.wallet \in Int
  BY KeptNumbers
<1>3. granted \in Nat /\ w.xp + granted \in 0 .. XpCap /\ w.xp \in Nat
  BY <1>2 DEF Granted, Lesser
<1> HIDE DEF granted
<1>4. reward \in Nat
      /\ CumulativeReward[LevelOf(w.xp + granted)] = CumulativeReward[LevelOf(w.xp)] + reward
  BY <1>3, Rewards
<1> HIDE DEF reward
<1>5. /\ EventsAgree(w.events, w.xp, w.activity, w.rebirths)
      /\ MoneyAgrees(w.ledger, w.wallet)
      /\ LedgerTotal(RewardRows(w.ledger)) = Due(w.xp, w.rebirths)
      /\ DaysAgree(w.events, w.paid, w.rebirths)
  BY Zenon DEF Kept
<1>6. /\ entry.kind = "ACCOUNT_XP" /\ entry.amount = granted /\ IsEntry(entry)
      /\ entry.op = k /\ entry.key = key
  BY <1>3 DEF IsEntry
<1>7. row.op = k /\ row.kind = "LEVEL_REWARD" /\ row.amount = reward
  OBVIOUS
<1>8. /\ Enters(w.events, entry, f)
      /\ \A x \in Entries(f) : x \in Entries(w.events) \/ x.op = k
  <2>1. f = Append(w.events, entry) /\ EventsOf(w, entry.op, entry.key) = {}
    BY <1>6
  <2> HIDE DEF entry, f
  <2> QED
    BY <1>6, <2>1, FirstEntry
<1> HIDE DEF entry, f, row
<1>9. EventsAgree(f, w.xp + granted, w.activity, w.rebirths)
  <2>1. EventsAgree(f, w.xp + (IF entry.kind = "ACCOUNT_XP" THEN entry.amount ELSE 0),
                       w.activity + (IF entry.kind = "ACTIVITY_XP" THEN entry.amount ELSE 0),
                       w.rebirths)
    BY <1>5, <1>6, <1>8, PointsEntered
  <2>2. /\ w.xp + (IF entry.kind = "ACCOUNT_XP" THEN entry.amount ELSE 0) = w.xp + granted
        /\ w.activity + (IF entry.kind = "ACTIVITY_XP" THEN entry.amount ELSE 0) = w.activity
    BY <1>2, <1>6
  <2> QED
    BY <2>1, <2>2, Zenon
<1>10. DaysAgree(f, w.paid, w.rebirths)
  BY <1>5, <1>6, <1>8, DaysStand
<1>11. /\ CumulativeReward[MaxLevel] \in Nat /\ CumulativeReward[LevelOf(w.xp)] \in Nat
  <2>1. MaxLevel \in 1 .. MaxLevel
    BY DEF MaxLevel
  <2> QED
    BY <1>3, <2>1, Levels, CumulativeRewards
<1>12. Due(w.xp + granted, w.rebirths) = Due(w.xp, w.rebirths) + reward
       /\ Due(w.xp, w.rebirths) \in Int
  <2> DEFINE before == w.rebirths * CumulativeReward[MaxLevel]
  <2>1. before \in Nat
    BY <1>2, <1>11
  <2>2. /\ Due(w.xp + granted, w.rebirths) = CumulativeReward[LevelOf(w.xp + granted)] + before
        /\ Due(w.xp, w.rebirths) = CumulativeReward[LevelOf(w.xp)] + before
    BY DEF Due
  <2> HIDE DEF before
  <2> QED
    BY <1>4, <1>11, <2>1, <2>2
<1>13. /\ MoneyAgrees(rows, w.wallet + reward)
       /\ LedgerTotal(RewardRows(rows)) = Due(w.xp + granted, w.rebirths)
  <2>1. CASE reward > 0
    <3>1. rows = w.ledger \cup {row}
      BY <2>1
    <3>2. row \notin w.ledger
      BY <1>7 DEF LedgerOf
    <3>3. /\ MoneyAgrees(w.ledger \cup {row}, w.wallet + row.amount)
          /\ LedgerTotal(RewardRows(w.ledger \cup {row})) =
                 LedgerTotal(RewardRows(w.ledger)) + row.amount
      <4>1. row.amount \in Int
        BY <1>4, <1>7
      <4>2. /\ MoneyAgrees(w.ledger \cup {row}, w.wallet + row.amount)
            /\ row.kind = "LEVEL_REWARD" =>
                   LedgerTotal(RewardRows(w.ledger \cup {row})) =
                       LedgerTotal(RewardRows(w.ledger)) + row.amount
        BY <1>5, <3>2, <4>1, RowEntered
      <4> QED
        BY <1>7, <4>2
    <3> QED
      BY <1>5, <1>7, <1>12, <3>1, <3>3, Zenon
  <2>2. CASE ~ (reward > 0)
    <3>1. rows = w.ledger /\ reward = 0
      BY <1>4, <2>2
    <3>2. w.wallet + reward = w.wallet /\ Due(w.xp + granted, w.rebirths) = Due(w.xp, w.rebirths)
      BY <1>2, <1>12, <3>1
    <3> QED
      BY <1>5, <3>1, <3>2, Zenon
  <2> QED
    BY <2>1, <2>2
<1>14. \A r \in rows : r \in w.ledger \/ r.op = k
  BY <1>7
<1> HIDE DEF rows, new
<1>15. Kept(new)
  BY <1>1, <1>3, <1>9, <1>10, <1>13, ColumnsKept
<1>16. new.ledger = rows /\ new.paid = w.paid /\ new.events = f /\ Len(w.paid) \in Nat
  BY <1>1, KeptNumbers DEF Columned
<1> QED
  BY <1>8, <1>14, <1>15, <1>16 DEF Adds, new

\* A leg of Activity XP writes one entry, a spend one row.
LEMMA LegHistory ==
    ASSUME NEW w, IsAccount(w), Kept(w), NEW k, NEW leg \in PlanLegs,
           Traces(w, k, leg) = {}, MayRun(w, k, leg)
    PROVE  Adds(w, Ran(w, k, leg), k)
<1> DEFINE new == Ran(w, k, leg)
<1>1. leg.kind \in {"XP", "ACTIVITY", "SPEND"} /\ leg.amount \in Int
      /\ (leg.kind # "ACTIVITY" => leg.amount \in Nat)
  BY DEF PlanLegs
<1>2. /\ EventsAgree(w.events, w.xp, w.activity, w.rebirths)
      /\ MoneyAgrees(w.ledger, w.wallet)
      /\ LedgerTotal(RewardRows(w.ledger)) = Due(w.xp, w.rebirths)
      /\ DaysAgree(w.events, w.paid, w.rebirths)
  BY Zenon DEF Kept
<1>3. /\ w.xp \in 0 .. XpCap /\ w.rebirths \in Nat /\ Len(w.paid) \in Nat
      /\ w.activity \in Int /\ w.wallet \in Int /\ XpCap \in Nat
  BY KeptNumbers
<1>4. CASE leg.kind = "XP"
  <2>1. /\ new = XpGranted(w, k, SettlementKey, leg.amount)
        /\ LedgerOf(w, k) = {} /\ EventsOf(w, k, SettlementKey) = {}
    BY <1>4 DEF Ran, MayRun, Traces
  <2> QED
    BY <1>1, <1>4, <2>1, GrantHistory
<1>5. CASE leg.kind = "ACTIVITY"
  <2> DEFINE entry == [op |-> k, key |-> leg.key, kind |-> "ACTIVITY_XP",
                       asked |-> leg.amount, amount |-> leg.amount]
             f == Append(w.events, entry)
  <2>1. new = [w EXCEPT !.activity = w.activity + leg.amount, !.events = f]
    BY <1>5, Zenon DEF Ran, IsAccount
  <2>2. /\ entry.kind = "ACTIVITY_XP" /\ entry.amount = leg.amount /\ IsEntry(entry)
        /\ entry.op = k /\ entry.key = leg.key
    BY <1>1 DEF IsEntry
  <2>3. /\ Enters(w.events, entry, f)
        /\ \A x \in Entries(f) : x \in Entries(w.events) \/ x.op = k
    <3>1. f = Append(w.events, entry) /\ EventsOf(w, entry.op, entry.key) = {}
      BY <1>5, <2>2 DEF Traces
    <3> HIDE DEF entry, f
    <3> QED
      BY <2>2, <3>1, FirstEntry
  <2> HIDE DEF new, f, entry
  <2>4. Columned(new, w.xp, w.activity + leg.amount, w.wallet, w.rebirths, w.paid, f, w.ledger)
    BY <2>1 DEF IsAccount, Columned
  <2>5. EventsAgree(f, w.xp, w.activity + leg.amount, w.rebirths)
    <3>1. EventsAgree(f, w.xp + (IF entry.kind = "ACCOUNT_XP" THEN entry.amount ELSE 0),
                         w.activity + (IF entry.kind = "ACTIVITY_XP" THEN entry.amount ELSE 0),
                         w.rebirths)
      BY <1>2, <2>2, <2>3, PointsEntered
    <3>2. /\ w.xp + (IF entry.kind = "ACCOUNT_XP" THEN entry.amount ELSE 0) = w.xp
          /\ w.activity + (IF entry.kind = "ACTIVITY_XP" THEN entry.amount ELSE 0)
                = w.activity + leg.amount
      BY <1>3, <2>2
    <3> QED
      BY <3>1, <3>2, Zenon
  <2>6. DaysAgree(f, w.paid, w.rebirths)
    BY <1>2, <2>2, <2>3, DaysStand
  <2>7. Kept(new)
    BY <1>2, <1>3, <2>4, <2>5, <2>6, ColumnsKept
  <2>8. new.ledger = w.ledger /\ new.paid = w.paid /\ new.events = f
    BY <2>4 DEF Columned
  <2> QED
    BY <1>3, <2>3, <2>7, <2>8 DEF Adds, new
<1>6. CASE leg.kind = "SPEND"
  <2> DEFINE row == [op |-> k, kind |-> "WALLET_SPEND", amount |-> - leg.amount]
             rows == w.ledger \cup {row}
  <2>1. new = [w EXCEPT !.wallet = w.wallet - leg.amount, !.ledger = rows]
    BY <1>6, Zenon DEF Ran, IsAccount
  <2>2. row.op = k /\ row.kind = "WALLET_SPEND" /\ row.amount = - leg.amount
    OBVIOUS
  <2>3. row \notin w.ledger
    BY <1>6, <2>2 DEF Traces, LedgerOf
  <2> HIDE DEF new, row
  <2>4. Columned(new, w.xp, w.activity, w.wallet - leg.amount, w.rebirths, w.paid, w.events, rows)
    <3> HIDE DEF rows
    <3> QED
      BY <2>1 DEF IsAccount, Columned
  <2>5. row.amount \in Int /\ w.wallet + row.amount = w.wallet - leg.amount
    BY <1>1, <1>3, <2>2
  <2>6. /\ MoneyAgrees(w.ledger \cup {row}, w.wallet + row.amount)
        /\ RewardRows(w.ledger \cup {row}) = RewardRows(w.ledger)
    BY <1>2, <2>2, <2>3, <2>5, RowEntered
  <2>7. /\ MoneyAgrees(rows, w.wallet - leg.amount)
        /\ LedgerTotal(RewardRows(rows)) = Due(w.xp, w.rebirths)
    BY <1>2, <2>5, <2>6, Zenon
  <2>8. \A r \in rows : r \in w.ledger \/ r.op = k
    BY <2>2
  <2> HIDE DEF rows
  <2>9. Kept(new)
    BY <1>2, <1>3, <2>4, <2>7, ColumnsKept
  <2>10. new.ledger = rows /\ new.paid = w.paid /\ new.events = w.events
    BY <2>4 DEF Columned
  <2> QED
    BY <1>3, <2>8, <2>9, <2>10 DEF Adds, new
<1> QED
  BY <1>1, <1>4, <1>5, <1>6

\* A Rebirth writes its entry and takes the experience; its rewards have been paid.
LEMMA RebirthHistory ==
    ASSUME NEW w, IsAccount(w), Kept(w), AtCap(w), NEW k, NEW asked \in Int,
           Prompt => asked <= Len(w.paid), EventsOf(w, k, "primary") = {}
    PROVE  Adds(w, Reborn(w, k, asked), k)
<1> DEFINE new == Reborn(w, k, asked)
           entry == [op |-> k, key |-> "primary", kind |-> "REBIRTH",
                     asked |-> asked, amount |-> w.xp]
           f == Append(w.events, entry)
<1>1. new = [w EXCEPT !.xp = 0, !.rebirths = w.rebirths + 1, !.events = f]
  BY Zenon DEF Reborn, IsAccount
<1>2. /\ EventsAgree(w.events, w.xp, w.activity, w.rebirths)
      /\ MoneyAgrees(w.ledger, w.wallet)
      /\ LedgerTotal(RewardRows(w.ledger)) = Due(w.xp, w.rebirths)
      /\ DaysAgree(w.events, w.paid, w.rebirths)
  BY Zenon DEF Kept
<1>3. w.xp \in 0 .. XpCap /\ w.rebirths \in Nat /\ Len(w.paid) \in Nat /\ XpCap \in Nat
  BY KeptNumbers
<1>4. /\ entry.kind = "REBIRTH" /\ entry.asked = asked /\ IsEntry(entry)
      /\ entry.op = k /\ entry.key = "primary"
  BY <1>3 DEF IsEntry
<1>5. /\ Enters(w.events, entry, f)
      /\ \A x \in Entries(f) : x \in Entries(w.events) \/ x.op = k
  <2>1. f = Append(w.events, entry) /\ EventsOf(w, entry.op, entry.key) = {}
    BY <1>4
  <2> HIDE DEF entry, f
  <2> QED
    BY <1>4, <2>1, FirstEntry
<1> HIDE DEF new, f, entry
<1>6. Columned(new, 0, w.activity, w.wallet, w.rebirths + 1, w.paid, f, w.ledger)
  BY <1>1 DEF IsAccount, Columned
<1>7. EventsAgree(f, 0, w.activity, w.rebirths + 1)
  BY <1>2, <1>4, <1>5, RebirthEntered
<1>8. DaysAgree(f, w.paid, w.rebirths + 1)
  BY <1>2, <1>4, <1>5, DaysBeforeRebirth
<1>9. Due(0, w.rebirths + 1) = Due(w.xp, w.rebirths)
  <2> DEFINE most == CumulativeReward[MaxLevel]
  <2>1. MaxLevel \in 1 .. MaxLevel
    BY DEF MaxLevel
  <2>2. most \in Nat
    BY <2>1, CumulativeRewards
  <2>3. /\ Due(0, w.rebirths + 1) = CumulativeReward[LevelOf(0)] + (w.rebirths + 1) * most
        /\ Due(w.xp, w.rebirths) = CumulativeReward[LevelOf(w.xp)] + w.rebirths * most
    BY DEF Due
  <2>4. CumulativeReward[LevelOf(0)] = 0
    <3>1. LevelOf(0) = 1
      BY Levels
    <3> QED
      BY <3>1, CumulativeRewards
  <2>5. CumulativeReward[LevelOf(w.xp)] = most
    BY DEF AtCap
  <2> HIDE DEF most
  <2>6. (w.rebirths + 1) * most = most + w.rebirths * most /\ w.rebirths * most \in Int
    BY <1>3, <2>2
  <2> QED
    BY <2>2, <2>3, <2>4, <2>5, <2>6
<1>10. LedgerTotal(RewardRows(w.ledger)) = Due(0, w.rebirths + 1) /\ 0 \in 0 .. XpCap
  BY <1>2, <1>3, <1>9
<1>11. Kept(new)
  BY <1>2, <1>6, <1>7, <1>8, <1>10, ColumnsKept
<1>12. new.ledger = w.ledger /\ new.paid = w.paid /\ new.events = f
  BY <1>6 DEF Columned
<1> QED
  BY <1>3, <1>5, <1>11, <1>12 DEF Adds, new

\* An accrual pays the days up to one at the present growth, as many as it settles.
LEMMA AccrualHistory ==
    ASSUME NEW w, IsAccount(w), Kept(w), NEW day \in Nat, NEW k
    PROVE  /\ Adds(w, Accrued(w, day), k)
           /\ Accrued(w, day).ledger = w.ledger /\ Accrued(w, day).events = w.events
           /\ day <= MaxCatchupDays => day <= Len(Accrued(w, day).paid)
<1> DEFINE new == Accrued(w, day)
           growths == 0 .. w.rebirths
           due == Max({day - Len(w.paid), 0})
           days == Len(w.paid) + Lesser(due, MaxCatchupDays)
           more == [d \in 1 .. days |-> IF d <= Len(w.paid) THEN w.paid[d] ELSE w.rebirths]
<1>1. new = [w EXCEPT !.paid = more]
  BY Zenon DEF Accrued, IsAccount
<1>2. /\ EventsAgree(w.events, w.xp, w.activity, w.rebirths)
      /\ MoneyAgrees(w.ledger, w.wallet)
      /\ LedgerTotal(RewardRows(w.ledger)) = Due(w.xp, w.rebirths)
      /\ DaysAgree(w.events, w.paid, w.rebirths)
  BY Zenon DEF Kept
<1>3. w.xp \in 0 .. XpCap /\ w.rebirths \in Nat /\ Len(w.paid) \in Nat
  BY KeptNumbers
<1>4. due = IF day - Len(w.paid) >= 0 THEN day - Len(w.paid) ELSE 0
  BY <1>3 DEF Max
<1> HIDE DEF due
<1>5. /\ days \in Nat /\ Len(w.paid) <= days
      /\ day <= MaxCatchupDays => day <= days
  <2> DEFINE settled == Lesser(due, MaxCatchupDays)
  <2>1. due \in Nat /\ day - Len(w.paid) <= due /\ due <= day
    <3> DEFINE len == Len(w.paid)
    <3>1. len \in Nat /\ due = IF day - len >= 0 THEN day - len ELSE 0
      BY <1>3, <1>4
    <3> HIDE DEF len
    <3>2. due \in Nat /\ day - len <= due /\ due <= day
      BY <3>1
    <3> QED
      BY <3>2 DEF len
  <2>2. settled \in Nat /\ (due <= MaxCatchupDays => settled = due)
    BY <2>1, CatchupAssumption DEF Lesser
  <2>3. day <= MaxCatchupDays => settled = due
    BY <2>1, <2>2, CatchupAssumption
  <2> HIDE DEF settled
  <2>4. days = Len(w.paid) + settled
    BY DEF settled
  <2> QED
    BY <1>3, <2>1, <2>2, <2>3, <2>4
<1> HIDE DEF days
<1>6. w.paid \in Seq(growths)
  BY <1>2, Zenon DEF DaysAgree
<1>7. w.rebirths \in growths
  BY <1>3
<1> HIDE DEF growths
<1>8. \A d \in 1 .. Len(w.paid) : w.paid[d] \in growths
  BY <1>6
<1>9. more \in Seq(growths) /\ Len(more) = days
  <2>1. \A d \in 1 .. days : d <= Len(w.paid) => d \in 1 .. Len(w.paid)
    BY <1>3, <1>5
  <2>2. more \in [1 .. days -> growths]
    BY <1>7, <1>8, <2>1
  <2> HIDE DEF more
  <2> QED
    BY <1>5, <2>2
<1>10. \A d \in 1 .. Len(w.paid) : more[d] = w.paid[d]
  BY <1>3, <1>5
<1> HIDE DEF more, new
<1>11. more \in Seq(0 .. w.rebirths)
  BY <1>9, Zenon DEF growths
<1>12. Len(w.paid) <= Len(more)
  BY <1>5, <1>9
<1>13. DaysAgree(w.events, more, w.rebirths)
  BY <1>2, <1>10, <1>11, <1>12, DaysAdded
<1>14. Columned(new, w.xp, w.activity, w.wallet, w.rebirths, more, w.events, w.ledger)
  BY <1>1 DEF IsAccount, Columned
<1>15. Kept(new)
  BY <1>2, <1>3, <1>13, <1>14, ColumnsKept
<1>16. new.ledger = w.ledger /\ new.events = w.events /\ new.paid = more
  BY <1>14 DEF Columned
<1> QED
  BY <1>5, <1>9, <1>12, <1>15, <1>16 DEF Adds, new

\* A registration begins a history, at no growth.
LEMMA CreationHistory ==
    ASSUME NEW w, NEW day \in Nat,
           Columned(w, 0, 0, 0, 0, [d \in 1 .. day |-> 0], <<>>, {})
    PROVE  Kept(w)
<1> DEFINE paid == [d \in 1 .. day |-> 0]
<1>1. IsEvents(<<>>)
  BY DEF IsEvents
<1>2. RebirthsOf(<<>>) = {}
  BY DEF RebirthsOf
<1>3. ASSUME NEW kind, NEW n PROVE TotalOf(<<>>, kind, n) = 0
  <2>1. OfKind(<<>>, kind, n) = {}
    BY DEF OfKind
  <2> QED
    BY <2>1, SumEmpty DEF TotalOf
<1>4. EventsAgree(<<>>, 0, 0, 0)
  BY <1>1, <1>2, <1>3, FS_EmptySet DEF EventsAgree, UniqueEvents
<1>5. LedgerTotal({}) = 0
  BY SumEmpty DEF LedgerTotal, SumFunction
<1>6. MoneyAgrees({}, 0)
  BY <1>5, FS_EmptySet DEF MoneyAgrees
<1>7. Due(0, 0) = 0
  <2>1. MaxLevel \in 1 .. MaxLevel /\ LevelOf(0) = 1
    BY Levels DEF MaxLevel
  <2> QED
    BY <2>1, CumulativeRewards DEF Due
<1>8. RewardRows({}) = {}
  BY DEF RewardRows
<1>9. DaysAgree(<<>>, paid, 0)
  <2> DEFINE growths == 0 .. 0
  <2>1. paid \in [1 .. day -> growths]
    OBVIOUS
  <2> HIDE DEF paid, growths
  <2>2. paid \in Seq(growths)
    BY <2>1
  <2> QED
    BY <1>2, <2>2, Zenon DEF DaysAgree, growths
<1>10. 0 \in 0 .. XpCap
  BY Thresholds DEF XpCap, MaxLevel
<1> HIDE DEF paid
<1>11. Columned(w, 0, 0, 0, 0, paid, <<>>, {})
  BY DEF paid
<1>12. LedgerTotal(RewardRows({})) = Due(0, 0)
  BY <1>5, <1>7, <1>8
<1> QED
  BY <1>4, <1>6, <1>9, <1>10, <1>11, <1>12, ColumnsKept

\* Status, cooldown, loadouts and terms are no history.
LEMMA OtherColumns ==
    ASSUME NEW w, Kept(w), NEW new,
           Columned(new, w.xp, w.activity, w.wallet, w.rebirths, w.paid, w.events, w.ledger),
           NEW k
    PROVE  Adds(w, new, k) /\ new.ledger = w.ledger /\ new.events = w.events
<1>1. Kept(new)
  BY ColumnsKept DEF Kept
<1>2. /\ new.ledger = w.ledger /\ new.events = w.events /\ new.paid = w.paid
      /\ Len(w.paid) \in Nat
  BY KeptNumbers DEF Columned
<1> QED
  BY <1>1, <1>2 DEF Adds
---------------------------------------------------------------------------
(* The histories of the committed rows, and of the copies sessions work on. *)

\* What a transaction knows of the days and the operation it holds, and the history of
\* the copy it works on.
HistTx(t, rows, entries, day) ==
    /\ t.phase # "IDLE" => t.asked \in Nat /\ t.asked <= day
    /\ t.phase \in Holding => entries[t.key] = NoEntry \/ t.request.kind = "OWNED"
    /\ t.phase = "REFRESHING" => t.seen \in Nat /\ t.asked <= t.seen /\ t.seen <= day
    /\ t.phase = "REFRESHED" => (Prompt => t.asked <= Len(rows[t.request.person].paid))
    /\ t.phase = "LOCKED" => Adds(rows[t.request.person], t.work, t.key)

\* An operation that has never been committed has no entry and no row of the ledger, and
\* one that is not finished owns its legs.
EntryKnown(k, rows, entries) ==
    /\ entries[k] = NoEntry =>
           \A p \in Persons :
               LedgerOf(rows[p], k) = {} /\ \A x \in Entries(rows[p].events) : x.op # k
    /\ \/ entries[k] = NoEntry \/ entries[k].state = "COMMITTED"
       \/ entries[k].state = "PENDING" /\ entries[k].of.kind = "OWNED"

Histories ==
    /\ today \in Nat /\ today <= MaxDay
    /\ \A p \in Persons : Kept(db[p])
    /\ \A k \in Keys : EntryKnown(k, db, operation)
    /\ \A s \in Sessions : HistTx(tx[s], db, operation, today)

HistInv == IInv /\ Histories

\* An account adds nothing to itself.
LEMMA AddsNothing ==
    ASSUME NEW w, Kept(w), NEW k PROVE Adds(w, w, k)
<1>1. Len(w.paid) \in Nat
  BY KeptNumbers
<1> QED
  BY <1>1 DEF Adds

\* What is added to what has been added is added.
LEMMA AddsMore ==
    ASSUME NEW w, Kept(w), NEW old, NEW new, NEW k, Adds(w, old, k), Adds(old, new, k)
    PROVE  Adds(w, new, k)
<1>1. /\ Len(w.paid) \in Nat /\ Len(old.paid) \in Nat /\ Len(new.paid) \in Nat
  BY KeptNumbers DEF Adds
<1> QED
  BY <1>1 DEF Adds

\* A transaction's knowledge stands while the day goes on, its operation row is what it
\* was, and the row of its person has lost no day and, once it is locked, not changed.
LEMMA HistStands ==
    ASSUME NEW t, NEW rows, NEW entries, NEW day \in Int, HistTx(t, rows, entries, day),
           NEW new, NEW after, NEW later \in Int, day <= later,
           t.phase \in Holding => after[t.key] = entries[t.key],
           t.phase = "REFRESHED" =>
               /\ Len(rows[t.request.person].paid) \in Nat
               /\ Len(new[t.request.person].paid) \in Nat
               /\ Len(rows[t.request.person].paid) <= Len(new[t.request.person].paid),
           t.phase = "LOCKED" =>
               /\ new[t.request.person].ledger = rows[t.request.person].ledger
               /\ new[t.request.person].events = rows[t.request.person].events
               /\ new[t.request.person].paid = rows[t.request.person].paid
    PROVE  HistTx(t, new, after, later)
<1>1. t.phase # "IDLE" => t.asked \in Nat /\ t.asked <= later
  BY DEF HistTx
<1>2. t.phase \in Holding => after[t.key] = NoEntry \/ t.request.kind = "OWNED"
  BY DEF HistTx
<1>3. t.phase = "REFRESHING" => t.seen \in Nat /\ t.asked <= t.seen /\ t.seen <= later
  BY DEF HistTx
<1>4. t.phase = "REFRESHED" => (Prompt => t.asked <= Len(new[t.request.person].paid))
  <2> SUFFICES ASSUME t.phase = "REFRESHED", Prompt
               PROVE  t.asked <= Len(new[t.request.person].paid)
    OBVIOUS
  <2> DEFINE a == Len(rows[t.request.person].paid)
             b == Len(new[t.request.person].paid)
  <2>1. t.asked \in Nat /\ t.asked <= a
    BY DEF HistTx
  <2>2. a \in Nat /\ b \in Nat /\ a <= b
    OBVIOUS
  <2> HIDE DEF a, b
  <2>3. t.asked <= b
    BY <2>1, <2>2
  <2> QED
    BY <2>3 DEF b
<1>5. t.phase = "LOCKED" => Adds(new[t.request.person], t.work, t.key)
  BY Zenon DEF HistTx, Adds
<1> QED
  BY <1>1, <1>2, <1>3, <1>4, <1>5 DEF HistTx

\* A session that moves on to a transaction of a right history leaves the others'.
LEMMA HistMoves ==
    ASSUME HistInv, NEW s \in Sessions, NEW new, tx' = [tx EXCEPT ![s] = new],
           HistTx(new, db, operation, today), UNCHANGED <<db, operation, today>>
    PROVE  Histories'
<1>1. tx' = [t \in Sessions |-> IF t = s THEN new ELSE tx[t]]
  BY DEF HistInv, IInv
<1>2. \A t \in Sessions : HistTx(tx'[t], db, operation, today)
  BY <1>1 DEF HistInv, Histories
<1> QED
  BY <1>2 DEF HistInv, Histories

\* An idle transaction has no history.
LEMMA IdleHist ==
    ASSUME NEW rows, NEW entries, NEW day PROVE HistTx(Idle, rows, entries, day)
BY DEF HistTx, Idle, Holding

\* Whoever leaves takes nothing along.
LEMMA HistLeaves ==
    ASSUME HistInv, NEW s \in Sessions, Leave(s), UNCHANGED <<db, operation, today>>
    PROVE  Histories'
<1>1. tx' = [tx EXCEPT ![s] = Idle]
  BY DEF Leave
<1> QED
  BY <1>1, IdleHist, HistMoves

\* A session that comes to a statement at which nothing new is known.
LEMMA HistComes ==
    ASSUME HistInv, NEW s \in Sessions, NEW new, tx' = [tx EXCEPT ![s] = new],
           tx[s].phase # "IDLE",
           new.request = tx[s].request, new.key = tx[s].key, new.asked = tx[s].asked,
           new.phase \notin {"REFRESHING", "REFRESHED", "LOCKED"},
           new.phase \in Holding => \/ tx[s].phase \in Holding
                                    \/ operation[tx[s].key] = NoEntry
                                    \/ tx[s].request.kind = "OWNED",
           UNCHANGED <<db, operation, today>>
    PROVE  Histories'
<1>1. HistTx(tx[s], db, operation, today)
  BY DEF HistInv, Histories
<1>2. HistTx(new, db, operation, today)
  BY <1>1 DEF HistTx
<1> QED
  BY <1>2, HistMoves

\* One that collects rows of the terms on its way.
LEMMA HistCollects ==
    ASSUME HistInv, NEW s \in Sessions, NEW phase, NEW rows, Holds(s, phase, rows),
           tx[s].phase # "IDLE", phase \notin Holding, UNCHANGED <<db, operation, today>>
    PROVE  Histories'
<1>1. PICK new : /\ tx' = [tx EXCEPT ![s] = new]
                 /\ new = [phase |-> phase, request |-> tx[s].request, key |-> tx[s].key,
                           seen |-> tx[s].seen, work |-> tx[s].work, legs |-> tx[s].legs,
                           asked |-> tx[s].asked, held |-> rows]
  BY Collects DEF HistInv
<1>2. /\ new.phase = phase /\ new.request = tx[s].request /\ new.key = tx[s].key
      /\ new.asked = tx[s].asked
  BY <1>1
<1> QED
  BY <1>1, <1>2, HistComes DEF Holding

\* One that goes on with what it has.
LEMMA HistGoes ==
    ASSUME HistInv, NEW s \in Sessions, NEW phase, Goes(s, phase), tx[s].phase # "IDLE",
           phase \notin {"REFRESHING", "REFRESHED", "LOCKED"},
           phase \in Holding => \/ tx[s].phase \in Holding
                                \/ operation[tx[s].key] = NoEntry
                                \/ tx[s].request.kind = "OWNED",
           UNCHANGED <<db, operation, today>>
    PROVE  Histories'
<1>1. PICK new : /\ tx' = [tx EXCEPT ![s] = new]
                 /\ new = [phase |-> phase, request |-> tx[s].request, key |-> tx[s].key,
                           seen |-> tx[s].seen, work |-> tx[s].work, legs |-> tx[s].legs,
                           asked |-> tx[s].asked, held |-> tx[s].held]
  BY Steps DEF HistInv
<1>2. /\ new.phase = phase /\ new.request = tx[s].request /\ new.key = tx[s].key
      /\ new.asked = tx[s].asked
  BY <1>1
<1> QED
  BY <1>1, <1>2, HistComes

\* A session works on, or begins to work on, a copy with a right history.
LEMMA HistWorks ==
    ASSUME HistInv, NEW s \in Sessions, NEW w, NEW legs, Works(s, w, legs),
           tx[s].phase \in Holding, Adds(db[Person(s)], w, tx[s].key),
           UNCHANGED <<db, operation, today>>
    PROVE  Histories'
<1>1. /\ TxOK(tx[s], db, operation, terms.current) /\ tx = [t \in Sessions |-> tx[t]]
      /\ HistTx(tx[s], db, operation, today)
  BY DEF HistInv, IInv, Histories
<1> DEFINE new == [tx[s] EXCEPT !.phase = "LOCKED", !.work = w, !.legs = legs]
<1>2. tx' = [tx EXCEPT ![s] = new]
  BY <1>1 DEF Works
<1> HIDE DEF new
<1>3. new = [phase |-> "LOCKED", request |-> tx[s].request, key |-> tx[s].key,
             seen |-> tx[s].seen, work |-> w, legs |-> legs,
             asked |-> tx[s].asked, held |-> tx[s].held]
  <2>1. new = [tx[s] EXCEPT !.phase = "LOCKED", !.work = w, !.legs = legs]
    BY DEF new
  <2> QED BY <1>1, <2>1 DEF TxOK
<1>4. /\ new.phase = "LOCKED" /\ new.request = tx[s].request /\ new.key = tx[s].key
      /\ new.asked = tx[s].asked /\ new.work = w
  BY <1>3
<1>5. Adds(db[new.request.person], new.work, new.key)
  BY <1>4, Zenon DEF Person
<1>6. tx[s].phase # "IDLE"
  BY DEF Holding
<1>7. HistTx(new, db, operation, today)
  BY <1>1, <1>4, <1>5, <1>6 DEF HistTx
<1> QED
  BY <1>2, <1>7, HistMoves

\* A row whose entries and money are untouched and that loses no day keeps all histories,
\* unless it is locked and its days change.
LEMMA HistRow ==
    ASSUME HistInv, NEW p \in Persons, NEW w, db' = [db EXCEPT ![p] = w],
           Kept(w), w.ledger = db[p].ledger, w.events = db[p].events,
           Len(db[p].paid) <= Len(w.paid),
           Unlocked(p) \/ w.paid = db[p].paid,
           NEW s, UNCHANGED <<operation, today>>,
           \/ tx' = tx
           \/ s \in Sessions /\ \E new : tx' = [tx EXCEPT ![s] = new]
                                         /\ HistTx(new, db', operation, today)
    PROVE  Histories'
<1>1. /\ \A q \in Persons : Kept(db[q]) /\ Len(db[q].paid) \in Nat
      /\ Len(w.paid) \in Nat /\ today \in Nat /\ today <= MaxDay
  BY KeptNumbers DEF HistInv, Histories
<1>2. db' = [q \in Persons |-> IF q = p THEN w ELSE db[q]] /\ tx = [t \in Sessions |-> tx[t]]
  BY DEF HistInv, IInv
<1>3. \A q \in Persons : Kept(db'[q]) /\ db'[q].ledger = db[q].ledger
                         /\ db'[q].events = db[q].events
                         /\ Len(db'[q].paid) \in Nat /\ Len(db[q].paid) <= Len(db'[q].paid)
  BY <1>1, <1>2
<1>4. \A k \in Keys : EntryKnown(k, db', operation)
  BY <1>3 DEF HistInv, Histories, EntryKnown, LedgerOf
<1>5. ASSUME NEW t \in Sessions PROVE HistTx(tx[t], db', operation, today)
  <2>1. HistTx(tx[t], db, operation, today)
    BY DEF HistInv, Histories
  <2>2. tx[t].phase \in Holding => tx[t].request.person \in Persons
    BY OwnRows DEF HistInv, Person
  <2>3. tx[t].phase = "REFRESHED" =>
            /\ Len(db[tx[t].request.person].paid) \in Nat
            /\ Len(db'[tx[t].request.person].paid) \in Nat
            /\ Len(db[tx[t].request.person].paid) <= Len(db'[tx[t].request.person].paid)
    BY <1>1, <1>3, <2>2 DEF Holding
  <2>4. tx[t].phase = "LOCKED" =>
            /\ db'[tx[t].request.person].ledger = db[tx[t].request.person].ledger
            /\ db'[tx[t].request.person].events = db[tx[t].request.person].events
            /\ db'[tx[t].request.person].paid = db[tx[t].request.person].paid
    BY <1>2, <1>3, <2>2 DEF Holding, Unlocked, HasPlayer, Person
  <2>5. today \in Int /\ today <= today
    BY <1>1
  <2> QED
    BY <2>1, <2>3, <2>4, <2>5, HistStands
<1>6. \A t \in Sessions : HistTx(tx'[t], db', operation, today)
  <2>1. CASE tx' = tx
    BY <1>5, <2>1
  <2>2. CASE s \in Sessions /\ \E new : tx' = [tx EXCEPT ![s] = new]
                                        /\ HistTx(new, db', operation, today)
    <3>1. PICK new : tx' = [tx EXCEPT ![s] = new] /\ HistTx(new, db', operation, today)
      BY <2>2
    <3>2. tx' = [t \in Sessions |-> IF t = s THEN new ELSE tx[t]]
      BY <1>2, <3>1
    <3> QED
      BY <1>5, <3>1, <3>2
  <2> QED
    BY <2>1, <2>2
<1> QED
  BY <1>1, <1>3, <1>4, <1>6 DEF Histories

\* The rows a transaction sees add to the committed ones what its operation has added.
LEMMA SeenHistory ==
    ASSUME HistInv, NEW s \in Sessions, tx[s].phase \in Holding
    PROVE  /\ Adds(db[Person(s)], Sees(s), tx[s].key) /\ Kept(db[Person(s)])
           /\ tx[s].key \in Keys
<1>1. Person(s) \in Persons /\ Kept(db[Person(s)])
  BY OwnRows DEF HistInv, Histories
<1>2. HistTx(tx[s], db, operation, today) /\ TxOK(tx[s], db, operation, terms.current)
  BY DEF HistInv, IInv, Histories
<1>3. tx[s].key \in Keys
  BY <1>2, OwnRows DEF TxOK, KeysOf, Holding, HistInv
<1>4. CASE HasPlayer(s)
  BY <1>1, <1>2, <1>3, <1>4, Zenon DEF HistTx, Sees, HasPlayer, Person
<1>5. CASE ~ HasPlayer(s)
  BY <1>1, <1>3, <1>5, AddsNothing DEF Sees
<1> QED
  BY <1>4, <1>5

\* A commit writes the rows of its operation, and the operation's row.
LEMMA CommitHistory ==
    ASSUME HistInv, NEW s \in Sessions, tx[s].phase \in Holding, NEW row,
           \/ row.state = "COMMITTED"
           \/ row.state = "PENDING" /\ row.of.kind = "OWNED",
           db' = [db EXCEPT ![Person(s)] = Sees(s)],
           operation' = [operation EXCEPT ![tx[s].key] = row],
           Leave(s), today' = today
    PROVE  Histories'
<1> DEFINE p == Person(s)
           k == tx[s].key
           w == Sees(s)
<1>1. p \in Persons /\ k \in Keys /\ Adds(db[p], w, k) /\ Kept(db[p])
  BY OwnRows, SeenHistory DEF HistInv
<1>2. /\ tx' = [t \in Sessions |-> IF t = s THEN Idle ELSE tx[t]]
      /\ db' = [q \in Persons |-> IF q = p THEN w ELSE db[q]]
      /\ operation' = [j \in Keys |-> IF j = k THEN row ELSE operation[j]]
  BY DEF HistInv, IInv, Leave
<1>3. HasPlayer(s) \/ w = db[p]
  BY DEF Sees
<1>4. HasRow(s)
  BY DEF HasRow
<1>5. /\ \A t \in Sessions \ {s} : HasRow(t) => tx[t].key # k
      /\ \A t \in Sessions \ {s} : HasPlayer(s) /\ HasPlayer(t) => tx[t].request.person # p
  BY <1>4 DEF HistInv, IInv, Exclusive, Person
<1> HIDE DEF p, k, w
<1>6. row # NoEntry
  BY DEF NoEntry
<1>7. /\ Kept(w) /\ Len(db[p].paid) <= Len(w.paid)
      /\ \A r \in w.ledger : r \in db[p].ledger \/ r.op = k
      /\ \A x \in Entries(w.events) : x \in Entries(db[p].events) \/ x.op = k
  BY <1>1 DEF Adds
<1>8. /\ \A q \in Persons : Kept(db[q]) /\ Len(db[q].paid) \in Nat
      /\ Len(w.paid) \in Nat /\ today \in Nat /\ today <= MaxDay
  BY <1>7, KeptNumbers DEF HistInv, Histories
<1>9. \A q \in Persons : Kept(db'[q])
                         /\ Len(db'[q].paid) \in Nat /\ Len(db[q].paid) <= Len(db'[q].paid)
  BY <1>2, <1>7, <1>8
<1>10. ASSUME NEW j \in Keys PROVE EntryKnown(j, db', operation')
  <2>1. CASE j = k
    BY <1>2, <1>6, <2>1 DEF EntryKnown
  <2>2. CASE j # k
    <3>1. operation'[j] = operation[j] /\ EntryKnown(j, db, operation)
      BY <1>2, <2>2 DEF HistInv, Histories
    <3>2. ASSUME operation[j] = NoEntry, NEW q \in Persons
          PROVE  LedgerOf(db'[q], j) = {} /\ \A x \in Entries(db'[q].events) : x.op # j
      <4>1. LedgerOf(db[q], j) = {} /\ \A x \in Entries(db[q].events) : x.op # j
        BY <3>1, <3>2 DEF EntryKnown
      <4>2. /\ \A r \in db'[q].ledger : r \in db[q].ledger \/ r.op = k
            /\ \A x \in Entries(db'[q].events) : x \in Entries(db[q].events) \/ x.op = k
        BY <1>2, <1>7
      <4>3. LedgerOf(db'[q], j) = {}
        BY <2>2, <4>1, <4>2 DEF LedgerOf
      <4> QED
        BY <2>2, <4>1, <4>2, <4>3
    <3> QED
      BY <3>1, <3>2 DEF EntryKnown
  <2> QED
    BY <2>1, <2>2
<1>11. ASSUME NEW t \in Sessions PROVE HistTx(tx'[t], db', operation', today)
  <2>1. CASE t = s
    BY <1>2, <2>1, IdleHist
  <2>2. CASE t # s
    <3>1. tx'[t] = tx[t] /\ HistTx(tx[t], db, operation, today)
      BY <1>2, <2>2 DEF HistInv, Histories
    <3>2. tx[t].phase \in Holding => tx[t].request.person \in Persons /\ tx[t].key \in Keys
      BY OwnRows, SeenHistory DEF HistInv, Person
    <3>3. tx[t].phase \in Holding => operation'[tx[t].key] = operation[tx[t].key]
      BY <1>2, <1>5, <2>2, <3>2 DEF HasRow
    <3>4. tx[t].phase = "REFRESHED" =>
              /\ Len(db[tx[t].request.person].paid) \in Nat
              /\ Len(db'[tx[t].request.person].paid) \in Nat
              /\ Len(db[tx[t].request.person].paid) <= Len(db'[tx[t].request.person].paid)
      BY <1>8, <1>9, <3>2 DEF Holding
    <3>5. tx[t].phase = "LOCKED" =>
              /\ db'[tx[t].request.person].ledger = db[tx[t].request.person].ledger
              /\ db'[tx[t].request.person].events = db[tx[t].request.person].events
              /\ db'[tx[t].request.person].paid = db[tx[t].request.person].paid
      BY <1>2, <1>3, <1>5, <2>2, <3>2 DEF Holding, HasPlayer
    <3>6. today \in Int /\ today <= today
      BY <1>8
    <3>7. ASSUME NEW rows, NEW entries, rows = db', entries = operation'
          PROVE  HistTx(tx[t], rows, entries, today)
      <4>1. tx[t].phase \in Holding => entries[tx[t].key] = operation[tx[t].key]
        BY <3>3, <3>7
      <4>2. tx[t].phase = "REFRESHED" =>
                /\ Len(db[tx[t].request.person].paid) \in Nat
                /\ Len(rows[tx[t].request.person].paid) \in Nat
                /\ Len(db[tx[t].request.person].paid) <= Len(rows[tx[t].request.person].paid)
        BY <3>4, <3>7, Zenon
      <4>3. tx[t].phase = "LOCKED" =>
                /\ rows[tx[t].request.person].ledger = db[tx[t].request.person].ledger
                /\ rows[tx[t].request.person].events = db[tx[t].request.person].events
                /\ rows[tx[t].request.person].paid = db[tx[t].request.person].paid
        BY <3>5, <3>7, Zenon
      <4> QED
        BY <3>1, <3>6, <4>1, <4>2, <4>3, HistStands
    <3> QED
      BY <3>1, <3>7
  <2> QED
    BY <2>1, <2>2
<1> QED
  BY <1>8, <1>9, <1>10, <1>11 DEF Histories

---------------------------------------------------------------------------
(* Every step keeps the histories.                                         *)

\* A request is asked for today, and knows nothing else.
LEMMA BeginHist ==
    ASSUME HistInv, NEW s \in Sessions, Begin(s) PROVE Histories'
<1>1. PICK r \in Requests : \E k \in KeysOf(r), legs \in PlansOf(r) :
          tx' = [tx EXCEPT ![s] = Asking(r, k, legs)]
  BY DEF Begin
<1>2. PICK k \in KeysOf(r), legs \in PlansOf(r) : tx' = [tx EXCEPT ![s] = Asking(r, k, legs)]
  BY <1>1
<1>3. today \in Nat
  BY DEF HistInv, Histories
<1>4. HistTx(Asking(r, k, legs), db, operation, today)
  BY <1>3 DEF HistTx, Asking, Holding
<1> QED
  BY <1>2, <1>4, HistMoves DEF Begin

\* The statements before the operation row is taken, and its taking: a row that is
\* found PENDING is of an operation that owns its legs, so the request is one.
LEMMA AskHist ==
    ASSUME HistInv, NEW s \in Sessions,
           \/ Connect(s) \/ ReadTerms(s) \/ Agree(s) \/ Check(s) \/ Open(s)
           \/ FindVersion(s) \/ MissVersion(s) \/ InsertVersion(s) \/ Replace(s)
    PROVE  Histories'
<1>1. TxOK(tx[s], db, operation, terms.current) /\ tx = [t \in Sessions |-> tx[t]]
      /\ HistTx(tx[s], db, operation, today)
  BY DEF HistInv, IInv, Histories
<1>2. CASE Connect(s) \/ MissVersion(s)
  BY <1>2, HistGoes DEF Connect, MissVersion, Holding
<1>3. CASE Agree(s) \/ Check(s)
  BY <1>3, HistCollects DEF Agree, Check, Holding
<1>4. CASE FindVersion(s) \/ InsertVersion(s)
  BY <1>4, HistCollects DEF FindVersion, InsertVersion, Named, Holding
<1>5. CASE ReadTerms(s) \/ Replace(s)
  <2>1. PICK phase, seen : /\ phase \in {"READING", "REPLACING"}
                           /\ tx' = [tx EXCEPT ![s].phase = phase, ![s].seen = seen]
    BY <1>5 DEF ReadTerms, Replace
  <2> DEFINE new == [tx[s] EXCEPT !.phase = phase, !.seen = seen]
  <2>2. tx' = [tx EXCEPT ![s] = new]
    BY <1>1, <2>1
  <2>3. /\ new.phase = phase /\ new.request = tx[s].request /\ new.key = tx[s].key
        /\ new.asked = tx[s].asked
    BY <1>1 DEF TxOK
  <2>4. tx[s].phase # "IDLE" /\ UNCHANGED <<db, operation, today>>
    BY <1>5 DEF ReadTerms, Replace
  <2> HIDE DEF new
  <2> QED
    BY <2>1, <2>2, <2>3, <2>4, HistComes DEF Holding
<1>6. CASE Open(s)
  <2>1. tx[s].phase \in {"ASKING", "AGREED"} /\ tx[s].request.kind # "TERMS"
        /\ tx[s].phase # "IDLE"
    BY <1>1, <1>6 DEF Open, TxOK, Asks
  <2>2. tx[s].key \in Keys
    BY <1>1, <2>1 DEF TxOK, KeysOf
  <2>3. EntryKnown(tx[s].key, db, operation)
    BY <2>2 DEF HistInv, Histories
  <2>4. operation[tx[s].key] = NoEntry \/ tx[s].request.kind = "OWNED"
    BY <1>6, <2>3 DEF EntryKnown, Open, Entry, IsOfRequest
  <2>5. Goes(s, "OPEN") /\ UNCHANGED <<db, operation, today>>
    BY <1>6 DEF Open
  <2> QED
    BY <2>1, <2>4, <2>5, HistGoes
<1> QED
  BY <1>2, <1>3, <1>4, <1>5, <1>6

\* A registration works on the rows that are there, or on new ones with no history.
LEMMA RegisterHist ==
    ASSUME HistInv, NEW s \in Sessions, Return(s) \/ MissPlayer(s) \/ Enrol(s)
    PROVE  Histories'
<1>1. TxOK(tx[s], db, operation, terms.current)
  BY DEF HistInv, IInv
<1>2. tx[s].phase \in {"OPEN", "UNKNOWN"} /\ tx[s].phase \in Holding /\ tx[s].phase # "IDLE"
  BY DEF Return, MissPlayer, Enrol, Registering, Holding
<1>3. IsAccount(db[Person(s)]) /\ Kept(db[Person(s)]) /\ tx[s].key \in Keys
  BY <1>2, OwnRows, SeenHistory DEF HistInv
<1>4. CASE Return(s)
  <2> DEFINE old == db[Person(s)]
             new == [old EXCEPT !.accepted = @ \cup {tx[s].request.version}]
  <2>1. Columned(new, old.xp, old.activity, old.wallet, old.rebirths, old.paid, old.events,
                 old.ledger)
    BY <1>3 DEF IsAccount, Columned
  <2>2. Works(s, new, <<>>) /\ UNCHANGED <<db, operation, today>>
    BY <1>4 DEF Return
  <2> HIDE DEF new
  <2>3. Adds(old, new, tx[s].key)
    BY <1>3, <2>1, OtherColumns
  <2> QED
    BY <1>2, <2>2, <2>3, HistWorks
<1>5. CASE MissPlayer(s)
  BY <1>2, <1>5, HistGoes DEF MissPlayer
<1>6. CASE Enrol(s)
  <2> DEFINE old == db[Person(s)]
             made == Created(tx[s].key, tx[s].request.version, today)
             new == [made EXCEPT !.loadouts = @ \cup old.loadouts]
  <2>1. old = Absent
    BY <1>3, <1>6 DEF Enrol, Unclaimed, IsAccount
  <2>2. Columned(new, 0, 0, 0, 0, [d \in 1 .. today |-> 0], <<>>, {})
    BY DEF Created, Absent, Columned
  <2>3. Works(s, new, <<>>) /\ UNCHANGED <<db, operation, today>> /\ today \in Nat
    BY <1>6 DEF Enrol, HistInv, Histories
  <2> HIDE DEF new
  <2>4. Kept(new)
    BY <2>2, <2>3, CreationHistory
  <2>5. new.ledger = {} /\ new.events = <<>> /\ Len(new.paid) \in Nat
    BY <2>2, <2>4, KeptNumbers DEF Columned
  <2>8. Entries(new.events) = {}
    BY <2>5 DEF Entries
  <2>6. Len(old.paid) = 0
    BY <2>1 DEF Absent
  <2>7. Adds(old, new, tx[s].key)
    BY <2>4, <2>5, <2>6, <2>8 DEF Adds
  <2> QED
    BY <1>2, <2>3, <2>7, HistWorks
<1> QED
  BY <1>4, <1>5, <1>6

\* An operation without a row has written nothing.
LEMMA NothingYet ==
    ASSUME Histories, NEW k \in Keys, operation[k] = NoEntry, NEW p \in Persons, NEW key
    PROVE  LedgerOf(db[p], k) = {} /\ EventsOf(db[p], k, key) = {}
<1>1. EntryKnown(k, db, operation)
  BY DEF Histories
<1>2. LedgerOf(db[p], k) = {} /\ \A x \in Entries(db[p].events) : x.op # k
  BY <1>1 DEF EntryKnown
<1> QED
  BY <1>2 DEF Entries, EventsOf

\* A grant has the first and only entry and row of the ledger that its operation may have.
LEMMA GrantHist ==
    ASSUME HistInv, NEW s \in Sessions, Grant(s) PROVE Histories'
<1>1. tx[s].phase = "OPEN" /\ tx[s].request.kind = "GRANT" /\ tx[s].phase \in Holding
  BY DEF Grant, Asks, Holding
<1>2. /\ IsAccount(db[Person(s)]) /\ Kept(db[Person(s)]) /\ Person(s) \in Persons
      /\ tx[s].key \in Keys /\ tx[s].request \in Requests
  BY <1>1, OwnRows, SeenHistory DEF HistInv
<1>3. tx[s].request.amount \in Nat
  BY <1>1, <1>2, RequestsAssumption
<1>4. operation[tx[s].key] = NoEntry
  <2>1. HistTx(tx[s], db, operation, today)
    BY DEF HistInv, Histories
  <2> QED
    BY <1>1, <2>1 DEF HistTx
<1>5. /\ LedgerOf(db[Person(s)], tx[s].key) = {}
      /\ EventsOf(db[Person(s)], tx[s].key, "primary") = {}
  BY <1>2, <1>4, NothingYet DEF HistInv
<1>6. Adds(db[Person(s)],
           XpGranted(db[Person(s)], tx[s].key, "primary", tx[s].request.amount), tx[s].key)
  BY <1>2, <1>3, <1>5, GrantHistory
<1> QED
  BY <1>1, <1>6, HistWorks DEF Grant

\* A Rebirth settles the days that are due before it takes the experience.
LEMMA RebirthHist ==
    ASSUME HistInv, NEW s \in Sessions,
           Eligible(s) \/ BeginRefresh(s) \/ Refresh(s) \/ Rebirth(s)
    PROVE  Histories'
<1>1. TxOK(tx[s], db, operation, terms.current) /\ tx = [t \in Sessions |-> tx[t]]
      /\ HistTx(tx[s], db, operation, today) /\ today \in Nat /\ today <= MaxDay
  BY DEF HistInv, IInv, Histories
<1>2. tx[s].phase \in Holding /\ tx[s].phase # "IDLE"
  BY DEF Eligible, BeginRefresh, Refresh, Rebirth, Holding
<1>3. /\ Person(s) \in Persons /\ IsAccount(db[Person(s)]) /\ Kept(db[Person(s)])
      /\ tx[s].asked \in Nat /\ tx[s].asked <= today
  BY <1>1, <1>2, OwnRows, SeenHistory DEF HistInv, HistTx
<1>4. CASE Eligible(s)
  BY <1>2, <1>4, HistGoes DEF Eligible
<1>5. CASE BeginRefresh(s)
  <2> DEFINE new == [tx[s] EXCEPT !.phase = "REFRESHING", !.seen = today]
  <2>1. tx' = [tx EXCEPT ![s] = new]
    BY <1>1, <1>5 DEF BeginRefresh
  <2>2. /\ new.phase = "REFRESHING" /\ new.asked = tx[s].asked /\ new.seen = today
        /\ new.request = tx[s].request /\ new.key = tx[s].key
    BY <1>1 DEF TxOK
  <2> HIDE DEF new
  <2>3. HistTx(new, db, operation, today)
    BY <1>1, <1>2, <1>3, <2>2 DEF HistTx
  <2> QED
    BY <1>5, <2>1, <2>3, HistMoves DEF BeginRefresh
<1>6. CASE Refresh(s)
  <2> DEFINE w == Accrued(db[Person(s)], tx[s].seen)
  <2>1. /\ tx[s].phase = "REFRESHING" /\ Unlocked(Person(s))
        /\ db' = [db EXCEPT ![Person(s)] = w] /\ Goes(s, "REFRESHED")
        /\ UNCHANGED <<operation, today>>
    BY <1>6 DEF Refresh
  <2>2. tx[s].seen \in Nat /\ tx[s].asked <= tx[s].seen /\ tx[s].seen <= today
    BY <1>1, <2>1 DEF HistTx
  <2>3. /\ Kept(w) /\ w.ledger = db[Person(s)].ledger /\ w.events = db[Person(s)].events
        /\ Len(db[Person(s)].paid) <= Len(w.paid)
        /\ tx[s].seen <= MaxCatchupDays => tx[s].seen <= Len(w.paid)
    BY <1>3, <2>2, AccrualHistory DEF Adds
  <2> HIDE DEF w
  <2>4. PICK new : /\ tx' = [tx EXCEPT ![s] = new]
                   /\ new = [phase |-> "REFRESHED", request |-> tx[s].request, key |-> tx[s].key,
                             seen |-> tx[s].seen, work |-> tx[s].work, legs |-> tx[s].legs,
                             asked |-> tx[s].asked, held |-> tx[s].held]
    BY <2>1, Steps DEF HistInv
  <2>5. /\ new.phase = "REFRESHED" /\ new.request = tx[s].request /\ new.key = tx[s].key
        /\ new.asked = tx[s].asked
    BY <2>4
  <2>6. db'[new.request.person] = w
    BY <1>3, <2>1, <2>5 DEF Person, HistInv, IInv
  <2>7. Prompt => new.asked <= Len(w.paid)
    <3> DEFINE len == Len(w.paid)
    <3>1. len \in Nat
      BY <2>3, KeptNumbers
    <3>2. tx[s].seen <= MaxCatchupDays => tx[s].seen <= len
      BY <2>3
    <3> HIDE DEF len
    <3>3. Prompt => new.asked <= len
      BY <1>1, <1>3, <2>2, <2>5, <3>1, <3>2, CatchupAssumption, DaysAssumption DEF Prompt
    <3> QED
      BY <3>3 DEF len
  <2>8. HistTx(new, db', operation, today)
    BY <1>1, <1>2, <1>3, <2>5, <2>6, <2>7 DEF HistTx
  <2> QED
    BY <1>3, <2>1, <2>3, <2>4, <2>8, HistRow
<1>7. CASE Rebirth(s)
  <2>1. tx[s].phase = "REFRESHED" /\ AtCap(db[Person(s)])
        /\ Works(s, Reborn(db[Person(s)], tx[s].key, tx[s].asked), <<>>)
        /\ UNCHANGED <<db, operation, today>>
    BY <1>7 DEF Rebirth, MayBeReborn
  <2>2. Prompt => tx[s].asked <= Len(db[Person(s)].paid)
    BY <1>1, <2>1 DEF HistTx, Person
  <2>3. tx[s].asked \in Int
    BY <1>3
  <2>4. EventsOf(db[Person(s)], tx[s].key, "primary") = {}
    <3>1. operation[tx[s].key] = NoEntry
      BY <1>1, <1>2, <2>1 DEF HistTx, TxOK
    <3> QED
      BY <1>2, <1>3, <3>1, NothingYet, SeenHistory DEF HistInv
  <2>5. Adds(db[Person(s)], Reborn(db[Person(s)], tx[s].key, tx[s].asked), tx[s].key)
    BY <1>3, <2>1, <2>2, <2>3, <2>4, RebirthHistory
  <2> QED
    BY <1>2, <2>1, <2>5, HistWorks
<1> QED
  BY <1>4, <1>5, <1>6, <1>7

\* A leg that has not run adds its entry, one that has is passed over.
LEMMA LegHist ==
    ASSUME HistInv, NEW s \in Sessions, Prepare(s) \/ RunAgain(s) \/ Run(s)
    PROVE  Histories'
<1>1. /\ TxOK(tx[s], db, operation, terms.current) /\ tx = [t \in Sessions |-> tx[t]]
      /\ HistTx(tx[s], db, operation, today)
  BY DEF HistInv, IInv, Histories
<1>2. /\ tx[s].phase \in {"OPEN", "LOCKED"} /\ tx[s].phase \in Holding /\ tx[s].phase # "IDLE"
      /\ tx[s].request.kind = "OWNED" /\ tx[s].legs # <<>>
  BY DEF Prepare, RunAgain, Run, More, Legs, Asks, Holding
<1>3. tx[s].legs \in Seq(PlanLegs)
  BY <1>1, <1>2 DEF TxOK
<1>4. /\ Person(s) \in Persons /\ IsAccount(db[Person(s)]) /\ Kept(db[Person(s)])
      /\ tx[s].key \in Keys
      /\ Adds(db[Person(s)], Sees(s), tx[s].key)
  BY <1>2, OwnRows, SeenHistory DEF HistInv
<1>5. Leg(s) \in PlanLegs
  <2> HIDE DEF PlanLegs
  <2> QED
    BY <1>2, <1>3 DEF Leg
<1>6. CASE Prepare(s)
  <2>1. Works(s, db[Person(s)], tx[s].legs) /\ UNCHANGED <<db, operation, today>>
    BY <1>6 DEF Prepare
  <2>2. Adds(db[Person(s)], db[Person(s)], tx[s].key)
    BY <1>4, AddsNothing
  <2> QED
    BY <1>2, <2>1, <2>2, HistWorks
<1>7. CASE RunAgain(s)
  <2> DEFINE new == [tx[s] EXCEPT !.legs = Tail(tx[s].legs)]
  <2>1. tx' = [tx EXCEPT ![s] = new] /\ UNCHANGED <<db, operation, today>>
    BY <1>1, <1>7 DEF RunAgain
  <2>2. /\ new.phase = tx[s].phase /\ new.asked = tx[s].asked /\ new.seen = tx[s].seen
        /\ new.request = tx[s].request /\ new.key = tx[s].key /\ new.work = tx[s].work
    BY <1>1 DEF TxOK
  <2> HIDE DEF new
  <2>3. HistTx(new, db, operation, today)
    BY <1>1, <2>2 DEF HistTx
  <2> QED
    BY <2>1, <2>3, HistMoves
<1>8. CASE Run(s)
  <2> DEFINE w == Sees(s)
             k == tx[s].key
  <2>1. /\ Traces(w, k, Leg(s)) = {} /\ MayRun(w, k, Leg(s))
        /\ Works(s, Ran(w, k, Leg(s)), Tail(tx[s].legs)) /\ UNCHANGED <<db, operation, today>>
    BY <1>8 DEF Run, TracesOf
  <2>2. Adds(db[Person(s)], w, k)
    BY <1>4
  <2>3. IsAccount(w)
    BY <1>2, <1>4, OwnRows DEF HistInv, Sees, Derived
  <2> HIDE DEF w, k
  <2>4. Kept(w)
    BY <2>2 DEF Adds
  <2>5. Adds(w, Ran(w, k, Leg(s)), k)
    BY <1>5, <2>1, <2>3, <2>4, LegHistory
  <2>6. Adds(db[Person(s)], Ran(w, k, Leg(s)), k)
    BY <1>4, <2>2, <2>5, AddsMore
  <2> QED
    BY <1>2, <2>1, <2>6, HistWorks DEF w, k
<1> QED
  BY <1>6, <1>7, <1>8

\* Who commits leaves the histories it has worked on; who does not leaves them as they are.
LEMMA EndHist ==
    ASSUME HistInv, NEW s \in Sessions,
           Answer(s) \/ Save(s) \/ Commit(s) \/ Refuse(s) \/ RollBack(s) \/ Install(s)
    PROVE  Histories'
<1>1. CASE Answer(s) \/ Refuse(s) \/ RollBack(s) \/ Install(s)
  BY <1>1, HistLeaves DEF Answer, Refuse, RollBack, Install
<1>2. CASE Save(s)
  <2> DEFINE row == [of |-> tx[s].request, state |-> "PENDING", receipt |-> None]
  <2>1. /\ db' = [db EXCEPT ![Person(s)] = Sees(s)]
        /\ operation' = [operation EXCEPT ![tx[s].key] = row]
        /\ Leave(s) /\ today' = today
    BY <1>2 DEF Save
  <2>2. row.state = "PENDING" /\ row.of.kind = "OWNED"
    BY <1>2 DEF Save, Legs, Asks
  <2>3. tx[s].phase \in Holding
    BY <1>2 DEF Save, Legs, Holding
  <2> HIDE DEF row
  <2> QED
    BY <2>1, <2>2, <2>3, CommitHistory
<1>3. CASE Commit(s)
  <2> DEFINE row == [of |-> tx[s].request, state |-> "COMMITTED", receipt |-> ReceiptOf(Sees(s))]
  <2>1. /\ db' = [db EXCEPT ![Person(s)] = Sees(s)]
        /\ operation' = [operation EXCEPT ![tx[s].key] = row]
        /\ Leave(s) /\ today' = today
    BY <1>3 DEF Commit
  <2>2. row.state = "COMMITTED"
    OBVIOUS
  <2>3. tx[s].phase \in Holding
    BY <1>3 DEF Commit, Finished, Legs, HasPlayer, Holding
  <2> HIDE DEF row
  <2> QED
    BY <2>1, <2>2, <2>3, CommitHistory
<1> QED
  BY <1>1, <1>2, <1>3

\* The worker pays days, an operator and the clock write no history.
LEMMA ElseHist ==
    ASSUME HistInv, Else PROVE Histories'
<1>1. /\ today \in Nat /\ today <= MaxDay
      /\ \A p \in Persons : IsAccount(db[p]) /\ Kept(db[p]) /\ Len(db[p].paid) \in Nat
  BY KeptNumbers DEF HistInv, IInv, Histories
<1>2. ASSUME NEW p \in Persons, Sweep(p) PROVE Histories'
  <2> DEFINE w == Accrued(db[p], today)
  <2>1. db' = [db EXCEPT ![p] = w] /\ Unlocked(p) /\ UNCHANGED <<operation, today, tx>>
    BY <1>2 DEF Sweep
  <2>2. /\ Kept(w) /\ w.ledger = db[p].ledger /\ w.events = db[p].events
        /\ Len(db[p].paid) <= Len(w.paid)
    BY <1>1, AccrualHistory DEF Adds
  <2> HIDE DEF w
  <2> QED
    BY <2>1, <2>2, HistRow
<1>3. ASSUME NEW p \in Persons, NEW status, SetStatus(p, status) \/ EndCooldown(p)
      PROVE  Histories'
  <2> DEFINE frozen == [db[p] EXCEPT !.status = status, !.cooling = (status = "DELETED")]
             ended == [db[p] EXCEPT !.cooling = FALSE]
  <2>1. /\ db' = [db EXCEPT ![p] = frozen] \/ db' = [db EXCEPT ![p] = ended]
        /\ UNCHANGED <<operation, today, tx>>
    BY <1>3 DEF SetStatus, EndCooldown, HistInv, IInv
  <2>2. ASSUME NEW w, w \in {frozen, ended}
        PROVE  Columned(w, db[p].xp, db[p].activity, db[p].wallet, db[p].rebirths, db[p].paid,
                        db[p].events, db[p].ledger)
    BY <1>1, <2>2 DEF IsAccount, Columned
  <2> HIDE DEF frozen, ended
  <2>3. PICK w \in {frozen, ended} : db' = [db EXCEPT ![p] = w]
    BY <2>1
  <2>4. Kept(w) /\ w.ledger = db[p].ledger /\ w.events = db[p].events /\ w.paid = db[p].paid
    BY <1>1, <2>2, OtherColumns DEF Adds, Columned
  <2>5. Len(db[p].paid) <= Len(w.paid)
    BY <1>1, <2>4
  <2> QED
    BY <2>1, <2>3, <2>4, <2>5, HistRow
<1>4. CASE NextDay
  <2>1. today' = today + 1 /\ today < MaxDay /\ UNCHANGED <<db, operation, tx>>
    BY <1>4 DEF NextDay
  <2>2. today' \in Nat /\ today' <= MaxDay /\ today \in Int /\ today' \in Int /\ today <= today'
    BY <1>1, <2>1, DaysAssumption
  <2>3. ASSUME NEW t \in Sessions PROVE HistTx(tx[t], db, operation, today')
    <3>1. HistTx(tx[t], db, operation, today)
      BY DEF HistInv, Histories
    <3> QED
      BY <2>2, <3>1 DEF HistTx
  <2>4. \A k \in Keys : EntryKnown(k, db, operation)
    BY DEF HistInv, Histories
  <2> QED
    BY <1>1, <2>1, <2>2, <2>3, <2>4 DEF Histories
<1> QED
  BY <1>2, <1>3, <1>4 DEF Else

\* At the start the rows have their histories, and none of an operation to come.
LEMMA InitHist == Init => HistInv
<1> SUFFICES ASSUME Init PROVE HistInv
  OBVIOUS
<1>1. IInv
  BY InitHolds
<1>2. today \in Nat /\ today <= MaxDay
  BY DaysAssumption DEF Init
<1>3. ASSUME NEW p \in Persons
      PROVE  Kept(db[p]) /\ \A k \in Keys :
                 LedgerOf(db[p], k) = {} /\ \A x \in Entries(db[p].events) : x.op # k
  <2>1. db[p] \in Starts
    BY DEF Init
  <2>2. /\ IsHistory(db[p]) /\ Reconciles(db[p]) /\ RewardsAreDue(db[p]) /\ DaysArePaid(db[p])
        /\ \A row \in db[p].ledger : row.op \notin Keys
        /\ \A n \in DOMAIN db[p].events : db[p].events[n].op \notin Keys
    BY <2>1, StartsAssumption
  <2>3. Kept(db[p])
    BY <2>2, KeptParts
  <2> QED
    BY <2>2, <2>3 DEF LedgerOf, Entries
<1>4. \A k \in Keys : EntryKnown(k, db, operation)
  BY <1>3 DEF Init, EntryKnown
<1>5. \A s \in Sessions : HistTx(tx[s], db, operation, today)
  BY IdleHist DEF Init
<1> QED
  BY <1>1, <1>2, <1>3, <1>4, <1>5 DEF HistInv, Histories

\* The histories of the rows and of the copies are an inductive invariant.
LEMMA NextHist == HistInv /\ [Next]_vars => HistInv'
<1> SUFFICES ASSUME HistInv, [Next]_vars PROVE HistInv'
  OBVIOUS
<1>1. IInv'
  BY NextKeeps DEF HistInv
<1>2. ASSUME NEW s \in Sessions, Begin(s) \/ Prepare(s) \/ Save(s) \/ RollBack(s)
      PROVE  Histories'
  BY <1>2, BeginHist, LegHist, EndHist
<1>3. ASSUME NEW s \in Sessions, Step(s) PROVE Histories'
  BY <1>3, AskHist, RegisterHist, GrantHist, RebirthHist, LegHist, EndHist DEF Step
<1>4. ASSUME UNCHANGED vars PROVE Histories'
  BY <1>4, Zenon DEF vars, HistInv, Histories
<1>5. ASSUME Next PROVE Histories'
  <2>1. CASE Else
    BY <2>1, ElseHist
  <2>2. CASE \E s \in Sessions : Begin(s) \/ Step(s) \/ Prepare(s) \/ Save(s) \/ RollBack(s)
    <3>1. PICK s \in Sessions : Begin(s) \/ Step(s) \/ Prepare(s) \/ Save(s) \/ RollBack(s)
      BY <2>2, Zenon
    <3> QED
      BY <3>1, <1>2, <1>3, Zenon
  <2> QED
    BY <1>5, <2>1, <2>2, Zenon DEF Next
<1> QED
  BY <1>1, <1>4, <1>5, Zenon DEF HistInv

\* Every account is the sum of its history, and its rewards are those of the levels it
\* has climbed.
THEOREM HistoriesHold == Spec => []HistInv
  BY InitHist, NextHist, PTL DEF Spec

\* Account XP, Activity XP, wallet and Rebirths are what the immutable entries and rows
\* add up to, and no operation has two entries under one mutation key, however grants,
\* casts, payments and Rebirths interleave and are retried.
THEOREM AccountsReconcile == Spec => []HistoryReconciles
<1>1. HistInv => HistoryReconciles
  BY KeptParts DEF HistInv, Histories, HistoryReconciles
<1> QED
  BY <1>1, HistoriesHold, PTL

\* No level is paid twice or passed over, in this life or one before a Rebirth.
THEOREM RewardsAreOfLevels == Spec => []RewardsFollowLevels
<1>1. HistInv => RewardsFollowLevels
  BY KeptParts DEF HistInv, Histories, RewardsFollowLevels
<1> QED
  BY <1>1, HistoriesHold, PTL

\* If one accrual settles all the days that can be due, those a Rebirth has come after
\* are paid at the growth before it.
THEOREM DaysBeforeRebirths ==
    ASSUME MaxDay <= MaxCatchupDays PROVE Spec => []DaysPaidBefore
<1>1. HistInv => DaysPaidBefore
  BY KeptParts DEF HistInv, Histories, DaysPaidBefore, Prompt
<1> QED
  BY <1>1, HistoriesHold, PTL

---------------------------------------------------------------------------
(* Waits for rows.  A registration takes the row of the terms before its   *)
(* operation row, and everybody the operation row before the player row;   *)
(* an installation takes up to three rows of the terms, in an order that   *)
(* depends on what it was given first.  A wait for a connection ends by    *)
(* itself and is left out.                                                 *)

\* An installation to which the current row is not given: it has come after another,
\* or there was none.
Late(s) == tx[s].phase \in Installing /\ terms.current \notin tx[s].held

\* The row of its next statement is free for a session.
RowsFree(s) ==
    /\ tx[s].phase \in {"ASKING", "AGREED"} /\ ~ Asks(s, {"TERMS"}) => RowFree(s)
    /\ \A v \in NextTerms(s) : TermsFree(s, v)
    /\ tx[s].phase \in Holding => PlayerFree(s)

\* Whoever waits for nobody finds its next row free; sessions that all wait for each
\* other have a late installation among them; and only installations are in a circle,
\* for PostgreSQL to end (ensure_tos_document).
DeadlocksAreLate ==
    /\ \A s \in Sessions : Waiting(s) \/ RowsFree(s)
    /\ \A group \in SUBSET Sessions :
           group # {} /\ (\A s \in group : \E t \in group : WaitsFor(s, t)) =>
               \E s \in group : Late(s)
    /\ \A s \in Sessions : Deadlocked(s) => Asks(s, {"TERMS"})

\* Only registrations have a row of the terms together.
TermsHeld ==
    \A s, t \in Sessions :
        s # t /\ tx[s].held \cap tx[t].held # {} => Sharing(s) /\ Sharing(t)

\* How far a session has come: what it has locked, or that nothing is in its way.
Rank(s) ==
    IF ~ Waiting(s) THEN 4
    ELSE IF HasRow(s) THEN 3
    ELSE IF tx[s].phase = "AGREED" THEN 2
    ELSE IF tx[s].phase \in Installing THEN 1
    ELSE 0

\* A session's step is its own.
LEMMA OthersStay ==
    ASSUME IInv, NEW s \in Sessions, NEW t \in Sessions \ {s},
           Begin(t) \/ Step(t) \/ Prepare(t) \/ Save(t) \/ RollBack(t)
    PROVE  tx'[s] = tx[s]
<1>1. tx = [r \in Sessions |-> tx[r]]
  BY DEF IInv
<1> QED
  BY <1>1
     DEF Step, Begin, Connect, Answer, Open, ReadTerms, Agree, Check, FindVersion, MissVersion,
         InsertVersion, Named, Replace, Install, Return, MissPlayer, Enrol, Grant, Eligible,
         BeginRefresh, Refresh, Rebirth, RunAgain, Run, Commit, Refuse, Prepare, Save, RollBack,
         Goes, Holds, Leave, Works

\* A session takes rows of the terms alone, when they are free for it, and else keeps
\* those it has or lets them all go.
LEMMA TermsTaken ==
    ASSUME IInv, NEW s \in Sessions, Begin(s) \/ Step(s) \/ Prepare(s) \/ Save(s) \/ RollBack(s)
    PROVE  \/ tx'[s].held = {}
           \/ /\ tx'[s].request = tx[s].request
              /\ \A v \in tx'[s].held : v \in tx[s].held \/ TermsFree(s, v)
<1> DEFINE Goal == \/ tx'[s].held = {}
                  \/ /\ tx'[s].request = tx[s].request
                     /\ \A v \in tx'[s].held : v \in tx[s].held \/ TermsFree(s, v)
<1> SUFFICES Goal
  OBVIOUS
<1>1. tx = [t \in Sessions |-> tx[t]] /\ TxOK(tx[s], db, operation, terms.current)
  BY DEF IInv
<1>2. tx[s] = [phase |-> tx[s].phase, request |-> tx[s].request, key |-> tx[s].key,
               seen |-> tx[s].seen, work |-> tx[s].work, legs |-> tx[s].legs,
               asked |-> tx[s].asked, held |-> tx[s].held]
  BY <1>1 DEF TxOK
<1>3. ASSUME NEW phase, Goes(s, phase) PROVE Goal
  <2>1. tx'[s] = [tx[s] EXCEPT !.phase = phase]
    BY <1>1, <1>3 DEF Goes
  <2> QED BY <1>2, <2>1
<1>4. ASSUME NEW phase, NEW rows, Holds(s, phase, rows),
             \A v \in rows : v \in tx[s].held \/ TermsFree(s, v)
      PROVE  Goal
  <2>1. tx'[s] = [tx[s] EXCEPT !.phase = phase, !.held = rows]
    BY <1>1, <1>4 DEF Holds
  <2>2. tx'[s].request = tx[s].request /\ tx'[s].held = rows
    BY <1>2, <2>1
  <2> QED BY <1>4, <2>2
<1>5. CASE Begin(s)
  <2>1. PICK r \in Requests : \E k \in KeysOf(r), legs \in PlansOf(r) :
            tx' = [tx EXCEPT ![s] = Asking(r, k, legs)]
    BY <1>5 DEF Begin
  <2> QED BY <1>1, <2>1 DEF Asking
<1>6. CASE ReadTerms(s) \/ Replace(s) \/ BeginRefresh(s)
  <2>1. PICK phase, seen : tx' = [tx EXCEPT ![s].phase = phase, ![s].seen = seen]
    BY <1>6 DEF ReadTerms, Replace, BeginRefresh
  <2>2. tx'[s] = [tx[s] EXCEPT !.phase = phase, !.seen = seen]
    BY <1>1, <2>1
  <2> QED BY <1>2, <2>2
<1>7. CASE Agree(s) \/ Check(s)
  <2>1. \/ Holds(s, "AGREED", {tx[s].seen})
        \/ Holds(s, "CHECKED", {tx[s].seen} \ {None})
    BY <1>7 DEF Agree, Check
  <2>2. TermsFree(s, tx[s].seen)
    BY <1>7 DEF Agree, Check
  <2> QED BY <1>4, <2>1, <2>2
<1>8. CASE FindVersion(s) \/ InsertVersion(s)
  <2>1. Holds(s, "NAMED", tx[s].held \cup {tx[s].request.version})
    BY <1>8 DEF FindVersion, InsertVersion, Named
  <2>2. TermsFree(s, tx[s].request.version)
    BY <1>8 DEF FindVersion, InsertVersion
  <2> QED BY <1>4, <2>1, <2>2
<1>9. CASE Connect(s) \/ MissVersion(s) \/ Open(s) \/ MissPlayer(s) \/ Eligible(s) \/ Refresh(s)
  <2>1. \E phase : Goes(s, phase)
    BY <1>9 DEF Connect, MissVersion, Open, MissPlayer, Eligible, Refresh
  <2> QED BY <1>3, <2>1
<1>10. CASE Return(s) \/ Enrol(s) \/ Grant(s) \/ Rebirth(s) \/ Prepare(s) \/ Run(s)
  <2>1. PICK w, legs : Works(s, w, legs)
    BY <1>10 DEF Return, Enrol, Grant, Rebirth, Prepare, Run
  <2>2. tx'[s] = [tx[s] EXCEPT !.phase = "LOCKED", !.work = w, !.legs = legs]
    BY <1>1, <2>1 DEF Works
  <2> QED BY <1>2, <2>2
<1>11. CASE RunAgain(s)
  <2>1. tx'[s] = [tx[s] EXCEPT !.legs = Tail(@)]
    BY <1>1, <1>11 DEF RunAgain
  <2> QED BY <1>2, <2>1
<1>12. CASE Answer(s) \/ Install(s) \/ Commit(s) \/ Refuse(s) \/ Save(s) \/ RollBack(s)
  <2>1. Leave(s)
    BY <1>12 DEF Answer, Install, Commit, Refuse, Save, RollBack
  <2> QED BY <1>1, <2>1 DEF Leave, Idle
<1> HIDE DEF Goal
<1> QED
  BY <1>5, <1>6, <1>7, <1>8, <1>9, <1>10, <1>11, <1>12, Zenon DEF Step

\* The rows of the terms stay with those who share them or with the one who has them.
LEMMA TermsStay == IInv /\ TermsHeld /\ [Next]_vars => TermsHeld'
<1> SUFFICES ASSUME IInv, TermsHeld, [Next]_vars PROVE TermsHeld'
  OBVIOUS
<1>1. /\ \A s \in Sessions : TxOK(tx'[s], db', operation', terms.current')
      /\ \A s \in Sessions : TxOK(tx[s], db, operation, terms.current)
  BY NextKeeps DEF IInv
<1>2. ASSUME NEW s \in Sessions, tx'[s].held # {}, tx'[s].request = tx[s].request, Sharing(s)
      PROVE  Sharing(s)'
  BY <1>1, <1>2 DEF Sharing, Asks, TxOK
<1>3. ASSUME NEW s \in Sessions, Begin(s) \/ Step(s) \/ Prepare(s) \/ Save(s) \/ RollBack(s),
             NEW t \in Sessions \ {s}, NEW v, v \in tx'[s].held, v \in tx'[t].held
      PROVE  Sharing(s)' /\ Sharing(t)'
  <2>1. tx'[t] = tx[t]
    BY <1>3, OthersStay
  <2>2. /\ tx'[s].request = tx[s].request
        /\ v \in tx[s].held \/ TermsFree(s, v)
    BY <1>3, TermsTaken
  <2>3. Sharing(s) /\ Sharing(t)
    <3>1. v \in tx[t].held
      BY <1>3, <2>1
    <3>2. CASE v \in tx[s].held
      BY <1>3, <3>1, <3>2 DEF TermsHeld
    <3>3. CASE TermsFree(s, v)
      BY <1>3, <3>1, <3>3 DEF TermsFree
    <3> QED BY <2>2, <3>2, <3>3
  <2> QED BY <1>2, <1>3, <2>1, <2>2, <2>3
<1>4. CASE \E s \in Sessions : Begin(s) \/ Step(s) \/ Prepare(s) \/ Save(s) \/ RollBack(s)
  <2>1. PICK r \in Sessions : Begin(r) \/ Step(r) \/ Prepare(r) \/ Save(r) \/ RollBack(r)
    BY <1>4
  <2> SUFFICES ASSUME NEW s \in Sessions, NEW t \in Sessions, s # t,
                      tx'[s].held \cap tx'[t].held # {}
               PROVE  Sharing(s)' /\ Sharing(t)'
    BY DEF TermsHeld
  <2>2. CASE s = r \/ t = r
    BY <1>3, <2>1, <2>2
  <2>3. CASE s # r /\ t # r
    <3>1. tx'[s] = tx[s] /\ tx'[t] = tx[t]
      BY <2>1, <2>3, OthersStay
    <3>2. Sharing(s) /\ Sharing(t)
      BY <3>1 DEF TermsHeld
    <3> QED BY <3>1, <3>2 DEF Sharing, Asks
  <2> QED BY <2>2, <2>3
<1>5. CASE Else \/ UNCHANGED vars
  <2>1. tx' = tx
    BY <1>5 DEF Else, Sweep, EndCooldown, SetStatus, NextDay, vars
  <2> QED BY <2>1 DEF TermsHeld, Sharing, Asks
<1> QED BY <1>4, <1>5 DEF Next

\* Whoever has a row of the terms is an installation, or a registration that has agreed
\* to the current ones or gone on.
LEMMA TermsPhases ==
    ASSUME IInv, NEW t \in Sessions, tx[t].held # {}
    PROVE  \/ tx[t].phase \in Installing /\ tx[t].request.kind = "TERMS"
           \/ /\ tx[t].phase \in {"AGREED"} \cup Holding
              /\ Sharing(t) /\ terms.current \in tx[t].held
<1>1. TxOK(tx[t], db, operation, terms.current)
  BY DEF IInv
<1>2. tx[t].phase \in Installing \/ tx[t].phase \in {"AGREED"} \cup Holding
  BY <1>1 DEF TxOK, HeldOK, Phases
<1> QED BY <1>1, <1>2 DEF TxOK, HeldOK, Agreed, Sharing, Asks, Installing, Holding

\* Whoever has the player row waits for nobody.
LEMMA LockedGo ==
    ASSUME NEW t \in Sessions, HasPlayer(t) PROVE Rank(t) = 4
BY DEF HasPlayer, Rank, Waiting, WaitsFor, WaitsForKey, WaitsForTerms, NextTerms, WaitsForPlayer

\* A wait goes to a session that has come further, unless one of the two is late.
LEMMA Higher ==
    ASSUME IInv, TermsHeld, NEW s \in Sessions, NEW t \in Sessions, WaitsFor(s, t),
           ~ Late(s), ~ Late(t)
    PROVE  Rank(s) < Rank(t)
<1>1. Waiting(s) /\ s # t
  BY DEF Waiting, WaitsFor
<1>2. CASE WaitsForPlayer(s, t)
  BY <1>1, <1>2, LockedGo DEF WaitsForPlayer, Rank
<1>3. CASE WaitsForKey(s, t)
  <2>1. Rank(s) \in 0 .. 2
    BY <1>1, <1>3 DEF WaitsForKey, Rank, HasRow, Holding
  <2>2. Rank(t) \in 3 .. 4
    BY <1>3 DEF WaitsForKey, Rank
  <2> QED BY <2>1, <2>2
<1>4. CASE WaitsForTerms(s, t)
  <2>1. NextTerms(s) # {} /\ tx[t].held # {}
    BY <1>4 DEF WaitsForTerms
  <2>2. terms.current \in tx[t].held
    BY <2>1, TermsPhases DEF Late
  <2>3. tx[s].phase \notin Installing
    <3> SUFFICES ASSUME tx[s].phase \in Installing PROVE FALSE
      OBVIOUS
    <3>1. tx[s].request.kind = "TERMS" /\ terms.current \in tx[s].held
      BY DEF Late, IInv, TxOK
    <3>2. Sharing(s)
      BY <1>1, <2>2, <3>1 DEF TermsHeld
    <3> QED BY <3>1, <3>2 DEF Sharing, Asks
  <2>4. tx[s].phase = "READING"
    BY <2>1, <2>3 DEF NextTerms, Installing
  <2>5. Rank(s) = 0
    BY <1>1, <2>3, <2>4 DEF Rank, HasRow, Holding
  <2>6. Rank(t) \in 1 .. 4
    BY <2>1, TermsPhases DEF Rank, HasRow
  <2> QED BY <2>5, <2>6
<1> QED BY <1>2, <1>3, <1>4 DEF WaitsFor

\* A session that is waited for, and is no installation, waits for no installation.
LEMMA PastTerms ==
    ASSUME IInv, NEW r \in Sessions, NEW s \in Sessions, NEW t \in Sessions,
           WaitsFor(r, s), WaitsFor(s, t), ~ Asks(s, {"TERMS"})
    PROVE  ~ Asks(t, {"TERMS"})
<1>1. TxOK(tx[s], db, operation, terms.current) /\ TxOK(tx[t], db, operation, terms.current)
  BY DEF IInv
<1>2. tx[s].phase \in {"AGREED"} \cup Holding
  <2>1. CASE tx[s].held # {}
    BY <2>1, TermsPhases DEF Asks, Installing
  <2>2. CASE HasRow(s) \/ HasPlayer(s)
    BY <2>2 DEF HasRow, HasPlayer, Holding
  <2> QED BY <2>1, <2>2 DEF WaitsFor, WaitsForKey, WaitsForTerms, WaitsForPlayer
<1>3. ~ WaitsForTerms(s, t)
  BY <1>2 DEF WaitsForTerms, NextTerms, Holding
<1>4. tx[t].phase \in Holding
  BY <1>3 DEF WaitsFor, WaitsForKey, WaitsForPlayer, HasRow, HasPlayer, Holding
<1> QED BY <1>1, <1>4 DEF TxOK, Asks, Holding

\* Nobody can come further five times: where each waits for the next, one is late.
LEMMA NoLongerChain ==
    ASSUME IInv, TermsHeld, NEW group \in SUBSET Sessions, NEW next \in [group -> group],
           \A s \in group : WaitsFor(s, next[s]) /\ ~ Late(s)
    PROVE  group = {}
<1> SUFFICES ASSUME NEW a \in group PROVE FALSE
  OBVIOUS
<1> DEFINE b == next[a]  c == next[b]  d == next[c]  e == next[d]  f == next[e]
<1>1. b \in group /\ c \in group /\ d \in group /\ e \in group /\ f \in group
  OBVIOUS
<1>2. \A s \in group : Rank(s) < Rank(next[s])
  BY Higher
<1>3. /\ Rank(a) < Rank(b) /\ Rank(b) < Rank(c) /\ Rank(c) < Rank(d)
      /\ Rank(d) < Rank(e) /\ Rank(e) < Rank(f)
  BY <1>1, <1>2
<1>4. \A s \in Sessions : Rank(s) \in 0 .. 4
  BY DEF Rank
<1>5. /\ Rank(a) \in 0 .. 4 /\ Rank(b) \in 0 .. 4 /\ Rank(c) \in 0 .. 4
      /\ Rank(d) \in 0 .. 4 /\ Rank(e) \in 0 .. 4 /\ Rank(f) \in 0 .. 4
  BY <1>1, <1>4
<1> HIDE DEF b, c, d, e, f
<1> QED BY <1>3, <1>5

\* Sessions that wait for each other have a late installation among them.
LEMMA SomeLate ==
    ASSUME IInv, TermsHeld, NEW group \in SUBSET Sessions, group # {},
           \A s \in group : \E t \in group : WaitsFor(s, t)
    PROVE  \E s \in group : Late(s)
<1> SUFFICES ASSUME \A s \in group : ~ Late(s) PROVE FALSE
  OBVIOUS
<1> DEFINE next == [s \in group |-> CHOOSE t \in group : WaitsFor(s, t)]
<1>1. next \in [group -> group] /\ \A s \in group : WaitsFor(s, next[s])
  OBVIOUS
<1> HIDE DEF next
<1> QED BY <1>1, NoLongerChain

\* Whoever is in a circle of waits is an installation.
LEMMA CircleOfTerms ==
    ASSUME IInv, TermsHeld, NEW s \in Sessions, Deadlocked(s)
    PROVE  Asks(s, {"TERMS"})
<1> SUFFICES ASSUME ~ Asks(s, {"TERMS"}) PROVE FALSE
  OBVIOUS
<1>1. PICK circle \in SUBSET {t \in Sessions : Waiting(t)} :
          /\ s \in circle
          /\ \E next \in Bijection(circle, circle) : \A t \in circle : WaitsFor(t, next[t])
  BY DEF Deadlocked
<1>2. PICK next \in Bijection(circle, circle) : \A t \in circle : WaitsFor(t, next[t])
  BY <1>1
<1>3. /\ circle \in SUBSET Sessions /\ next \in [circle -> circle]
      /\ \A t \in circle : \E r \in circle : next[r] = t
  BY <1>2 DEF Bijection, Injection, Surjection
<1> DEFINE others == {t \in circle : ~ Asks(t, {"TERMS"})}
<1>4. \A t \in others : next[t] \in others
  <2> SUFFICES ASSUME NEW t \in circle, ~ Asks(t, {"TERMS"}) PROVE ~ Asks(next[t], {"TERMS"})
    BY <1>3
  <2>1. PICK r \in circle : next[r] = t
    BY <1>3
  <2>2. r \in Sessions /\ t \in Sessions /\ next[t] \in Sessions
    BY <1>3
  <2>3. WaitsFor(r, t) /\ WaitsFor(t, next[t])
    BY <1>2, <2>1
  <2> QED BY <2>2, <2>3, PastTerms
<1>5. \A t \in others : ~ Late(t)
  <2> SUFFICES ASSUME NEW t \in Sessions, Late(t) PROVE Asks(t, {"TERMS"})
    BY <1>3
  <2>1. TxOK(tx[t], db, operation, terms.current)
    BY DEF IInv
  <2> QED BY <2>1 DEF Late, TxOK, Asks, Installing
<1>6. \A t \in others : \E u \in others : WaitsFor(t, u)
  BY <1>2, <1>4
<1>7. others \in SUBSET Sessions /\ others # {}
  BY <1>1, <1>3
<1> HIDE DEF others
<1> QED BY <1>5, <1>6, <1>7, SomeLate

\* Nobody is in the way of a session that waits for nobody.
LEMMA FreeUnlessWaiting ==
    ASSUME IInv, NEW s \in Sessions, ~ Waiting(s)
    PROVE  RowsFree(s)
<1>1. \A t \in Sessions \ {s} :
          ~ WaitsForKey(s, t) /\ ~ WaitsForTerms(s, t) /\ ~ WaitsForPlayer(s, t)
  BY DEF Waiting, WaitsFor
<1>2. Exclusive
  BY DEF IInv
<1>3. tx[s].phase \in {"ASKING", "AGREED"} /\ ~ Asks(s, {"TERMS"}) => RowFree(s)
  BY <1>1 DEF WaitsForKey, RowFree
<1>4. \A v \in NextTerms(s) : TermsFree(s, v)
  BY <1>1 DEF WaitsForTerms, TermsFree
<1>5. tx[s].phase \in Holding => PlayerFree(s)
  <2>1. CASE HasPlayer(s)
    BY <1>2, <2>1 DEF Exclusive, PlayerFree
  <2>2. CASE ~ HasPlayer(s)
    BY <1>1, <2>2 DEF WaitsForPlayer, PlayerFree, HasPlayer
  <2> QED BY <2>1, <2>2
<1> QED BY <1>3, <1>4, <1>5 DEF RowsFree

\* Whoever waits for no other session finds its next row free.  Sessions can wait for
\* each other all around only by an installation of terms to which the current row was
\* not given, and only installations are in such a circle: registrations, Rebirths and
\* grants never are.
THEOREM OnlyLateDeadlock == Spec => []DeadlocksAreLate
<1>1. Init => IInv /\ TermsHeld
  <2> SUFFICES ASSUME Init PROVE IInv /\ TermsHeld
    OBVIOUS
  <2>1. \A s \in Sessions : tx[s].held = {}
    BY DEF Init, Idle
  <2> QED BY <2>1, InitHolds DEF TermsHeld
<1>2. IInv /\ TermsHeld => DeadlocksAreLate
  BY FreeUnlessWaiting, SomeLate, CircleOfTerms DEF DeadlocksAreLate
<1>3. IInv /\ TermsHeld /\ [Next]_vars => (IInv /\ TermsHeld)'
  BY NextKeeps, TermsStay
<1> QED BY <1>1, <1>2, <1>3, PTL DEF Spec
=============================================================================
