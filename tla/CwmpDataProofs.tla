--------------------------- MODULE CwmpDataProofs ---------------------------
(***************************************************************************)
(* Proofs about CwmpData, for every data model, whatever options its       *)
(* parameters share, every set of values and every number of requests,     *)
(* local changes and crashes: what is refused stays unset, and no change   *)
(* of value is lost but where the baseline is moved without a comparison.  *)
(***************************************************************************)
EXTENDS CwmpData, SequenceTheorems, WellFoundedInduction, TLAPS

\* uci holds a function of its items, and no value is left uncommitted: a set
\* command and the commit after it are one command of the script.
Uci ==
    /\ conf \in [Item -> Values \cup Notifs]
    /\ delta \in [Item -> Values \cup Notifs \cup {None}]
    /\ \A o \in Options : conf[Val(o)] \in Values /\ delta[Val(o)] = None
    /\ \A p \in Params : /\ conf[Attr(p)] \in Notifs
                         /\ delta[Attr(p)] \in Notifs \cup {None}

Kinds == {"none", "value", "attr"}

\* The request under way, and no other, is in req.
RequestOK ==
    /\ req \in [kind : Kinds, want : Wants(Values) \cup Wants(Notifs) \cup {<<>>},
                todo : SUBSET Names]
    /\ req.todo \subseteq DOMAIN req.want
    /\ mode \notin {"setting", "answer"} => req = NoReq
    /\ req.kind = "none" => req = NoReq
    /\ req.kind = "value" => req.want \in Wants(Values)
    /\ req.kind = "attr" => req.want \in Wants(Notifs)

Talking == {"session", "setting", "answer", "closing"}

FilesOK ==
    /\ cmds \in Seq(Params \X Values) /\ fault \in BOOLEAN
    /\ base \in [Params -> Values \cup {None}]
    /\ pending \in [Params -> Values \cup {None}]
    /\ mode \in Modes
    /\ changed \in BOOLEAN /\ reload \in BOOLEAN /\ orphan \in BOOLEAN
    /\ told \in [Params -> Values]
    /\ swallowed \subseteq Params
    /\ refused \subseteq Options \X Values

\* Nothing on its way to uci is something the ACS was refused.
Unrefused ==
    /\ \A k \in DOMAIN cmds : <<SetOpt[cmds[k][1]], cmds[k][2]>> \notin refused
    /\ mode = "setting" /\ req.kind = "value" =>
          \A r \in Settings(req.want) : r \notin refused

\* The list of notifications is empty in a session.
Listed == mode \in Talking => pending = [p \in Params |-> None]

\* The baseline of a parameter is what the ACS knows, unless the daemon is in
\* the middle of notify, or of answering the request that set it.
Tracked ==
    /\ mode # "checked" =>
          \A p \in Params \ swallowed :
              base[p] \in {None, Known(p)} \/ p \in Unheard
    /\ mode = "checked" =>
          \A p \in Params \ swallowed : base[p] # None =>
              /\ Known(p) = Seen(p)
              /\ pending[p] = None => base[p] = Known(p)

DataInv == Uci /\ RequestOK /\ FilesOK /\ Unrefused /\ Listed
           /\ Tracked /\ RefusedNotApplied /\ NothingLeftOver

-----------------------------------------------------------------------------
(* Items of uci, and the commands that set them.                           *)

\* Values and attributes are different items.
LEMMA Items ==
    /\ \A o \in Options : Val(o) \in Item
    /\ \A p \in Params : /\ Attr(p) \in Item
                         /\ GetOpt[p] \in Options /\ SetOpt[p] \in Options
    /\ \A i \in Item : \/ \E o \in Options : i = Val(o)
                      \/ \E p \in Params : i = Attr(p)
    /\ \A p, q : Val(p) # Attr(q)
    /\ \A p, q : Val(p) = Val(q) => p = q
    /\ \A p, q : Attr(p) = Attr(q) => p = q
    /\ None \notin Values /\ None \notin Notifs
<1>1. \A p, q : Val(p) # Attr(q)
  BY DEF Val, Attr
<1>2. \A p, q : (Val(p) = Val(q) => p = q) /\ (Attr(p) = Attr(q) => p = q)
  BY DEF Val, Attr
<1>3. None \notin Values /\ None \notin Notifs
  BY DataAssumption DEF None, Notifs
<1>4. /\ \A o \in Options : Val(o) \in Item
      /\ \A p \in Params : Attr(p) \in Item
      /\ \A i \in Item : \/ \E o \in Options : i = Val(o)
                        \/ \E p \in Params : i = Attr(p)
  BY DEF Item
<1>5. \A p \in Params : GetOpt[p] \in Options /\ SetOpt[p] \in Options
  BY DataAssumption
<1> QED
  BY <1>1, <1>2, <1>3, <1>4, <1>5

\* A non-empty set of places of a command file has a last one.
LEMMA LastPlace ==
    ASSUME NEW N \in Nat, NEW S \in SUBSET (1 .. N), S # {}
    PROVE  Max(S) \in S /\ \A k \in S : k <= Max(S)
<1> DEFINE R == {ss \in Nat \X Nat : ss[1] < ss[2]}
           T == {N - k : k \in S}
<1>1. IsWellFoundedOn(R, Nat)
  BY NatLessThanWellFounded DEF OpToRel
<1>2. T \in SUBSET Nat /\ T # {}
  <2>1. \A k \in S : N - k \in Nat
    OBVIOUS
  <2>2. T # {}
    OBVIOUS
  <2> QED
    BY <2>1, <2>2
<1>3. PICK t \in T : \A u \in T : ~ (<<u, t>> \in R)
  <2> HIDE DEF R, T
  <2> QED BY <1>1, <1>2, WFMin
<1>4. PICK x \in S : t = N - x
  BY <1>3
<1>5. ASSUME NEW y \in S PROVE x >= y
  <2>1. <<N - y, t>> \notin R /\ <<N - y, t>> \in Nat \X Nat
    BY <1>2, <1>3
  <2>2. ~ (N - y < t)
    BY <2>1
  <2> QED
    BY <1>4, <2>2
<1>6. \E m \in S : \A y \in S : m >= y
  BY <1>5
<1> QED
  BY <1>6 DEF Max

\* What the commands of the file do to the uncommitted changes.
LEMMA Evaluated ==
    ASSUME NEW c \in Seq(Params \X Values), NEW failed,
           NEW d \in [Item -> Values \cup Notifs \cup {None}]
    PROVE  /\ \A p \in Params : Evaluate(d, c, failed)[Attr(p)] = d[Attr(p)]
           /\ \A o \in Options :
                 \/ Evaluate(d, c, failed)[Val(o)] = d[Val(o)]
                 \/ \E k \in DOMAIN c :
                      /\ SetOpt[c[k][1]] = o
                      /\ c[k][2] = Evaluate(d, c, failed)[Val(o)]
<1>1. DOMAIN c = 1 .. Len(c) /\ Len(c) \in Nat
  BY LenProperties
<1>2. ASSUME NEW p \in Params
      PROVE  Evaluate(d, c, failed)[Attr(p)] = d[Attr(p)]
  BY Items DEF Evaluate, Setters
<1>3. ASSUME NEW o \in Options
      PROVE  \/ Evaluate(d, c, failed)[Val(o)] = d[Val(o)]
             \/ \E k \in DOMAIN c :
                   /\ SetOpt[c[k][1]] = o
                   /\ c[k][2] = Evaluate(d, c, failed)[Val(o)]
  <2>1. CASE Setters(c, failed, Val(o)) = {}
    BY <2>1, Items DEF Evaluate
  <2>2. CASE Setters(c, failed, Val(o)) # {}
    <3>1. Setters(c, failed, Val(o)) \in SUBSET (1 .. Len(c))
      BY <1>1 DEF Setters
    <3>2. PICK k : k = Max(Setters(c, failed, Val(o)))
      OBVIOUS
    <3>3. k \in Setters(c, failed, Val(o))
      BY <1>1, <2>2, <3>1, <3>2, LastPlace
    <3>4. k \in DOMAIN c /\ SetOpt[c[k][1]] = o
      BY <3>3, Items DEF Setters
    <3>5. Evaluate(d, c, failed)[Val(o)] = c[k][2]
      BY <2>2, <3>2, Items DEF Evaluate
    <3> QED
      BY <3>4, <3>5
  <2> QED
    BY <2>1, <2>2
<1> QED
  BY <1>2, <1>3

-----------------------------------------------------------------------------
(* Every step preserves DataInv.                                           *)

\* No request is a well formed req.
LEMMA NoRequest ==
    /\ NoReq \in [kind : Kinds, want : Wants(Values) \cup Wants(Notifs) \cup {<<>>},
                  todo : SUBSET Names]
    /\ NoReq.todo = {} /\ NoReq.kind = "none"
BY DEF NoReq, Kinds

\* Before and after a step that leaves the delta of values empty, uci get
\* answers the committed value.
LEMMA ViewCommitted ==
    /\ Uci => /\ \A o \in Options : View(Val(o)) = conf[Val(o)]
              /\ \A p \in Params : Seen(p) = conf[Val(GetOpt[p])]
    /\ Uci' => /\ \A o \in Options : View(Val(o))' = conf'[Val(o)]
               /\ \A p \in Params : Seen(p)' = conf'[Val(GetOpt[p])]
BY Items DEF Uci, View, Seen

\* What a new baseline, the comparison and the list of notifications hold.
LEMMA BaselineType ==
    ASSUME Uci, FilesOK
    PROVE  /\ Snapshot \in [Params -> Values \cup {None}]
           /\ \A p \in Params : Snapshot[p] \in {None, Seen(p)}
           /\ Swallowed(Snapshot) \subseteq Params
           /\ [p \in Params |-> Difference(p)] \in [Params -> Values \cup {None}]
           /\ [p \in Params |-> Known(p)] \in [Params -> Values]
<1>1. \A p \in Params : Seen(p) \in Values
  BY ViewCommitted, Items DEF Uci
<1>2. Swallowed(Snapshot) \subseteq Params
  BY DEF Swallowed, FilesOK
<1> QED
  BY <1>1, <1>2 DEF Snapshot, FilesOK, Difference, Known

\* A request names parameters, or other names, and gives values or attributes.
LEMMA WantsType ==
    ASSUME RequestOK
    PROVE  /\ \A V : \A w \in Wants(V) : /\ DOMAIN w \subseteq Names
                                         /\ \A n \in DOMAIN w : w[n] \in V
           /\ req.kind = "value" => \A n \in DOMAIN req.want : req.want[n] \in Values
           /\ req.kind = "attr" => \A n \in DOMAIN req.want : req.want[n] \in Notifs
           /\ Refusal \subseteq Options \X Values
           /\ Unheard \subseteq Params
<1>1. ASSUME NEW V, NEW w \in Wants(V)
      PROVE  DOMAIN w \subseteq Names /\ \A n \in DOMAIN w : w[n] \in V
  BY DEF Wants
<1>2. /\ req.kind = "value" => \A n \in DOMAIN req.want : req.want[n] \in Values
      /\ req.kind = "attr" => \A n \in DOMAIN req.want : req.want[n] \in Notifs
  BY <1>1 DEF RequestOK
<1>3. Refusal \subseteq Options \X Values
  BY <1>2, Items DEF Refusal, Settings
<1>4. Unheard \subseteq Params
  BY DEF Unheard
<1> QED
  BY <1>1, <1>2, <1>3, <1>4

\* Refused settings are pairs of an option and a value, commands of a parameter
\* and a value.
LEMMA RefusedType ==
    ASSUME FilesOK
    PROVE  /\ \A r \in refused : r[1] \in Options /\ r[2] \in Values /\ r = <<r[1], r[2]>>
           /\ DOMAIN cmds = 1 .. Len(cmds) /\ Len(cmds) \in Nat
           /\ \A k \in DOMAIN cmds : cmds[k] \in Params \X Values
<1>1. \A r \in refused : r[1] \in Options /\ r[2] \in Values /\ r = <<r[1], r[2]>>
  BY DEF FilesOK
<1>2. /\ DOMAIN cmds = 1 .. Len(cmds) /\ Len(cmds) \in Nat
      /\ \A k \in DOMAIN cmds : cmds[k] \in Params \X Values
  BY LenProperties, ElementOfSeq DEF FilesOK
<1> QED
  BY <1>1, <1>2

\* The daemon starts or reloads: the baseline is written anew.
LEMMA StartKeeps ==
    ASSUME DataInv, Start \/ Reload
    PROVE  DataInv'
<1> USE DEF DataInv
<1>1. Uci'
  BY Items, WantsType DEF Start, Reload, Snapshot, Swallowed, Uci
<1>2. RequestOK'
  BY NoRequest, WantsType DEF Start, Reload, Snapshot, Swallowed, RequestOK
<1>3. FilesOK'
  BY EmptySeq, BaselineType, WantsType DEF Start, Reload, Snapshot, Swallowed,
     FilesOK, Modes
<1>4. Unrefused'
  BY DEF Start, Reload, Snapshot, Swallowed, Unrefused
<1>5. Listed'
  BY DEF Start, Reload, Snapshot, Swallowed, Listed, Talking
<1>6. Tracked'
  BY <1>1, Items, ViewCommitted DEF Start, Reload, Snapshot, Swallowed,
     Tracked, Known, Unheard
<1>7. RefusedNotApplied'
  BY DEF Start, Reload, Snapshot, Swallowed, RefusedNotApplied, View
<1>8. NothingLeftOver'
  BY <1>1 DEF Start, Reload, Snapshot, Swallowed, NothingLeftOver, Uci
<1> QED
  BY <1>1, <1>2, <1>3, <1>4, <1>5, <1>6, <1>7, <1>8

\* The first half of notify.
LEMMA NotifyKeeps ==
    ASSUME DataInv, Notify
    PROVE  DataInv'
<1> USE DEF DataInv
<1>1. Uci'
  BY Items, WantsType DEF Notify, Difference, Uci
<1>2. RequestOK'
  BY NoRequest, WantsType DEF Notify, Difference, RequestOK
<1>3. FilesOK'
  BY EmptySeq, BaselineType, WantsType DEF Notify, Difference, FilesOK, Modes
<1>4. Unrefused'
  BY DEF Notify, Difference, Unrefused
<1>5. Listed'
  BY DEF Notify, Difference, Listed, Talking
<1>6. Tracked'
  <2>1. /\ mode = "idle" /\ mode' = "checked"
        /\ UNCHANGED <<conf, delta, base, told, req>>
        /\ pending' = [p \in Params |-> Difference(p)]
        /\ swallowed' = swallowed \ {p \in Params : pending'[p] # pending[p]}
    BY DEF Notify
  <2> SUFFICES ASSUME NEW p \in Params, p \notin swallowed', base[p] # None
               PROVE  Known(p)' = Seen(p)' /\ (pending'[p] = None => base[p] = Known(p)')
    BY <2>1 DEF Tracked
  <2>2. /\ Seen(p)' = Seen(p) /\ Seen(p) \in Values
        /\ Known(p)' = IF pending'[p] # None THEN pending'[p] ELSE told[p]
    BY <2>1, ViewCommitted, Items DEF View, Seen, Known, Uci
  <2>3. CASE base[p] # Seen(p)
    BY <2>1, <2>2, <2>3, Items DEF Difference
  <2>4. CASE base[p] = Seen(p)
    <3>1. pending'[p] = pending[p] /\ p \notin swallowed
      BY <2>1, <2>4 DEF Difference
    <3>2. base[p] = Known(p)
      BY <2>1, <3>1 DEF Tracked, Unheard
    <3> QED
      BY <2>2, <2>4, <3>1, <3>2 DEF Known
  <2> QED
    BY <2>3, <2>4
<1>7. RefusedNotApplied'
  BY DEF Notify, Difference, RefusedNotApplied, View
<1>8. NothingLeftOver'
  BY <1>1 DEF Notify, Difference, NothingLeftOver, Uci
<1> QED
  BY <1>1, <1>2, <1>3, <1>4, <1>5, <1>6, <1>7, <1>8

\* The second half of notify.
LEMMA NotifyUpdateKeeps ==
    ASSUME DataInv, NotifyUpdate
    PROVE  DataInv'
<1> USE DEF DataInv
<1>1. Uci'
  BY Items, WantsType DEF NotifyUpdate, Snapshot, Swallowed, Uci
<1>2. RequestOK'
  BY NoRequest, WantsType DEF NotifyUpdate, Snapshot, Swallowed, RequestOK
<1>3. FilesOK'
  BY EmptySeq, BaselineType, WantsType DEF NotifyUpdate, Snapshot, Swallowed,
     FilesOK, Modes
<1>4. Unrefused'
  BY DEF NotifyUpdate, Snapshot, Swallowed, Unrefused
<1>5. Listed'
  BY DEF NotifyUpdate, Snapshot, Swallowed, Listed, Talking
<1>6. Tracked'
  BY <1>1, Items, ViewCommitted DEF NotifyUpdate, Snapshot, Swallowed,
     Tracked, Known, Unheard
<1>7. RefusedNotApplied'
  BY DEF NotifyUpdate, Snapshot, Swallowed, RefusedNotApplied, View
<1>8. NothingLeftOver'
  BY <1>1 DEF NotifyUpdate, Snapshot, Swallowed, NothingLeftOver, Uci
<1> QED
  BY <1>1, <1>2, <1>3, <1>4, <1>5, <1>6, <1>7, <1>8

\* Somebody else sets an option.
LEMMA LocalChangeKeeps ==
    ASSUME DataInv, NEW o \in Options, NEW v \in Values, LocalChange(o, v)
    PROVE  DataInv'
<1> USE DEF DataInv
<1>1. Uci'
  BY Items, WantsType DEF LocalChange, Uci
<1>2. RequestOK'
  BY NoRequest, WantsType DEF LocalChange, RequestOK
<1>3. FilesOK'
  BY EmptySeq, BaselineType, WantsType DEF LocalChange, FilesOK, Modes
<1>4. Unrefused'
  BY DEF LocalChange, Unrefused
<1>5. Listed'
  BY DEF LocalChange, Listed, Talking
<1>6. Tracked'
  BY <1>1, Items, ViewCommitted DEF LocalChange, Tracked, Known, Unheard
<1>7. RefusedNotApplied'
  <2>1. \A r \in refused' : r \in refused /\ r # <<o, v>>
    BY DEF LocalChange
  <2>2. \A r \in refused : r[1] \in Options /\ r = <<r[1], r[2]>>
    BY RefusedType
  <2>3. \A q \in Options : /\ View(Val(q)) = conf[Val(q)]
                           /\ View(Val(q))' = conf'[Val(q)]
    BY <1>1, ViewCommitted
  <2>4. \A q \in Options : conf'[Val(q)] = IF q = o THEN v ELSE conf[Val(q)]
    BY Items DEF LocalChange, Uci
  <2> QED
    BY <2>1, <2>2, <2>3, <2>4 DEF RefusedNotApplied
<1>8. NothingLeftOver'
  BY <1>1 DEF LocalChange, NothingLeftOver, Uci
<1> QED
  BY <1>1, <1>2, <1>3, <1>4, <1>5, <1>6, <1>7, <1>8

\* The Inform is answered.
LEMMA SessionOpenKeeps ==
    ASSUME DataInv, SessionOpen
    PROVE  DataInv'
<1> USE DEF DataInv
<1>1. Uci'
  BY Items, WantsType DEF SessionOpen, Uci
<1>2. RequestOK'
  BY NoRequest, WantsType DEF SessionOpen, RequestOK
<1>3. FilesOK'
  BY EmptySeq, BaselineType, WantsType DEF SessionOpen, FilesOK, Modes
<1>4. Unrefused'
  BY DEF SessionOpen, Unrefused
<1>5. Listed'
  BY DEF SessionOpen, Listed, Talking
<1>6. Tracked'
  BY <1>1, Items, ViewCommitted DEF SessionOpen, Tracked, Known, Unheard
<1>7. RefusedNotApplied'
  BY DEF SessionOpen, RefusedNotApplied, View
<1>8. NothingLeftOver'
  BY <1>1 DEF SessionOpen, NothingLeftOver, Uci
<1> QED
  BY <1>1, <1>2, <1>3, <1>4, <1>5, <1>6, <1>7, <1>8

\* The session ends.
LEMMA SessionCloseKeeps ==
    ASSUME DataInv, SessionClose
    PROVE  DataInv'
<1> USE DEF DataInv
<1>1. Uci'
  BY Items, WantsType DEF SessionClose, Snapshot, Swallowed, Uci
<1>2. RequestOK'
  BY NoRequest, WantsType DEF SessionClose, Snapshot, Swallowed, RequestOK
<1>3. FilesOK'
  BY EmptySeq, BaselineType, WantsType DEF SessionClose, Snapshot, Swallowed,
     FilesOK, Modes
<1>4. Unrefused'
  BY DEF SessionClose, Snapshot, Swallowed, Unrefused
<1>5. Listed'
  BY DEF SessionClose, Snapshot, Swallowed, Listed, Talking
<1>6. Tracked'
  BY <1>1, Items, ViewCommitted DEF SessionClose, Snapshot, Swallowed,
     Tracked, Known, Unheard
<1>7. RefusedNotApplied'
  BY DEF SessionClose, Snapshot, Swallowed, RefusedNotApplied, View
<1>8. NothingLeftOver'
  BY <1>1 DEF SessionClose, Snapshot, Swallowed, NothingLeftOver, Uci
<1> QED
  BY <1>1, <1>2, <1>3, <1>4, <1>5, <1>6, <1>7, <1>8

\* A request arrives.
LEMMA RequestKeeps ==
    ASSUME DataInv, NEW kind, NEW want,
           \/ kind = "value" /\ want \in Wants(Values)
           \/ kind = "attr" /\ want \in Wants(Notifs),
           Request(kind, want)
    PROVE  DataInv'
<1> USE DEF DataInv
<1>1. Uci'
  BY Items, WantsType DEF Request, Kinds, Uci
<1>2. RequestOK'
  BY NoRequest, WantsType DEF Request, Kinds, RequestOK
<1>3. FilesOK'
  BY EmptySeq, BaselineType, WantsType DEF Request, Kinds, FilesOK, Modes
<1>4. Unrefused'
  BY DEF Request, Kinds, Unrefused
<1>5. Listed'
  BY DEF Request, Kinds, Listed, Talking
<1>6. Tracked'
  BY <1>1, Items, ViewCommitted DEF Request, Kinds, Tracked, Known, Unheard
<1>7. RefusedNotApplied'
  BY DEF Request, Kinds, RefusedNotApplied, View
<1>8. NothingLeftOver'
  BY <1>1 DEF Request, Kinds, NothingLeftOver, Uci
<1> QED
  BY <1>1, <1>2, <1>3, <1>4, <1>5, <1>6, <1>7, <1>8

\* set_value.
LEMMA SetValueKeeps ==
    ASSUME DataInv, NEW n \in Names, SetValue(n)
    PROVE  DataInv'
<1> USE DEF DataInv
<1>0. /\ mode = "setting" /\ req.kind = "value" /\ n \in req.todo
      /\ n \in DOMAIN req.want /\ req.want[n] \in Values
      /\ req' = [req EXCEPT !.todo = @ \ {n}]
      /\ req'.kind = req.kind /\ req'.want = req.want /\ req'.todo = req.todo \ {n}
      /\ UNCHANGED <<conf, delta, base, pending, mode, changed, reload, told,
                     swallowed, refused, orphan, count>>
  BY WantsType DEF SetValue, RequestOK
<1>00. \/ n \in Params /\ cmds' = Append(cmds, <<n, req.want[n]>>) /\ fault' = fault
       \/ fault' = TRUE /\ cmds' = cmds
  BY DEF SetValue, Settable
<1>000. n \in Params /\ cmds' = Append(cmds, <<n, req.want[n]>>) =>
            /\ cmds' \in Seq(Params \X Values)
            /\ DOMAIN cmds' = 1 .. Len(cmds) + 1
            /\ \A k \in 1 .. Len(cmds) : cmds'[k] = cmds[k]
            /\ cmds'[Len(cmds) + 1] = <<n, req.want[n]>>
  BY <1>0, AppendProperties DEF FilesOK
<1>1. Uci'
  BY Items, WantsType DEF SetValue, Settable, Uci
<1>2. RequestOK'
  BY NoRequest, WantsType DEF SetValue, Settable, RequestOK
<1>3. FilesOK'
  BY <1>0, <1>00, <1>000 DEF FilesOK
<1>4. Unrefused'
  <2>1. \A k \in DOMAIN cmds' : <<SetOpt[cmds'[k][1]], cmds'[k][2]>> \notin refused
    <3>1. n \in Params => <<SetOpt[n], req.want[n]>> \notin refused
      BY <1>0 DEF Unrefused, Settings
    <3>2. DOMAIN cmds = 1 .. Len(cmds) /\ Len(cmds) \in Nat
      BY RefusedType
    <3>3. CASE cmds' = cmds
      BY <3>3 DEF Unrefused
    <3>4. CASE n \in Params /\ cmds' = Append(cmds, <<n, req.want[n]>>)
      <4> SUFFICES ASSUME NEW k \in DOMAIN cmds'
                   PROVE  <<SetOpt[cmds'[k][1]], cmds'[k][2]>> \notin refused
        OBVIOUS
      <4>1. k \in DOMAIN cmds \/ k = Len(cmds) + 1
        BY <1>000, <3>2, <3>4
      <4>2. CASE k \in DOMAIN cmds
        <5>1. cmds'[k] = cmds[k]
          BY <1>000, <3>2, <3>4, <4>2
        <5> QED
          BY <4>2, <5>1 DEF Unrefused
      <4>3. CASE k = Len(cmds) + 1
        <5>1. cmds'[k] = <<n, req.want[n]>>
          BY <1>000, <3>4, <4>3
        <5>2. cmds'[k][1] = n /\ cmds'[k][2] = req.want[n]
          BY <5>1
        <5> QED
          BY <3>1, <3>4, <5>2
      <4> QED
        BY <4>1, <4>2, <4>3
    <3> QED
      BY <1>00, <3>3, <3>4
  <2> QED
    BY <1>0, <2>1 DEF Unrefused
<1>5. Listed'
  BY DEF SetValue, Settable, Listed, Talking
<1>6. Tracked'
  BY <1>1, Items, ViewCommitted DEF SetValue, Settable, Tracked, Known, Unheard
<1>7. RefusedNotApplied'
  BY DEF SetValue, Settable, RefusedNotApplied, View
<1>8. NothingLeftOver'
  BY <1>1 DEF SetValue, Settable, NothingLeftOver, Uci
<1> QED
  BY <1>1, <1>2, <1>3, <1>4, <1>5, <1>6, <1>7, <1>8

\* set_notification.
LEMMA SetAttributeKeeps ==
    ASSUME DataInv, NEW n \in Names, SetAttribute(n)
    PROVE  DataInv'
<1> USE DEF DataInv
<1>1. Uci'
  <2>1. CASE delta' = delta
    BY <2>1 DEF SetAttribute, Uci
  <2>2. CASE n \in Params /\ delta' = [delta EXCEPT ![Attr(n)] = req.want[n]]
    <3>1. req.want[n] \in Notifs
      BY WantsType DEF SetAttribute, RequestOK
    <3>2. Attr(n) \in Item /\ delta' \in [Item -> Values \cup Notifs \cup {None}]
      BY <2>2, <3>1, Items DEF Uci
    <3>3. /\ \A o \in Options : delta'[Val(o)] = delta[Val(o)]
          /\ \A p \in Params : delta'[Attr(p)] \in {delta[Attr(p)], req.want[n]}
      BY <2>2, <3>2, Items DEF Uci
    <3> QED
      BY <3>1, <3>2, <3>3 DEF SetAttribute, Uci
  <2> QED
    BY <2>1, <2>2 DEF SetAttribute
<1>2. RequestOK'
  BY NoRequest, WantsType DEF SetAttribute, RequestOK
<1>3. FilesOK'
  BY EmptySeq, BaselineType, WantsType DEF SetAttribute, FilesOK, Modes
<1>4. Unrefused'
  BY DEF SetAttribute, Unrefused
<1>5. Listed'
  BY DEF SetAttribute, Listed, Talking
<1>6. Tracked'
  BY <1>1, Items, ViewCommitted DEF SetAttribute, Tracked, Known, Unheard
<1>7. RefusedNotApplied'
  <2>1. ASSUME NEW q \in Options
        PROVE  View(Val(q))' = View(Val(q))
    <3>1. conf' = conf
      BY DEF SetAttribute
    <3> QED
      BY <1>1, <3>1, ViewCommitted
  <2>2. \A r \in refused' : r \in refused \cup Refusal
    BY DEF SetAttribute
  <2>3. \A r \in Refusal : r[1] \in Options /\ View(Val(r[1])) # r[2]
    BY Items DEF Refusal, Settings
  <2>4. \A r \in refused : r[1] \in Options /\ View(Val(r[1])) # r[2]
    BY RefusedType DEF RefusedNotApplied
  <2> QED
    BY <2>1, <2>2, <2>3, <2>4 DEF RefusedNotApplied
<1>8. NothingLeftOver'
  BY <1>1 DEF SetAttribute, NothingLeftOver, Uci
<1> QED
  BY <1>1, <1>2, <1>3, <1>4, <1>5, <1>6, <1>7, <1>8

\* The request is answered with the fault of the file.
LEMMA ApplyFaultKeeps ==
    ASSUME DataInv, ApplyFault
    PROVE  DataInv'
<1> USE DEF DataInv
<1>1. Uci'
  BY Items, WantsType DEF ApplyFault, AfterFault, Refusal, Uci
<1>2. RequestOK'
  BY NoRequest, WantsType DEF ApplyFault, AfterFault, Refusal, RequestOK
<1>3. FilesOK'
  BY EmptySeq, BaselineType, WantsType DEF ApplyFault, AfterFault, Refusal,
     FilesOK, Modes
<1>4. Unrefused'
  BY DEF ApplyFault, AfterFault, Refusal, Unrefused
<1>5. Listed'
  BY DEF ApplyFault, AfterFault, Refusal, Listed, Talking
<1>6. Tracked'
  BY <1>1, Items, ViewCommitted DEF ApplyFault, AfterFault, Refusal, Tracked,
     Known, Unheard
<1>7. RefusedNotApplied'
  BY DEF ApplyFault, AfterFault, Refusal, RefusedNotApplied, View
<1>8. NothingLeftOver'
  BY <1>1 DEF ApplyFault, AfterFault, Refusal, NothingLeftOver, Uci
<1> QED
  BY <1>1, <1>2, <1>3, <1>4, <1>5, <1>6, <1>7, <1>8

\* A set command refuses its value.
LEMMA ApplyRevertKeeps ==
    ASSUME DataInv, ApplyRevert
    PROVE  DataInv'
<1> USE DEF DataInv
<1>1. Uci'
  BY Items, WantsType DEF ApplyRevert, Reverted, NoDelta, Refusal, Uci
<1>2. RequestOK'
  BY NoRequest, WantsType DEF ApplyRevert, Reverted, NoDelta, Refusal,
     RequestOK
<1>3. FilesOK'
  BY EmptySeq, BaselineType, WantsType DEF ApplyRevert, Reverted, NoDelta,
     Refusal, FilesOK, Modes
<1>4. Unrefused'
  BY DEF ApplyRevert, Reverted, NoDelta, Refusal, Unrefused
<1>5. Listed'
  BY DEF ApplyRevert, Reverted, NoDelta, Refusal, Listed, Talking
<1>6. Tracked'
  BY <1>1, Items, ViewCommitted DEF ApplyRevert, Reverted, NoDelta, Refusal,
     Tracked, Known, Unheard
<1>7. RefusedNotApplied'
  <2>1. ASSUME NEW q \in Options
        PROVE  View(Val(q))' = View(Val(q))
    <3>1. conf' = conf
      BY DEF ApplyRevert
    <3> QED
      BY <1>1, <3>1, ViewCommitted
  <2>2. \A r \in refused' : r \in refused \cup Refusal
    BY DEF ApplyRevert
  <2>3. \A r \in Refusal : r[1] \in Options /\ View(Val(r[1])) # r[2]
    BY Items DEF Refusal, Settings
  <2>4. \A r \in refused : r[1] \in Options /\ View(Val(r[1])) # r[2]
    BY RefusedType DEF RefusedNotApplied
  <2> QED
    BY <2>1, <2>2, <2>3, <2>4 DEF RefusedNotApplied
<1>8. NothingLeftOver'
  BY <1>1 DEF ApplyRevert, Reverted, NoDelta, Refusal, NothingLeftOver, Uci
<1> QED
  BY <1>1, <1>2, <1>3, <1>4, <1>5, <1>6, <1>7, <1>8

\* The response reaches the ACS.
LEMMA AnswerKeeps ==
    ASSUME DataInv, Answer
    PROVE  DataInv'
<1> USE DEF DataInv
<1>1. Uci'
  BY Items, WantsType DEF Answer, Uci
<1>2. RequestOK'
  BY NoRequest, WantsType DEF Answer, RequestOK
<1>3. FilesOK'
  BY EmptySeq, BaselineType, WantsType DEF Answer, FilesOK, Modes
<1>4. Unrefused'
  BY DEF Answer, Unrefused
<1>5. Listed'
  BY DEF Answer, Listed, Talking
<1>6. Tracked'
  <2>1. /\ mode = "answer" /\ mode' = "session" /\ UNCHANGED <<base, pending>>
        /\ told' = [p \in Params |-> IF req.kind = "value" /\ p \in DOMAIN req.want
                                     THEN req.want[p] ELSE told[p]]
        /\ swallowed' = IF req.kind # "value" THEN swallowed
                        ELSE (swallowed \ DOMAIN req.want) \cup
                             {p \in Params \cap DOMAIN req.want :
                                 base[p] \notin {None, req.want[p]}}
    BY DEF Answer
  <2>2. pending = [p \in Params |-> None]
    BY <2>1 DEF Listed, Talking
  <2> SUFFICES ASSUME NEW p \in Params, p \notin swallowed'
               PROVE  base[p] \in {None, Known(p)'}
    BY <2>1 DEF Tracked
  <2>3. Known(p)' = told'[p] /\ Known(p) = told[p]
    BY <2>1, <2>2 DEF Known
  <2>4. CASE req.kind = "value" /\ p \in DOMAIN req.want
    BY <2>1, <2>3, <2>4 DEF Tracked
  <2>5. CASE ~(req.kind = "value" /\ p \in DOMAIN req.want)
    <3>1. p \notin swallowed /\ p \notin Unheard
      BY <2>1, <2>5 DEF Unheard
    <3> QED
      BY <2>1, <2>3, <2>5, <3>1 DEF Tracked
  <2> QED
    BY <2>4, <2>5
<1>7. RefusedNotApplied'
  BY DEF Answer, RefusedNotApplied, View
<1>8. NothingLeftOver'
  BY <1>1 DEF Answer, NothingLeftOver, Uci
<1> QED
  BY <1>1, <1>2, <1>3, <1>4, <1>5, <1>6, <1>7, <1>8

\* The response is lost.
LEMMA AnswerLostKeeps ==
    ASSUME DataInv, AnswerLost
    PROVE  DataInv'
<1> USE DEF DataInv
<1>1. Uci'
  BY Items, WantsType DEF AnswerLost, Uci
<1>2. RequestOK'
  BY NoRequest, WantsType DEF AnswerLost, RequestOK
<1>3. FilesOK'
  BY EmptySeq, BaselineType, WantsType DEF AnswerLost, FilesOK, Modes
<1>4. Unrefused'
  BY DEF AnswerLost, Unrefused
<1>5. Listed'
  BY DEF AnswerLost, Listed, Talking
<1>6. Tracked'
  BY <1>1, Items, ViewCommitted DEF AnswerLost, Tracked, Known, Unheard
<1>7. RefusedNotApplied'
  BY DEF AnswerLost, RefusedNotApplied, View
<1>8. NothingLeftOver'
  BY <1>1 DEF AnswerLost, NothingLeftOver, Uci
<1> QED
  BY <1>1, <1>2, <1>3, <1>4, <1>5, <1>6, <1>7, <1>8

\* The daemon dies.
LEMMA CrashKeeps ==
    ASSUME DataInv, Crash
    PROVE  DataInv'
<1> USE DEF DataInv
<1>1. Uci'
  BY Items, WantsType DEF Crash, Uci
<1>2. RequestOK'
  BY NoRequest, WantsType DEF Crash, RequestOK
<1>3. FilesOK'
  BY EmptySeq, BaselineType, WantsType DEF Crash, FilesOK, Modes
<1>4. Unrefused'
  BY DEF Crash, Unrefused
<1>5. Listed'
  BY DEF Crash, Listed, Talking
<1>6. Tracked'
  BY <1>1, Items, ViewCommitted DEF Crash, Tracked, Known, Unheard
<1>7. RefusedNotApplied'
  BY DEF Crash, RefusedNotApplied, View
<1>8. NothingLeftOver'
  BY <1>1 DEF Crash, NothingLeftOver, Uci
<1> QED
  BY <1>1, <1>2, <1>3, <1>4, <1>5, <1>6, <1>7, <1>8

\* The router reboots.
LEMMA RebootKeeps ==
    ASSUME DataInv, Reboot
    PROVE  DataInv'
<1> USE DEF DataInv
<1>1. Uci'
  BY Items, WantsType DEF Reboot, NoDelta, Uci
<1>2. RequestOK'
  BY NoRequest, WantsType DEF Reboot, NoDelta, RequestOK
<1>3. FilesOK'
  BY EmptySeq, BaselineType, WantsType DEF Reboot, NoDelta, FilesOK, Modes
<1>4. Unrefused'
  BY DEF Reboot, NoDelta, Unrefused
<1>5. Listed'
  BY DEF Reboot, NoDelta, Listed, Talking
<1>6. Tracked'
  BY <1>1, Items, ViewCommitted DEF Reboot, NoDelta, Tracked, Known, Unheard
<1>7. RefusedNotApplied'
  <2>1. ASSUME NEW q \in Options
        PROVE  View(Val(q))' = View(Val(q))
    <3>1. conf' = conf
      BY DEF Reboot
    <3> QED
      BY <1>1, <3>1, ViewCommitted
  <2>2. \A r \in refused' : r \in refused \cup Refusal
    BY DEF Reboot
  <2>3. \A r \in Refusal : r[1] \in Options /\ View(Val(r[1])) # r[2]
    BY Items DEF Refusal, Settings
  <2>4. \A r \in refused : r[1] \in Options /\ View(Val(r[1])) # r[2]
    BY RefusedType DEF RefusedNotApplied
  <2> QED
    BY <2>1, <2>2, <2>3, <2>4 DEF RefusedNotApplied
<1>8. NothingLeftOver'
  BY <1>1 DEF Reboot, NoDelta, NothingLeftOver, Uci
<1> QED
  BY <1>1, <1>2, <1>3, <1>4, <1>5, <1>6, <1>7, <1>8

\* No set command returns a fault.
LEMMA ApplyCommitKeeps ==
    ASSUME DataInv, ApplyCommit
    PROVE  DataInv'
<1> USE DEF DataInv
<1>f. PICK failed \in SUBSET DOMAIN cmds :
        LET all == Evaluate(delta, cmds, failed)
            new == [i \in Item |-> IF all[i] # None THEN all[i] ELSE conf[i]]
            b == BaseAfter(cmds, new)
        IN  /\ conf' = new /\ base' = b
            /\ swallowed' = swallowed \cup
                  {p \in Params : b[p] # base[p] /\ p \notin DOMAIN req.want}
  BY DEF ApplyCommit
<1>0. PICK all : all = Evaluate(delta, cmds, failed)
  OBVIOUS
<1>a. PICK new : new = [i \in Item |-> IF all[i] # None THEN all[i] ELSE conf[i]]
  OBVIOUS
<1>b. /\ mode = "setting" /\ req.todo = {} /\ ~fault /\ mode' = "answer"
      /\ conf' = new /\ delta' = NoDelta /\ cmds' = <<>> /\ orphan' = FALSE
      /\ base' = BaseAfter(cmds, new)
      /\ swallowed' = swallowed \cup
            {p \in Params : base'[p] # base[p] /\ p \notin DOMAIN req.want}
      /\ UNCHANGED <<fault, pending, req, told, refused, count>>
  BY <1>f, <1>0, <1>a DEF ApplyCommit
<1>c. changed' \in BOOLEAN /\ reload' \in BOOLEAN
  BY DEF ApplyCommit, FilesOK
<1>d. /\ \A k \in DOMAIN cmds : cmds[k] \in Params \X Values
      /\ cmds \in Seq(Params \X Values)
      /\ delta \in [Item -> Values \cup Notifs \cup {None}]
  BY RefusedType DEF FilesOK, Uci
<1>e. /\ \A p \in Params : new[Attr(p)] \in Notifs
      /\ \A o \in Options :
            /\ new[Val(o)] \in Values
            /\ \/ new[Val(o)] = conf[Val(o)]
               \/ \E k \in DOMAIN cmds :
                     SetOpt[cmds[k][1]] = o /\ cmds[k][2] = new[Val(o)]
  <2>1. /\ \A p \in Params : all[Attr(p)] = delta[Attr(p)]
        /\ \A o \in Options :
              \/ all[Val(o)] = delta[Val(o)]
              \/ \E k \in DOMAIN cmds :
                    SetOpt[cmds[k][1]] = o /\ cmds[k][2] = all[Val(o)]
    BY <1>0, <1>d, Evaluated
  <2>2. ASSUME NEW p \in Params
        PROVE  new[Attr(p)] \in Notifs
    BY <1>a, <2>1, Items DEF Uci
  <2>3. ASSUME NEW o \in Options
        PROVE  /\ new[Val(o)] \in Values
               /\ \/ new[Val(o)] = conf[Val(o)]
                  \/ \E k \in DOMAIN cmds :
                        SetOpt[cmds[k][1]] = o /\ cmds[k][2] = new[Val(o)]
    <3>1. new[Val(o)] = IF all[Val(o)] # None THEN all[Val(o)] ELSE conf[Val(o)]
      BY <1>a, Items
    <3>2. CASE all[Val(o)] = delta[Val(o)]
      BY <3>1, <3>2 DEF Uci
    <3>3. ASSUME NEW k \in DOMAIN cmds, SetOpt[cmds[k][1]] = o,
                 cmds[k][2] = all[Val(o)]
          PROVE  new[Val(o)] = cmds[k][2] /\ cmds[k][2] \in Values
      BY <1>d, <3>1, <3>3, Items
    <3> QED
      BY <2>1, <3>2, <3>1, <3>3 DEF Uci
  <2> QED
    BY <2>2, <2>3
<1>1. Uci'
  <2>1. new \in [Item -> Values \cup Notifs]
    BY <1>a, <1>e, Items
  <2>2. delta' = [i \in Item |-> None]
    BY <1>b DEF NoDelta
  <2> QED
    BY <1>b, <1>e, <2>1, <2>2, Items DEF Uci
<1>2. RequestOK'
  BY <1>b DEF RequestOK
<1>3. FilesOK'
  <2>1. base' \in [Params -> Values \cup {None}]
    <3>1. \A p \in Params : new[Val(GetOpt[p])] \in Values
      BY <1>e, Items
    <3> QED
      BY <1>b, <3>1 DEF BaseAfter, FilesOK
  <2>2. swallowed' \subseteq Params
    BY <1>b DEF FilesOK
  <2> QED
    BY <1>b, <1>c, <2>1, <2>2, EmptySeq DEF FilesOK, Modes
<1>4. Unrefused'
  BY <1>b DEF Unrefused
<1>5. Listed'
  BY <1>b DEF Listed, Talking
<1>6. Tracked'
  <2>1. ASSUME NEW p \in Params, p \notin swallowed'
        PROVE  base'[p] \in {None, Known(p)'} \/ p \in Unheard'
    <3>1. CASE base'[p] = base[p]
      BY <1>b, <2>1, <3>1 DEF Tracked, Known, Unheard
    <3>2. CASE base'[p] # base[p]
      <4>1. p \in DOMAIN req.want /\ req.kind # "attr"
        BY <1>b, <2>1, <3>2 DEF BaseAfter
      <4>2. req.kind = "value"
        BY <4>1 DEF RequestOK, Kinds, NoReq
      <4> QED
        BY <1>b, <4>1, <4>2 DEF Unheard
    <3> QED
      BY <3>1, <3>2
  <2> QED
    BY <1>b, <2>1 DEF Tracked
<1>7. RefusedNotApplied'
  <2>1. ASSUME NEW r \in refused'
        PROVE  View(Val(r[1]))' # r[2]
    <3>1. r \in refused /\ r[1] \in Options /\ r = <<r[1], r[2]>>
      BY <1>b, RefusedType
    <3>2. View(Val(r[1]))' = new[Val(r[1])] /\ View(Val(r[1])) = conf[Val(r[1])]
      BY <1>1, <1>b, <3>1, ViewCommitted
    <3>3. CASE new[Val(r[1])] = conf[Val(r[1])]
      BY <3>1, <3>2, <3>3 DEF RefusedNotApplied
    <3>4. ASSUME NEW k \in DOMAIN cmds, SetOpt[cmds[k][1]] = r[1],
                 cmds[k][2] = new[Val(r[1])]
          PROVE  new[Val(r[1])] # r[2]
      BY <3>1, <3>4 DEF Unrefused
    <3> QED
      BY <1>e, <3>1, <3>2, <3>3, <3>4
  <2> QED
    BY <2>1 DEF RefusedNotApplied
<1>8. NothingLeftOver'
  BY <1>1, <1>b DEF NothingLeftOver, Uci
<1> QED
  BY <1>1, <1>2, <1>3, <1>4, <1>5, <1>6, <1>7, <1>8

\* The router as its ACS has set it up.
LEMMA DataInit == Init => DataInv
<1> SUFFICES ASSUME Init PROVE DataInv
  OBVIOUS
<1>1. PICK v \in [Options -> Values], n \in [Params -> Notifs] :
         /\ conf = [i \in Item |-> IF i[1] = "value" THEN v[i[2]] ELSE n[i[2]]]
         /\ told = [p \in Params |-> v[GetOpt[p]]]
  BY DEF Init
<1>2. /\ \A o \in Options : conf[Val(o)] = v[o]
      /\ \A p \in Params : conf[Attr(p)] = n[p]
  BY <1>1, Items DEF Val, Attr
<1>3. Uci
  <2>1. conf \in [Item -> Values \cup Notifs]
    <3>1. \A i \in Item : conf[i] \in Values \cup Notifs
      BY <1>2, Items
    <3> QED
      BY <1>1, <3>1
  <2> QED
    BY <1>2, <2>1, Items DEF Init, Uci, NoDelta
<1>4. RequestOK
  BY NoRequest DEF Init, RequestOK
<1>5. FilesOK
  BY <1>1, Items, EmptySeq DEF Init, FilesOK, Modes
<1>6. Unrefused /\ Listed /\ RefusedNotApplied
  BY DEF Init, Unrefused, Listed, Talking, RefusedNotApplied
<1>7. Tracked
  BY DEF Init, Tracked
<1>8. NothingLeftOver
  BY <1>3 DEF Init, NothingLeftOver, Uci
<1> QED
  BY <1>3, <1>4, <1>5, <1>6, <1>7, <1>8 DEF DataInv

LEMMA DataNext == DataInv /\ [Next]_vars => DataInv'
<1> SUFFICES ASSUME DataInv, [Next]_vars PROVE DataInv'
  OBVIOUS
<1>1. CASE UNCHANGED vars
  BY <1>1 DEF vars, DataInv, Uci, RequestOK, FilesOK, Unrefused,
     Listed, Tracked, Known, Unheard, View, Seen, RefusedNotApplied, NothingLeftOver
<1>2. ASSUME NEW want \in Wants(Values), Request("value", want) PROVE DataInv'
  BY <1>2, RequestKeeps
<1>3. ASSUME NEW want \in Wants(Notifs), Request("attr", want) PROVE DataInv'
  BY <1>3, RequestKeeps
<1>4. ASSUME NEW n \in Names, SetValue(n) \/ SetAttribute(n) PROVE DataInv'
  BY <1>4, SetValueKeeps, SetAttributeKeeps
<1>5. CASE \E o \in Options, v \in Values : LocalChange(o, v)
  BY <1>5, LocalChangeKeeps
<1> QED
  BY <1>1, <1>2, <1>3, <1>4, <1>5, StartKeeps, NotifyKeeps, NotifyUpdateKeeps,
     SessionOpenKeeps, SessionCloseKeeps, ApplyFaultKeeps, ApplyRevertKeeps,
     ApplyCommitKeeps, AnswerKeeps, AnswerLostKeeps, CrashKeeps, RebootKeeps
  DEF Next

-----------------------------------------------------------------------------

\* The inductive invariant holds in every state.
LEMMA DataInvariant == Spec => []DataInv
<1>1. Init => DataInv
  BY DataInit
<1>2. DataInv /\ [Next]_vars => DataInv'
  BY DataNext
<1> QED
  BY <1>1, <1>2, PTL DEF Spec

\* uci, the files and the lists keep their types: no command is written for a
\* name the data model does not have (set_value).
THEOREM DataTypeCorrect == Spec => []DataTypeOK
<1>1. DataInv => DataTypeOK
  BY DEF DataInv, Uci, RequestOK, FilesOK, DataTypeOK
<1> QED
  BY <1>1, DataInvariant, PTL

\* A change the next notify will not find has been told, is on the list, or is
\* the ACS's own, unless the baseline was moved without a comparison, also by a
\* set command that did not set what its get command reads
\* (check_value_change, update_value_change, apply_value).
THEOREM ChangesNeverLost == Spec => []NoChangeLost
<1>1. ASSUME DataInv
      PROVE  NoChangeLost
  <2>1. \A p \in Params : Seen(p) # None
    BY <1>1, ViewCommitted, Items DEF DataInv, Uci
  <2> QED
    BY <1>1, <2>1 DEF DataInv, Tracked, NoChangeLost
<1> QED
  BY <1>1, DataInvariant, PTL

\* A value the ACS was refused is not set by this or any later request
\* (apply with a fault in the file, UCI_REVERT).
THEOREM RefusalsHold == Spec => []RefusedNotApplied
<1>1. DataInv => RefusedNotApplied
  BY DEF DataInv
<1> QED
  BY <1>1, DataInvariant, PTL

\* Between requests nothing waits to be applied by the next one, but what a
\* daemon that died left behind.
THEOREM NothingWaits == Spec => []NothingLeftOver
<1>1. DataInv => NothingLeftOver
  BY DEF DataInv
<1> QED
  BY <1>1, DataInvariant, PTL

====
