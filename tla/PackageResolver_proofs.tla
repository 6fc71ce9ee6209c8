------------------------ MODULE PackageResolver_proofs ------------------------
(***************************************************************************)
(* Proofs about PackageResolver for any number of packages, any            *)
(* descriptions and any configuration.  The inductive invariant speaks of  *)
(* the names still pending in the calls under way: every name that the     *)
(* selected packages mention is pending or met, and every set closed under *)
(* the relations holds all that is selected or pending.                    *)
(***************************************************************************)
EXTENDS PackageResolver, TLAPS

PendingIn(c, n) == \E i \in 1..Len(c) : n \in c[i].optional \cup c[i].must
MustIn(c, n) == \E i \in 1..Len(c) : n \in c[i].must

Met(n) == Provider(n) \in Selected /\ require[n] \in {None, wanted[Provider(n)]}

BeforeTheWalk ==
  outcome = "describing" =>
    asked = {} /\ selected = <<>> /\ calls = <<>> /\ \A p \in Pkg : wanted[p] = None

AllMet ==
  \A n \in Mentioned(Selected) : PendingIn(calls, n) \/ Provider(n) = None \/ Met(n)

DemandsMet ==
  \A n \in Demanded(Selected) : MustIn(calls, n) \/ Provider(n) # None

NothingUnasked ==
  \A S \in SUBSET Pkg : Closed(S) =>
    /\ Selected \subseteq S
    /\ \A n \in Name : PendingIn(calls, n) => n \in Mentioned(S)
    /\ \A n \in Name : MustIn(calls, n) => n \in Demanded(S)

RequirementsFound ==
  \A p \in Pkg : wanted[p] # None =>
    \A S \in SUBSET Pkg : Closed(S) =>
      \E n \in Mentioned(S) : Provider(n) = p /\ require[n] = wanted[p]

SelectedOnce ==
  \A i, j \in 1..Len(selected) : selected[i] = selected[j] => i = j

AcceptedIsSound == outcome = "resolved" => ~ Conflicting /\ ~ Unsupported

IInv ==
  /\ TypeOK
  /\ BeforeTheWalk
  /\ AllMet
  /\ DemandsMet
  /\ NothingUnasked
  /\ RequirementsFound
  /\ SelectedOnce
  /\ AcceptedIsSound
  /\ RefusalIsJustified

-----------------------------------------------------------------------------
LEMMA ProviderFound ==
  ASSUME NEW n \in Name
  PROVE  Provider(n) \in Pkg \cup {None}
BY DEF Provider, First

-----------------------------------------------------------------------------
\* What the names of a call stack are after a frame is pushed or popped.
LEMMA PushedNames ==
  ASSUME NEW c \in Seq(Frame), NEW f \in Frame
  PROVE  /\ Append(c, f) \in Seq(Frame)
         /\ Append(c, f) # <<>>
         /\ \A n \in Name : PendingIn(Append(c, f), n) <=> PendingIn(c, n) \/ n \in f.optional \cup f.must
         /\ \A n \in Name : MustIn(Append(c, f), n) <=> MustIn(c, n) \/ n \in f.must
<1> DEFINE d == Append(c, f)
<1>1. d \in Seq(Frame) /\ Len(d) = Len(c) + 1 /\ d # <<>> /\ Len(c) \in Nat
  OBVIOUS
<1>2. d[Len(c) + 1] = f /\ \A i \in 1..Len(c) : d[i] = c[i]
  OBVIOUS
<1>3. 1..Len(d) = (1..Len(c)) \cup {Len(c) + 1}
  BY <1>1
<1> HIDE DEF d
<1>4. ASSUME NEW n \in Name
      PROVE  /\ PendingIn(d, n) <=> PendingIn(c, n) \/ n \in f.optional \cup f.must
             /\ MustIn(d, n) <=> MustIn(c, n) \/ n \in f.must
  BY <1>2, <1>3 DEF PendingIn, MustIn
<1>5. QED
  BY <1>1, <1>4 DEF d

\* All but the last element of a sequence.
LEMMA FrontIs ==
  ASSUME NEW S, NEW s \in Seq(S), NEW l \in Nat, Len(s) = l + 1
  PROVE  /\ SubSeq(s, 1, l) \in Seq(S)
         /\ Len(SubSeq(s, 1, l)) = l
         /\ \A i \in 1..l : SubSeq(s, 1, l)[i] = s[i]
OBVIOUS

LEMMA PoppedNames ==
  ASSUME TypeOK, Walking, Top = [optional |-> {}, must |-> {}]
  PROVE  LET c == SubSeq(calls, 1, Len(calls) - 1)
         IN  /\ c \in Seq(Frame)
             /\ c = <<>> <=> Len(calls) = 1
             /\ \A n \in Name : PendingIn(c, n) <=> PendingIn(calls, n)
             /\ \A n \in Name : MustIn(c, n) <=> MustIn(calls, n)
<1> DEFINE c == SubSeq(calls, 1, Len(calls) - 1)
<1>1. calls \in Seq(Frame) /\ calls # <<>> /\ Len(calls) \in Nat \ {0}
  BY DEF TypeOK, Walking
<1>2. c \in Seq(Frame) /\ Len(c) = Len(calls) - 1 /\ \A i \in 1..Len(c) : c[i] = calls[i]
  <2> DEFINE l == Len(calls) - 1
  <2>1. l \in Nat /\ Len(calls) = l + 1
    BY <1>1
  <2> HIDE DEF l
  <2>2. /\ SubSeq(calls, 1, l) \in Seq(Frame) /\ Len(SubSeq(calls, 1, l)) = l
        /\ \A i \in 1..l : SubSeq(calls, 1, l)[i] = calls[i]
    BY <1>1, <2>1, FrontIs
  <2>3. QED
    BY <2>2 DEF l
<1>3. c = <<>> <=> Len(calls) = 1
  <2>1. \A d \in Seq(Frame) : d = <<>> <=> Len(d) = 0
    OBVIOUS
  <2> HIDE DEF c
  <2>2. QED
    BY <1>1, <1>2, <2>1
<1>4. 1..Len(calls) = (1..Len(c)) \cup {Len(calls)}
  BY <1>1, <1>2
<1>5. calls[Len(calls)].optional = {} /\ calls[Len(calls)].must = {}
  BY DEF Top
<1> HIDE DEF c
<1>6. \A n \in Name : /\ PendingIn(c, n) <=> PendingIn(calls, n)
                      /\ MustIn(c, n) <=> MustIn(calls, n)
  BY <1>2, <1>4, <1>5 DEF PendingIn, MustIn
<1>7. QED
  BY <1>2, <1>3, <1>6 DEF c

\* Taking the next name out of the innermost call loses no other name.
LEMMA TakenNames ==
  ASSUME TypeOK, Walking, NEW n \in Name, IsNext(n)
  PROVE  LET c == [calls EXCEPT ![Len(calls)] = Remaining(n)]
         IN  /\ c \in Seq(Frame)
             /\ c # <<>>
             /\ PendingIn(calls, n)
             /\ Top.optional = {} => MustIn(calls, n)
             /\ \A m \in Name : /\ PendingIn(c, m) => PendingIn(calls, m)
                                /\ MustIn(c, m) => MustIn(calls, m)
                                /\ m # n => (PendingIn(calls, m) => PendingIn(c, m))
                                /\ m # n \/ Top.optional # {} => (MustIn(calls, m) => MustIn(c, m))
<1> DEFINE l == Len(calls)
           c == [calls EXCEPT ![l] = Remaining(n)]
<1>1. calls \in Seq(Frame) /\ l \in Nat \ {0} /\ l \in 1..l
  BY DEF TypeOK, Walking
<1>2. Top \in Frame /\ Top = calls[l]
  BY <1>1 DEF Top
<1>3. /\ Remaining(n) \in Frame
      /\ Remaining(n).optional \subseteq Top.optional
      /\ Remaining(n).must \subseteq Top.must
      /\ Top.optional \cup Top.must \subseteq Remaining(n).optional \cup Remaining(n).must \cup {n}
      /\ Top.must \subseteq Remaining(n).must \cup {n}
      /\ Top.optional # {} => Remaining(n).must = Top.must
  BY <1>2 DEF Remaining, Frame
<1>4. c \in Seq(Frame) /\ Len(c) = l /\ c[l] = Remaining(n) /\ \A i \in 1..l : i # l => c[i] = calls[i]
  BY <1>1, <1>3
<1>5. n \in Top.optional \cup Top.must /\ (Top.optional = {} => n \in Top.must)
  BY DEF IsNext
<1>6. c # <<>>
  BY <1>1, <1>4
<1> HIDE DEF l, c
<1>7. PendingIn(calls, n) /\ (Top.optional = {} => MustIn(calls, n))
  BY <1>1, <1>2, <1>5 DEF PendingIn, MustIn, l
<1>8. ASSUME NEW m \in Name
      PROVE  /\ PendingIn(c, m) => PendingIn(calls, m)
             /\ MustIn(c, m) => MustIn(calls, m)
             /\ m # n => (PendingIn(calls, m) => PendingIn(c, m))
             /\ m # n \/ Top.optional # {} => (MustIn(calls, m) => MustIn(c, m))
  <2>1. Len(calls) = l
    BY DEF l
  <2>2. PendingIn(c, m) => PendingIn(calls, m)
    BY <1>1, <1>2, <1>3, <1>4, <2>1 DEF PendingIn
  <2>3. MustIn(c, m) => MustIn(calls, m)
    BY <1>1, <1>2, <1>3, <1>4, <2>1 DEF MustIn
  <2>4. m # n => (PendingIn(calls, m) => PendingIn(c, m))
    BY <1>1, <1>2, <1>3, <1>4, <2>1 DEF PendingIn
  <2>5. m # n \/ Top.optional # {} => (MustIn(calls, m) => MustIn(c, m))
    BY <1>1, <1>2, <1>3, <1>4, <2>1 DEF MustIn
  <2>6. QED
    BY <2>2, <2>3, <2>4, <2>5
<1>9. QED
  BY <1>4, <1>6, <1>7, <1>8 DEF c, l

-----------------------------------------------------------------------------
\* What including a name does to the recorded requirements.
LEMMA RecordedIs ==
  ASSUME TypeOK, NEW n \in Name, NEW p \in Pkg, ~ Clashes(n, p)
  PROVE  /\ Recorded(n, p) \in [Pkg -> Maybe(Version)]
         /\ require[n] \in {None, Recorded(n, p)[p]}
         /\ \A q \in Pkg : /\ wanted[q] # None => Recorded(n, p)[q] = wanted[q]
                           /\ Recorded(n, p)[q] # wanted[q] => q = p /\ require[n] = Recorded(n, p)[q]
BY DEF TypeOK, Clashes, Recorded, Maybe

\* The walk does not change what names mean and who mentions them.
LEMMA SameRelations ==
  ASSUME UNCHANGED <<descriptions, asked>>
  PROVE  /\ \A n \in Name : Provider(n)' = Provider(n)
         /\ \A S : Mentioned(S)' = Mentioned(S) /\ Demanded(S)' = Demanded(S)
         /\ \A S \in SUBSET Pkg : Closed(S)' <=> Closed(S)
<1>1. provides' = provides /\ needs' = needs /\ selects' = selects /\ asked' = asked
  BY DEF descriptions
<1>2. \A n : Provider(n)' = Provider(n)
  BY <1>1 DEF Provider, First
<1>3. \A S : Mentioned(S)' = Mentioned(S) /\ Demanded(S)' = Demanded(S)
  BY <1>1 DEF Mentioned, Demanded
<1>4. \A S \in SUBSET Pkg : Closed(S)' <=> Closed(S)
  BY <1>2, <1>3 DEF Closed
<1>5. QED
  BY <1>2, <1>3, <1>4

LEMMA NamesMentioned ==
  ASSUME TypeOK, NEW S \in SUBSET Pkg
  PROVE  Mentioned(S) \subseteq Name /\ Demanded(S) \subseteq Mentioned(S)
BY DEF TypeOK, Mentioned, Demanded

\* Before the walk there is nothing to say.
LEMMA Fresh == TypeOK /\ BeforeTheWalk /\ outcome = "describing" => IInv
<1> SUFFICES ASSUME TypeOK, BeforeTheWalk, outcome = "describing" PROVE IInv
  OBVIOUS
<1>1. asked = {} /\ selected = <<>> /\ calls = <<>> /\ \A p \in Pkg : wanted[p] = None
  BY DEF BeforeTheWalk
<1>2. Selected = {}
  BY <1>1 DEF Selected
<1>3. \A n : ~ PendingIn(calls, n) /\ ~ MustIn(calls, n)
  BY <1>1 DEF PendingIn, MustIn
<1>4. Mentioned(Selected) = {} /\ Demanded(Selected) = {}
  BY <1>1, <1>2 DEF Mentioned, Demanded
<1>5. AllMet /\ DemandsMet /\ NothingUnasked
  BY <1>2, <1>3, <1>4 DEF AllMet, DemandsMet, NothingUnasked
<1>6. RequirementsFound /\ SelectedOnce
  BY <1>1 DEF RequirementsFound, SelectedOnce
<1>7. QED
  BY <1>5, <1>6 DEF IInv, AcceptedIsSound, RefusalIsJustified

LEMMA Starts == Init => IInv
<1> SUFFICES ASSUME Init PROVE TypeOK /\ BeforeTheWalk /\ outcome = "describing"
  BY Fresh
<1>1. TypeOK
  BY NAssumption, RequestAssumption DEF Init, TypeOK, Maybe
<1>2. BeforeTheWalk /\ outcome = "describing"
  BY DEF Init, BeforeTheWalk
<1>3. QED
  BY <1>1, <1>2

LEMMA DescribeKeeps ==
  ASSUME IInv, (\E p \in Pkg : Describe(p)) \/ Configure
  PROVE  IInv'
<1>1. TypeOK /\ outcome = "describing" /\ BeforeTheWalk
  BY DEF IInv, Describe, Configure, Describing
<1>2. (outcome = "describing")' /\ BeforeTheWalk'
  BY <1>1 DEF Describe, Configure, Describing, walk, BeforeTheWalk
<1>3. TypeOK'
  <2>1. facts' \in 0..MaxFacts
    BY <1>1, NAssumption DEF TypeOK, Describe, Configure, Describing
  <2>2. ASSUME NEW p \in Pkg, Describe(p) PROVE TypeOK'
    BY <1>1, <2>1, <2>2 DEF TypeOK, Describe, Describing, walk, configuration, Name
  <2>3. CASE Configure
    BY <1>1, <2>1, <2>3 DEF TypeOK, Configure, Describing, walk, descriptions, Maybe
  <2>4. QED
    BY <2>2, <2>3
<1>4. QED
  BY <1>2, <1>3, Fresh, PTL

LEMMA RequestKeeps ==
  ASSUME IInv, NEW names \in Requests, Request(names)
  PROVE  IInv'
<1>1. TypeOK /\ BeforeTheWalk /\ names \in SUBSET Name
  BY RequestAssumption DEF IInv
<1>2. /\ asked' = names /\ calls' = <<[optional |-> {}, must |-> names]>>
      /\ outcome' = "walking" /\ selected' = <<>> /\ \A p \in Pkg : wanted'[p] = None
  BY <1>1 DEF Request, BeforeTheWalk
<1>3. TypeOK'
  BY <1>1, <1>2 DEF TypeOK, Request, descriptions, configuration, Frame
<1>4. \A n : /\ PendingIn(calls, n)' <=> n \in names
             /\ MustIn(calls, n)' <=> n \in names
  BY <1>2 DEF PendingIn, MustIn
<1>5. Selected' = {}
  BY <1>2 DEF Selected
<1>6. Mentioned(Selected)' = names /\ Demanded(Selected)' = names
  BY <1>2, <1>5 DEF Mentioned, Demanded
<1>7. \A S : names \subseteq Mentioned(S)' /\ names \subseteq Demanded(S)'
  BY <1>2 DEF Mentioned, Demanded
<1>8. AllMet' /\ DemandsMet' /\ NothingUnasked'
  BY <1>4, <1>5, <1>6, <1>7 DEF AllMet, DemandsMet, NothingUnasked
<1>9. RequirementsFound' /\ SelectedOnce' /\ AcceptedIsSound' /\ RefusalIsJustified' /\ BeforeTheWalk'
  BY <1>2 DEF RequirementsFound, SelectedOnce, AcceptedIsSound, RefusalIsJustified, BeforeTheWalk
<1>10. QED
  BY <1>3, <1>8, <1>9 DEF IInv

\* Steps that change neither the selection nor the recorded requirements and
\* leave pending all names that are not met.
LEMMA SameSelection ==
  ASSUME IInv, UNCHANGED <<descriptions, require, asked, selected, wanted>>,
         TypeOK', outcome' # "describing",
         \A n \in Name : /\ PendingIn(calls, n)' => PendingIn(calls, n)
                         /\ MustIn(calls, n)' => MustIn(calls, n)
                         /\ PendingIn(calls, n) => PendingIn(calls, n)' \/ Provider(n) = None
                         /\ MustIn(calls, n) => MustIn(calls, n)'
  PROVE  BeforeTheWalk' /\ AllMet' /\ DemandsMet' /\ NothingUnasked' /\ RequirementsFound' /\ SelectedOnce'
<1>1. TypeOK /\ AllMet /\ DemandsMet /\ NothingUnasked /\ RequirementsFound /\ SelectedOnce
  BY DEF IInv
<1>2. Selected' = Selected /\ Selected \in SUBSET Pkg
  BY <1>1 DEF Selected, TypeOK
<1>3. /\ \A n \in Name : Provider(n)' = Provider(n)
      /\ \A S : Mentioned(S)' = Mentioned(S) /\ Demanded(S)' = Demanded(S)
      /\ \A S \in SUBSET Pkg : Closed(S)' <=> Closed(S)
  BY SameRelations
<1>4. \A S \in SUBSET Pkg : Mentioned(S) \subseteq Name /\ Demanded(S) \subseteq Name
  BY <1>1, NamesMentioned
<1>5. /\ Mentioned(Selected)' = Mentioned(Selected) /\ Mentioned(Selected) \subseteq Name
      /\ Demanded(Selected)' = Demanded(Selected) /\ Demanded(Selected) \subseteq Name
  BY <1>2, <1>4 DEF Mentioned, Demanded, descriptions
<1>6. \A n \in Name : Met(n)' <=> Met(n)
  BY <1>2, <1>3 DEF Met
<1>7. AllMet'
  BY <1>1, <1>3, <1>5, <1>6 DEF AllMet
<1>8. DemandsMet'
  BY <1>1, <1>3, <1>5 DEF DemandsMet
<1>9. NothingUnasked'
  BY <1>1, <1>2, <1>3 DEF NothingUnasked
<1>10. RequirementsFound'
  BY <1>1, <1>3, <1>4 DEF RequirementsFound
<1>11. QED
  BY <1>1, <1>7, <1>8, <1>9, <1>10 DEF BeforeTheWalk, SelectedOnce

LEMMA PassUnknownKeeps ==
  ASSUME IInv, NEW n \in Name, PassUnknown(n)
  PROVE  IInv'
<1>1. TypeOK /\ Walking /\ IsNext(n) /\ Provider(n) = None /\ Top.optional # {}
  BY DEF IInv, PassUnknown
<1>2. calls' = [calls EXCEPT ![Len(calls)] = Remaining(n)] /\ outcome = "walking" /\ outcome' = "walking"
  BY DEF PassUnknown, Walking
<1>3. UNCHANGED <<descriptions, configuration, asked, selected, wanted, facts>>
  BY DEF PassUnknown
<1>4. /\ calls' \in Seq(Frame) /\ calls' # <<>>
      /\ \A m \in Name : /\ PendingIn(calls', m) => PendingIn(calls, m)
                         /\ MustIn(calls', m) => MustIn(calls, m)
                         /\ m # n => (PendingIn(calls, m) => PendingIn(calls', m))
                         /\ MustIn(calls, m) => MustIn(calls', m)
  BY <1>1, <1>2, TakenNames
<1>5. TypeOK'
  BY <1>1, <1>2, <1>3, <1>4 DEF TypeOK, descriptions, configuration
<1>6. \A m \in Name : /\ PendingIn(calls, m)' => PendingIn(calls, m)
                      /\ MustIn(calls, m)' => MustIn(calls, m)
                      /\ PendingIn(calls, m) => PendingIn(calls, m)' \/ Provider(m) = None
                      /\ MustIn(calls, m) => MustIn(calls, m)'
  BY <1>1, <1>4 DEF PendingIn, MustIn
<1>7. AcceptedIsSound' /\ RefusalIsJustified'
  BY <1>2 DEF AcceptedIsSound, RefusalIsJustified
<1>8. UNCHANGED <<descriptions, require, asked, selected, wanted>> /\ outcome' # "describing"
  BY <1>2, <1>3 DEF configuration
<1>9. QED
  BY <1>5, <1>6, <1>7, <1>8, SameSelection DEF IInv

LEMMA ReturnKeeps ==
  ASSUME IInv, Return
  PROVE  IInv'
<1>1. TypeOK /\ Walking /\ Top = [optional |-> {}, must |-> {}]
  BY DEF IInv, Return
<1>2. /\ calls' = SubSeq(calls, 1, Len(calls) - 1)
      /\ outcome = "walking" /\ outcome' = IF Len(calls) = 1 THEN "walked" ELSE "walking"
  BY DEF Return, Walking
<1>3. UNCHANGED <<descriptions, configuration, asked, selected, wanted, facts>>
  BY DEF Return
<1>4. /\ calls' \in Seq(Frame) /\ (calls' = <<>> <=> Len(calls) = 1)
      /\ \A m \in Name : /\ PendingIn(calls', m) <=> PendingIn(calls, m)
                         /\ MustIn(calls', m) <=> MustIn(calls, m)
  BY <1>1, <1>2, PoppedNames
<1>5. TypeOK'
  BY <1>1, <1>2, <1>3, <1>4 DEF TypeOK, descriptions, configuration
<1>6. \A m \in Name : /\ PendingIn(calls, m)' => PendingIn(calls, m)
                      /\ MustIn(calls, m)' => MustIn(calls, m)
                      /\ PendingIn(calls, m) => PendingIn(calls, m)' \/ Provider(m) = None
                      /\ MustIn(calls, m) => MustIn(calls, m)'
  BY <1>4 DEF PendingIn, MustIn
<1>7. AcceptedIsSound' /\ RefusalIsJustified'
  BY <1>2 DEF AcceptedIsSound, RefusalIsJustified
<1>8. UNCHANGED <<descriptions, require, asked, selected, wanted>> /\ outcome' # "describing"
  BY <1>2, <1>3 DEF configuration
<1>9. QED
  BY <1>5, <1>6, <1>7, <1>8, SameSelection DEF IInv

\* Refusals, and acceptance, change the outcome only.
LEMMA EndKeeps ==
  ASSUME IInv, NEW why \in Refusals \cup {"resolved"}, Refuse(why),
         calls = <<>> <=> why \notin {"notfound", "requirement"},
         AcceptedIsSound', RefusalIsJustified'
  PROVE  IInv'
<1>1. TypeOK
  BY DEF IInv
<1>2. outcome' = why /\ UNCHANGED <<descriptions, configuration, asked, calls, selected, wanted, facts>>
  BY DEF Refuse
<1>3. TypeOK'
  BY <1>1, <1>2 DEF TypeOK, descriptions, configuration, Refusals
<1>4. \A m \in Name : /\ PendingIn(calls, m)' <=> PendingIn(calls, m)
                      /\ MustIn(calls, m)' <=> MustIn(calls, m)
  BY <1>2 DEF PendingIn, MustIn
<1>5. UNCHANGED <<descriptions, require, asked, selected, wanted>> /\ outcome' # "describing"
  BY <1>2 DEF configuration, Refusals
<1>6. QED
  BY <1>3, <1>4, <1>5, SameSelection DEF IInv

LEMMA RefuseUnknownKeeps ==
  ASSUME IInv, NEW n \in Name, RefuseUnknown(n)
  PROVE  IInv'
<1>1. TypeOK /\ NothingUnasked /\ Walking /\ IsNext(n) /\ Provider(n) = None /\ Top.optional = {}
  BY DEF IInv, RefuseUnknown
<1>2. Refuse("notfound") /\ outcome' = "notfound" /\ UNCHANGED <<descriptions, asked>> /\ calls # <<>>
  BY DEF RefuseUnknown, Refuse, Walking
<1>3. MustIn(calls, n)
  BY <1>1, TakenNames
<1>4. ASSUME NEW S \in SUBSET Pkg, Closed(S)'
      PROVE  n \in Demanded(S)' /\ Provider(n)' = None
  BY <1>1, <1>2, <1>3, <1>4, SameRelations DEF NothingUnasked
<1>5. RefusalIsJustified' /\ AcceptedIsSound'
  BY <1>2, <1>4 DEF RefusalIsJustified, AcceptedIsSound
<1>6. QED
  BY <1>2, <1>5, EndKeeps DEF Refusals

LEMMA RefuseRequirementKeeps ==
  ASSUME IInv, NEW n \in Name, RefuseRequirement(n)
  PROVE  IInv'
<1> DEFINE p == Provider(n)
<1>1. TypeOK /\ NothingUnasked /\ RequirementsFound /\ Walking /\ IsNext(n) /\ p # None /\ Clashes(n, p)
  BY DEF IInv, RefuseRequirement
<1>2. /\ Refuse("requirement") /\ outcome' = "requirement" /\ calls # <<>>
      /\ UNCHANGED <<descriptions, asked>> /\ require' = require
  BY DEF RefuseRequirement, Refuse, Walking, configuration
<1>3. PendingIn(calls, n)
  BY <1>1, TakenNames
<1>4. p \in Pkg
  BY <1>1, ProviderFound
<1>5. require[n] # None /\ wanted[p] # None /\ wanted[p] # require[n]
  BY <1>1 DEF Clashes
<1> HIDE DEF p
<1>6. ASSUME NEW S \in SUBSET Pkg, Closed(S)'
      PROVE  \E m, k \in Mentioned(S)' :
               /\ Provider(m)' = Provider(k)' /\ Provider(k)' # None
               /\ require'[m] # None /\ require'[k] # None /\ require'[m] # require'[k]
  <2>1. Closed(S) /\ Mentioned(S)' = Mentioned(S) /\ \A m \in Name : Provider(m)' = Provider(m)
    BY <1>2, <1>6, SameRelations
  <2>2. n \in Mentioned(S) /\ Mentioned(S) \subseteq Name
    BY <1>1, <1>3, <2>1, NamesMentioned DEF NothingUnasked
  <2>3. PICK m \in Mentioned(S) : Provider(m) = p /\ require[m] = wanted[p]
    BY <1>1, <1>4, <1>5, <2>1 DEF RequirementsFound
  <2>4. Provider(n) = p /\ p # None
    BY <1>1 DEF p
  <2>5. QED
    BY <1>2, <1>5, <2>1, <2>2, <2>3, <2>4
<1>7. RefusalIsJustified' /\ AcceptedIsSound'
  BY <1>2, <1>6 DEF RefusalIsJustified, AcceptedIsSound
<1>8. QED
  BY <1>2, <1>7, EndKeeps DEF Refusals

LEMMA CheckKeeps ==
  ASSUME IInv, RefuseConflict \/ RefuseSettings \/ Accept
  PROVE  IInv'
<1>1. TypeOK /\ outcome = "walked" /\ calls = <<>>
  BY DEF IInv, TypeOK, RefuseConflict, RefuseSettings, Accept
<1>2. CASE RefuseConflict
  BY <1>1, <1>2, EndKeeps DEF RefuseConflict, Refuse, Refusals, AcceptedIsSound, RefusalIsJustified
<1>3. CASE RefuseSettings
  BY <1>1, <1>3, EndKeeps DEF RefuseSettings, Refuse, Refusals, AcceptedIsSound, RefusalIsJustified
<1>4. CASE Accept
  <2>1. Refuse("resolved") /\ ~ Conflicting /\ ~ Unsupported
    BY <1>4 DEF Accept
  <2>2. /\ UNCHANGED <<conflicts, selected, illegal, wanted, pin>> /\ outcome' = "resolved"
    BY <2>1 DEF Refuse, descriptions, configuration
  <2>3. ~ Conflicting' /\ ~ Unsupported'
    BY <2>1, <2>2 DEF Conflicting, Unsupported, Selected, VersionAccepted, VersionOf
  <2>4. AcceptedIsSound' /\ RefusalIsJustified'
    BY <2>2, <2>3 DEF AcceptedIsSound, RefusalIsJustified
  <2>5. QED
    BY <1>1, <2>1, <2>4, EndKeeps
<1>5. QED
  BY <1>2, <1>3, <1>4

LEMMA RevisitKeeps ==
  ASSUME IInv, NEW n \in Name, Revisit(n)
  PROVE  IInv'
<1> DEFINE p == Provider(n)
<1>1. /\ TypeOK /\ AllMet /\ DemandsMet /\ NothingUnasked /\ RequirementsFound /\ SelectedOnce
      /\ Walking /\ IsNext(n) /\ p \in Selected /\ ~ Clashes(n, p)
  BY DEF IInv, Revisit
<1>2. /\ calls' = [calls EXCEPT ![Len(calls)] = Remaining(n)] /\ wanted' = Recorded(n, p)
      /\ outcome = "walking" /\ outcome' = "walking"
      /\ UNCHANGED <<descriptions, configuration, asked, selected, facts>> /\ require' = require
  BY DEF Revisit, Walking, configuration
<1>3. /\ calls' \in Seq(Frame) /\ calls' # <<>> /\ PendingIn(calls, n)
      /\ \A m \in Name : /\ PendingIn(calls', m) => PendingIn(calls, m)
                         /\ MustIn(calls', m) => MustIn(calls, m)
                         /\ m # n => (PendingIn(calls, m) => PendingIn(calls', m))
                         /\ m # n => (MustIn(calls, m) => MustIn(calls', m))
  BY <1>1, <1>2, TakenNames
<1>4. Selected' = Selected /\ Selected \in SUBSET Pkg /\ p \in Pkg /\ p # None
  <2>1. Selected' = Selected /\ Selected \in SUBSET Pkg
    BY <1>1, <1>2 DEF Selected, TypeOK
  <2>2. QED
    BY <1>1, <2>1, NameAssumption DEF Name
<1>5. /\ wanted' \in [Pkg -> Maybe(Version)] /\ require[n] \in {None, wanted'[p]}
      /\ \A q \in Pkg : /\ wanted[q] # None => wanted'[q] = wanted[q]
                        /\ wanted'[q] # wanted[q] => q = p /\ require[n] = wanted'[q]
  BY <1>1, <1>2, <1>4, RecordedIs
<1>6. TypeOK'
  <2>1. \A q \in Pkg : wanted'[q] # None => \E i \in 1..Len(selected) : selected[i] = q
    BY <1>1, <1>5 DEF TypeOK, Selected
  <2>2. QED
    BY <1>1, <1>2, <1>3, <1>5, <2>1 DEF TypeOK, descriptions, configuration
<1>7. /\ \A m \in Name : Provider(m)' = Provider(m)
      /\ \A S : Mentioned(S)' = Mentioned(S) /\ Demanded(S)' = Demanded(S)
      /\ \A S \in SUBSET Pkg : Closed(S)' <=> Closed(S)
  BY <1>2, SameRelations
<1>8. \A S \in SUBSET Pkg : Mentioned(S) \subseteq Name /\ Demanded(S) \subseteq Name
  BY <1>1, NamesMentioned
<1>9. /\ Mentioned(Selected)' = Mentioned(Selected) /\ Mentioned(Selected) \subseteq Name
      /\ Demanded(Selected)' = Demanded(Selected) /\ Demanded(Selected) \subseteq Name
  BY <1>2, <1>4, <1>8 DEF Mentioned, Demanded, descriptions
<1>10. \A m \in Name : /\ PendingIn(calls, m)' <=> PendingIn(calls', m)
                       /\ MustIn(calls, m)' <=> MustIn(calls', m)
  BY DEF PendingIn, MustIn
<1>11. Provider(n) = p
  OBVIOUS
<1> HIDE DEF p
<1>12. Met(n)'
  BY <1>1, <1>2, <1>4, <1>5, <1>7, <1>11 DEF Met
<1>13. ASSUME NEW m \in Name, Met(m) PROVE Met(m)'
  <2>1. Provider(m) \in Pkg /\ Provider(m) \in Selected /\ require[m] \in {None, wanted[Provider(m)]}
    BY <1>4, <1>13 DEF Met
  <2>2. Provider(m)' \in Selected' /\ require'[m] = require[m]
    BY <1>2, <1>4, <1>7, <2>1
  <2>3. require[m] \in {None, wanted'[Provider(m)]}
    BY <1>5, <2>1
  <2>4. QED
    BY <1>7, <2>2, <2>3 DEF Met
<1>14. AllMet'
  BY <1>1, <1>3, <1>7, <1>9, <1>10, <1>12, <1>13 DEF AllMet
<1>15. DemandsMet'
  BY <1>1, <1>3, <1>4, <1>7, <1>9, <1>10, <1>11 DEF DemandsMet
<1>16. NothingUnasked'
  BY <1>1, <1>3, <1>4, <1>7, <1>10 DEF NothingUnasked
<1>17. RequirementsFound'
  <2> SUFFICES ASSUME NEW q \in Pkg, wanted'[q] # None, NEW S \in SUBSET Pkg, Closed(S)
               PROVE  \E m \in Mentioned(S) : Provider(m) = q /\ require[m] = wanted'[q]
    BY <1>2, <1>7, <1>8 DEF RequirementsFound
  <2>1. CASE wanted'[q] = wanted[q]
    BY <1>1, <2>1 DEF RequirementsFound
  <2>2. CASE wanted'[q] # wanted[q]
    <3>1. q = p /\ require[n] = wanted'[q]
      BY <1>5, <2>2
    <3>2. n \in Mentioned(S)
      BY <1>1, <1>3 DEF NothingUnasked
    <3>3. QED
      BY <1>11, <3>1, <3>2
  <2>3. QED
    BY <2>1, <2>2
<1>18. SelectedOnce' /\ AcceptedIsSound' /\ RefusalIsJustified' /\ BeforeTheWalk'
  BY <1>1, <1>2 DEF SelectedOnce, AcceptedIsSound, RefusalIsJustified, BeforeTheWalk
<1>19. QED
  BY <1>6, <1>14, <1>15, <1>16, <1>17, <1>18 DEF IInv

LEMMA IncludeKeeps ==
  ASSUME IInv, NEW n \in Name, Include(n)
  PROVE  IInv'
<1> DEFINE p == Provider(n)
           d == [calls EXCEPT ![Len(calls)] = Remaining(n)]
           call == [optional |-> needs[p], must |-> selects[p]]
<1>1. /\ TypeOK /\ AllMet /\ DemandsMet /\ NothingUnasked /\ RequirementsFound /\ SelectedOnce
      /\ Walking /\ IsNext(n) /\ p \notin Selected /\ p # None /\ ~ Clashes(n, p)
  BY DEF IInv, Include
<1>2. /\ calls' = Append(d, call) /\ wanted' = Recorded(n, p) /\ selected' = Append(selected, p)
      /\ outcome = "walking" /\ outcome' = "walking"
      /\ UNCHANGED <<descriptions, configuration, asked, facts>> /\ require' = require
  BY DEF Include, Walking, configuration
<1>3. p \in Pkg
  BY <1>1, ProviderFound
<1>4. call \in Frame
  BY <1>1, <1>3 DEF TypeOK, Frame
<1>5. /\ d \in Seq(Frame) /\ PendingIn(calls, n)
      /\ \A m \in Name : /\ PendingIn(d, m) => PendingIn(calls, m)
                         /\ MustIn(d, m) => MustIn(calls, m)
                         /\ m # n => (PendingIn(calls, m) => PendingIn(d, m))
                         /\ m # n => (MustIn(calls, m) => MustIn(d, m))
  BY <1>1, TakenNames
<1>6. call.optional \cup call.must = needs[p] \cup selects[p] /\ call.must = selects[p]
  OBVIOUS
<1> HIDE DEF d, call
<1>7. /\ calls' \in Seq(Frame) /\ calls' # <<>>
      /\ \A m \in Name : /\ PendingIn(calls', m) <=> PendingIn(d, m) \/ m \in needs[p] \cup selects[p]
                         /\ MustIn(calls', m) <=> MustIn(d, m) \/ m \in selects[p]
  BY <1>2, <1>4, <1>5, <1>6, PushedNames
<1>8. \A m \in Name : /\ PendingIn(calls, m)' <=> PendingIn(d, m) \/ m \in needs[p] \cup selects[p]
                      /\ MustIn(calls, m)' <=> MustIn(d, m) \/ m \in selects[p]
  BY <1>7 DEF PendingIn, MustIn
<1>9. Provider(n) = p
  OBVIOUS
<1> HIDE DEF p
<1>10. /\ selected' \in Seq(Pkg) /\ Len(selected') = Len(selected) + 1 /\ Len(selected) \in Nat
       /\ selected'[Len(selected) + 1] = p
       /\ \A i \in 1..Len(selected) : selected'[i] = selected[i]
  BY <1>1, <1>2, <1>3 DEF TypeOK
<1>11. 1..Len(selected') = (1..Len(selected)) \cup {Len(selected) + 1}
  BY <1>10
<1>12. Selected' = Selected \cup {p} /\ Selected \in SUBSET Pkg
  <2>1. Selected \in SUBSET Pkg
    BY <1>1 DEF Selected, TypeOK
  <2>2. Selected' = {selected'[i] : i \in (1..Len(selected)) \cup {Len(selected) + 1}}
    BY <1>11 DEF Selected
  <2>3. Selected' \subseteq Selected \cup {p}
    BY <1>10, <2>2 DEF Selected
  <2>4. Selected \cup {p} \subseteq Selected'
    BY <1>10, <2>2 DEF Selected
  <2>5. QED
    BY <2>1, <2>3, <2>4
<1>13. /\ wanted' \in [Pkg -> Maybe(Version)] /\ require[n] \in {None, wanted'[p]}
       /\ \A q \in Pkg : /\ wanted[q] # None => wanted'[q] = wanted[q]
                         /\ wanted'[q] # wanted[q] => q = p /\ require[n] = wanted'[q]
  BY <1>1, <1>2, <1>3, <1>9, RecordedIs
<1>14. TypeOK'
  <2>1. \A q \in Pkg : wanted'[q] # None => \E i \in 1..Len(selected') : selected'[i] = q
    <3> SUFFICES ASSUME NEW q \in Pkg, wanted'[q] # None PROVE q \in Selected'
      BY DEF Selected
    <3>1. wanted[q] # None => q \in Selected
      BY <1>1 DEF TypeOK, Selected
    <3>2. QED
      BY <1>12, <1>13, <3>1
  <2>2. QED
    BY <1>1, <1>2, <1>7, <1>10, <1>13, <2>1 DEF TypeOK, descriptions, configuration
<1>15. /\ \A m \in Name : Provider(m)' = Provider(m)
       /\ \A S : Mentioned(S)' = Mentioned(S) /\ Demanded(S)' = Demanded(S)
       /\ \A S \in SUBSET Pkg : Closed(S)' <=> Closed(S)
  BY <1>2, SameRelations
<1>16. \A S \in SUBSET Pkg : Mentioned(S) \subseteq Name /\ Demanded(S) \subseteq Name
  BY <1>1, NamesMentioned
<1>17. /\ Mentioned(Selected)' = Mentioned(Selected) \cup needs[p] \cup selects[p]
       /\ Demanded(Selected)' = Demanded(Selected) \cup selects[p]
  BY <1>2, <1>12 DEF Mentioned, Demanded, descriptions
<1>18. /\ Mentioned(Selected) \subseteq Name /\ Demanded(Selected) \subseteq Name
       /\ needs[p] \subseteq Name /\ selects[p] \subseteq Name
  BY <1>1, <1>3, <1>12, <1>16 DEF TypeOK
<1>19. Met(n)'
  BY <1>2, <1>9, <1>12, <1>13, <1>15 DEF Met
<1>20. ASSUME NEW m \in Name, Met(m) PROVE Met(m)'
  <2>1. Provider(m) \in Pkg /\ Provider(m) \in Selected /\ require[m] \in {None, wanted[Provider(m)]}
    BY <1>12, <1>20 DEF Met
  <2>2. Provider(m)' \in Selected' /\ require'[m] = require[m]
    BY <1>2, <1>12, <1>15, <2>1
  <2>3. require[m] \in {None, wanted'[Provider(m)]}
    BY <1>13, <2>1
  <2>4. QED
    BY <1>15, <2>2, <2>3 DEF Met
<1>21. AllMet'
  <2> SUFFICES ASSUME NEW m \in Mentioned(Selected)'
               PROVE  PendingIn(calls, m)' \/ Provider(m)' = None \/ Met(m)'
    BY DEF AllMet
  <2>1. m \in Name
    BY <1>17, <1>18
  <2>2. CASE m \in needs[p] \cup selects[p]
    BY <1>8, <2>1, <2>2
  <2>3. CASE m \in Mentioned(Selected)
    <3>1. PendingIn(calls, m) \/ Provider(m) = None \/ Met(m)
      BY <1>1, <2>3 DEF AllMet
    <3>2. QED
      BY <1>5, <1>8, <1>15, <1>19, <1>20, <2>1, <3>1
  <2>4. QED
    BY <1>17, <2>2, <2>3
<1>22. DemandsMet'
  <2> SUFFICES ASSUME NEW m \in Demanded(Selected)'
               PROVE  MustIn(calls, m)' \/ Provider(m)' # None
    BY DEF DemandsMet
  <2>1. m \in Name
    BY <1>17, <1>18
  <2>2. m \in selects[p] \/ MustIn(calls, m) \/ Provider(m) # None
    BY <1>1, <1>17 DEF DemandsMet
  <2>3. QED
    BY <1>1, <1>5, <1>8, <1>9, <1>15, <2>1, <2>2
<1>23. NothingUnasked'
  <2> SUFFICES ASSUME NEW S \in SUBSET Pkg, Closed(S)
               PROVE  /\ Selected' \subseteq S
                      /\ \A m \in Name : PendingIn(calls, m)' => m \in Mentioned(S)
                      /\ \A m \in Name : MustIn(calls, m)' => m \in Demanded(S)
    BY <1>15 DEF NothingUnasked
  <2>1. /\ Selected \subseteq S
        /\ \A m \in Name : PendingIn(calls, m) => m \in Mentioned(S)
        /\ \A m \in Name : MustIn(calls, m) => m \in Demanded(S)
    BY <1>1 DEF NothingUnasked
  <2>2. p \in S
    BY <1>1, <1>5, <1>9, <2>1 DEF Closed
  <2>3. needs[p] \cup selects[p] \subseteq Mentioned(S) /\ selects[p] \subseteq Demanded(S)
    BY <2>2 DEF Mentioned, Demanded
  <2>4. QED
    BY <1>5, <1>8, <1>12, <2>1, <2>2, <2>3
<1>24. RequirementsFound'
  <2> SUFFICES ASSUME NEW q \in Pkg, wanted'[q] # None, NEW S \in SUBSET Pkg, Closed(S)
               PROVE  \E m \in Mentioned(S) : Provider(m) = q /\ require[m] = wanted'[q]
    BY <1>2, <1>15, <1>16 DEF RequirementsFound
  <2>1. CASE wanted'[q] = wanted[q]
    BY <1>1, <2>1 DEF RequirementsFound
  <2>2. CASE wanted'[q] # wanted[q]
    <3>1. q = p /\ require[n] = wanted'[q]
      BY <1>13, <2>2
    <3>2. n \in Mentioned(S)
      BY <1>1, <1>5 DEF NothingUnasked
    <3>3. QED
      BY <1>9, <3>1, <3>2
  <2>3. QED
    BY <2>1, <2>2
<1>25. SelectedOnce'
  <2>1. \A i \in 1..Len(selected) : selected[i] # p
    BY <1>1 DEF Selected
  <2>2. QED
    BY <1>1, <1>10, <1>11, <2>1 DEF SelectedOnce
<1>26. AcceptedIsSound' /\ RefusalIsJustified' /\ BeforeTheWalk'
  BY <1>2 DEF AcceptedIsSound, RefusalIsJustified, BeforeTheWalk
<1>27. QED
  BY <1>14, <1>21, <1>22, <1>23, <1>24, <1>25, <1>26 DEF IInv

LEMMA StutterKeeps ==
  ASSUME IInv, UNCHANGED vars
  PROVE  IInv'
<1>1. UNCHANGED <<descriptions, configuration, walk, facts>>
  BY DEF vars
<1>2. UNCHANGED <<needs, selects, provides, conflicts, require, pin, illegal, asked, calls, selected, wanted, outcome, facts>>
  BY <1>1 DEF descriptions, configuration, walk
<1>3. TypeOK' /\ BeforeTheWalk' /\ SelectedOnce'
  BY <1>2 DEF IInv, TypeOK, BeforeTheWalk, SelectedOnce
<1>4. CASE outcome = "describing"
  <2>1. (outcome = "describing")'
    BY <1>2, <1>4
  <2>2. QED
    BY <1>3, <2>1, Fresh, PTL
<1>5. CASE outcome # "describing"
  <2>1. \A n \in Name : /\ PendingIn(calls, n)' <=> PendingIn(calls, n)
                        /\ MustIn(calls, n)' <=> MustIn(calls, n)
    BY <1>2 DEF PendingIn, MustIn
  <2>2. AllMet' /\ DemandsMet' /\ NothingUnasked' /\ RequirementsFound'
    BY <1>1, <1>2, <1>3, <1>5, <2>1, SameSelection
  <2>3. AcceptedIsSound'
    BY <1>2 DEF IInv, AcceptedIsSound, Conflicting, Unsupported, Selected, VersionAccepted, VersionOf
  <2>4. RefusalIsJustified'
    <3>1. \A n : Provider(n)' = Provider(n)
      BY <1>2 DEF Provider, First
    <3>2. \A S : Mentioned(S)' = Mentioned(S) /\ Demanded(S)' = Demanded(S)
      BY <1>2 DEF Mentioned, Demanded
    <3>3. \A S : Closed(S)' <=> Closed(S)
      BY <3>1, <3>2 DEF Closed
    <3>4. QED
      BY <1>2, <3>1, <3>2, <3>3 DEF IInv, RefusalIsJustified
  <2>5. QED
    BY <1>3, <2>2, <2>3, <2>4 DEF IInv
<1>6. QED
  BY <1>4, <1>5

LEMMA Invariance == Spec => []IInv
<1>1. IInv /\ [Next]_vars => IInv'
  <2> SUFFICES ASSUME IInv, [Next]_vars PROVE IInv'
    OBVIOUS
  <2>1. ASSUME NEW p \in Pkg, Describe(p) PROVE IInv'
    BY <2>1, DescribeKeeps
  <2>2. CASE Configure
    BY <2>2, DescribeKeeps
  <2>3. ASSUME NEW names \in Requests, Request(names) PROVE IInv'
    BY <2>3, RequestKeeps
  <2>4. ASSUME NEW n \in Name,
               PassUnknown(n) \/ RefuseUnknown(n) \/ RefuseRequirement(n) \/ Revisit(n) \/ Include(n)
        PROVE  IInv'
    BY <2>4, PassUnknownKeeps, RefuseUnknownKeeps, RefuseRequirementKeeps, RevisitKeeps, IncludeKeeps
  <2>5. CASE Return
    BY <2>5, ReturnKeeps
  <2>6. CASE RefuseConflict \/ RefuseSettings \/ Accept
    BY <2>6, CheckKeeps
  <2>7. CASE UNCHANGED vars
    BY <2>7, StutterKeeps
  <2>8. QED
    BY <2>1, <2>2, <2>3, <2>4, <2>5, <2>6, <2>7 DEF Next, Step
<1>2. QED
  BY <1>1, Starts, PTL DEF Spec

-----------------------------------------------------------------------------
\* The resolver's state (package_resolver.py:30-67) keeps its type, and
\* requirements are recorded only for packages that are selected.
THEOREM TypeCorrect == Spec => []TypeOK
<1>1. IInv => TypeOK
  BY DEF IInv
<1>2. QED
  BY <1>1, Invariance, PTL

\* What include() selects (package_resolver.py:37-55) is the least set closed
\* under depends, host_depends, selects and provides, each package once.
THEOREM SelectionClosed == Spec => []SelectionIsClosure
<1>1. IInv => SelectionIsClosure
  <2> SUFFICES ASSUME IInv PROVE SelectionIsClosure
    OBVIOUS
  <2>1. TypeOK /\ AllMet /\ DemandsMet /\ NothingUnasked /\ SelectedOnce
    BY DEF IInv
  <2>2. \A S \in SUBSET Pkg : Closed(S) => Selected \subseteq S
    BY <2>1 DEF NothingUnasked
  <2>3. ASSUME outcome = "resolved"
        PROVE  Closed(Selected) /\ \A n \in Demanded(Selected) : Provider(n) # None
    <3>1. calls = <<>>
      BY <2>1, <2>3 DEF TypeOK
    <3>2. \A n : ~ PendingIn(calls, n) /\ ~ MustIn(calls, n)
      BY <3>1 DEF PendingIn, MustIn
    <3>3. QED
      BY <2>1, <3>2 DEF AllMet, DemandsMet, Closed, Met
  <2>4. QED
    BY <2>1, <2>2, <2>3 DEF SelectionIsClosure, SelectedOnce
<1>2. QED
  BY <1>1, Invariance, PTL

\* Accepted packages (package_resolver.py:60-67, 100-115, 141-150) have every
\* version required of them under any of their names, and do not conflict.
THEOREM VersionsRight == Spec => []VersionsAgree
<1>1. IInv => VersionsAgree
  <2> SUFFICES ASSUME IInv, outcome = "resolved" PROVE
        /\ \A n \in Mentioned(Selected) :
             Provider(n) # None /\ require[n] # None => VersionOf(Provider(n)) = require[n]
        /\ \A p, q \in Selected : q \notin conflicts[p] /\ p \notin conflicts[q]
    BY DEF VersionsAgree
  <2>1. TypeOK /\ AllMet /\ ~ Conflicting /\ ~ Unsupported
    BY DEF IInv, AcceptedIsSound
  <2>2. \A p, q \in Selected : q \notin conflicts[p] /\ p \notin conflicts[q]
    BY <2>1 DEF Conflicting
  <2>3. ASSUME NEW n \in Mentioned(Selected), Provider(n) # None, require[n] # None
        PROVE  VersionOf(Provider(n)) = require[n]
    <3>1. calls = <<>>
      BY <2>1 DEF TypeOK
    <3>2. ~ PendingIn(calls, n)
      BY <3>1 DEF PendingIn
    <3>3. Met(n)
      BY <2>1, <2>3, <3>2 DEF AllMet
    <3> DEFINE p == Provider(n)
    <3>4. p \in Selected /\ wanted[p] = require[n] /\ wanted[p] # None
      BY <2>3, <3>3 DEF Met
    <3> HIDE DEF p
    <3>5. VersionAccepted(p)
      BY <2>1, <3>4 DEF Unsupported
    <3>6. VersionOf(p) = wanted[p]
      BY <3>4, <3>5 DEF VersionAccepted, VersionOf, Or
    <3>7. QED
      BY <3>4, <3>6 DEF p
  <2>4. QED
    BY <2>2, <2>3
<1>2. QED
  BY <1>1, Invariance, PTL

\* Whatever the order of the descriptions, the walk (package_resolver.py:37-55)
\* refuses only what no walk could accept.
THEOREM RefusalsJustified == Spec => []RefusalIsJustified
<1>1. IInv => RefusalIsJustified
  BY DEF IInv
<1>2. QED
  BY <1>1, Invariance, PTL
=============================================================================
