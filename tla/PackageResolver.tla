--------------------------- MODULE PackageResolver ---------------------------
(***************************************************************************)
(* Which packages a build takes, and in which versions                     *)
(* (smart_build/package_resolver.py): starting from the packages asked     *)
(* for, resolve_package_selection walks what they depend on and select,    *)
(* by name or by a capability that another package provides, records the   *)
(* versions that the configuration requires under either name, and then    *)
(* refuses conflicts, versions and option values that do not exist.        *)
(*                                                                         *)
(* A package is its position in load_all_package_metadata, the order in    *)
(* which providers are looked for.  The walk is the recursion of the       *)
(* code's include(), with the call stack in `calls'.  Descriptions and     *)
(* configuration are built up one fact at a time and may be anything.      *)
(***************************************************************************)
EXTENDS Naturals, Sequences

CONSTANTS
  N,           \* number of package descriptions
  Capability,  \* names used in descriptions that are not packages
  Version, Supported, Default,
  Native,      \* packages with Kconfig of their own (kconfig.mode "native")
  Requests,    \* lists of packages that can be asked for, as sets
  None,
  MaxFacts     \* bound: entries of all descriptions and configuration

Pkg == 1..N
Name == Pkg \cup Capability

ASSUME NAssumption == N \in Nat /\ MaxFacts \in Nat
ASSUME NameAssumption == Pkg \cap Capability = {} /\ None \notin Name \cup Version
ASSUME VersionAssumption ==
  /\ Supported \in [Pkg -> SUBSET Version]
  /\ Default \in [Pkg -> Version]
  /\ \A p \in Pkg : Default[p] \in Supported[p]
ASSUME RequestAssumption == Requests \subseteq SUBSET Name /\ Native \subseteq Pkg

VARIABLES
  needs,     \* depends and host_depends of every package
  selects, provides, conflicts,
  require,   \* PACKAGE_..._REQUIRE_VERSION in the configuration, per name
  pin,       \* PACKAGE_..._VERSION, per package
  illegal,   \* packages with an option set to a value that is not a choice
  asked,     \* the packages asked for
  calls,     \* names still to include, of every call of include() under way
  selected,  \* the packages taken so far, in order
  wanted,    \* package_requirements
  outcome,
  facts

descriptions == <<needs, selects, provides, conflicts>>
configuration == <<require, pin, illegal>>
walk == <<asked, calls, selected, wanted, outcome>>
vars == <<descriptions, configuration, walk, facts>>

Frame == [optional : SUBSET Name, must : SUBSET Name]
Refusals == {"notfound", "requirement", "conflict", "unsupported"}
Maybe(S) == S \cup {None}

TypeOK ==
  /\ needs \in [Pkg -> SUBSET Name] /\ selects \in [Pkg -> SUBSET Name]
  /\ provides \in [Pkg -> SUBSET Capability] /\ conflicts \in [Pkg -> SUBSET Pkg]
  /\ require \in [Name -> Maybe(Version)] /\ pin \in [Pkg -> Maybe(Version)]
  /\ illegal \in SUBSET Pkg
  /\ asked \in SUBSET Name
  /\ calls \in Seq(Frame)
  /\ selected \in Seq(Pkg)
  /\ wanted \in [Pkg -> Maybe(Version)]
  /\ \A p \in Pkg : wanted[p] # None => \E i \in 1..Len(selected) : selected[i] = p
  /\ outcome \in {"describing", "walking", "walked", "resolved"} \cup Refusals
  /\ calls = <<>> <=> outcome \notin {"walking", "notfound", "requirement"}
  /\ facts \in 0..MaxFacts

Init ==
  /\ needs = [p \in Pkg |-> {}] /\ selects = [p \in Pkg |-> {}]
  /\ provides = [p \in Pkg |-> {}] /\ conflicts = [p \in Pkg |-> {}]
  /\ require = [n \in Name |-> None] /\ pin = [p \in Pkg |-> None] /\ illegal = {}
  /\ asked = {} /\ calls = <<>> /\ selected = <<>>
  /\ wanted = [p \in Pkg |-> None]
  /\ outcome = "describing" /\ facts = 0

-----------------------------------------------------------------------------
(* Descriptions and configuration, before the build.                       *)

Describing ==
  /\ outcome = "describing"
  /\ facts < MaxFacts
  /\ facts' = facts + 1
  /\ UNCHANGED walk

\* conflicts with names that no package has are ignored (_reject_conflicts).
Describe(p) ==
  /\ Describing
  /\ UNCHANGED configuration
  /\ \/ \E n \in Name \ needs[p] : needs' = [needs EXCEPT ![p] = @ \cup {n}]
        /\ UNCHANGED <<selects, provides, conflicts>>
     \/ \E n \in Name \ selects[p] : selects' = [selects EXCEPT ![p] = @ \cup {n}]
        /\ UNCHANGED <<needs, provides, conflicts>>
     \/ \E n \in Capability \ provides[p] : provides' = [provides EXCEPT ![p] = @ \cup {n}]
        /\ UNCHANGED <<needs, selects, conflicts>>
     \/ \E q \in Pkg \ conflicts[p] : conflicts' = [conflicts EXCEPT ![p] = @ \cup {q}]
        /\ UNCHANGED <<needs, selects, provides>>

Configure ==
  /\ Describing
  /\ UNCHANGED descriptions
  /\ \/ \E n \in Name, v \in Version : require[n] = None /\ require' = [require EXCEPT ![n] = v]
        /\ UNCHANGED <<pin, illegal>>
     \/ \E p \in Pkg, v \in Version : pin[p] = None /\ pin' = [pin EXCEPT ![p] = v]
        /\ UNCHANGED <<require, illegal>>
     \/ \E p \in Pkg \ illegal : illegal' = illegal \cup {p}
        /\ UNCHANGED <<require, pin>>

-----------------------------------------------------------------------------
(* The walk.                                                               *)

\* A package by its name, or the first that provides the capability.
First(n) ==
  {p \in Pkg : n \in provides[p] /\ \A q \in Pkg : n \in provides[q] => p <= q}
Provider(n) ==
  IF n \in Pkg THEN n
  ELSE IF First(n) = {} THEN None
  ELSE CHOOSE p \in First(n) : TRUE

Selected == {selected[i] : i \in 1..Len(selected)}

Request(names) ==
  /\ outcome = "describing"
  /\ asked' = names
  /\ calls' = <<[optional |-> {}, must |-> names]>>
  /\ outcome' = "walking"
  /\ UNCHANGED <<descriptions, configuration, selected, wanted, facts>>

\* The innermost call of include() takes its dependencies first, in the order
\* of the description, then what the package selects.
Top == calls[Len(calls)]
Walking == outcome = "walking" /\ calls # <<>>
IsNext(n) == IF Top.optional # {} THEN n \in Top.optional ELSE n \in Top.must
Remaining(n) ==
  IF Top.optional # {} THEN [Top EXCEPT !.optional = @ \ {n}] ELSE [Top EXCEPT !.must = @ \ {n}]

Refuse(why) ==
  /\ outcome' = why
  /\ UNCHANGED <<descriptions, configuration, asked, calls, selected, wanted, facts>>

\* Unknown names are an error only when the package selects them.
PassUnknown(n) ==
  /\ Walking /\ IsNext(n)
  /\ Provider(n) = None
  /\ Top.optional # {}
  /\ calls' = [calls EXCEPT ![Len(calls)] = Remaining(n)]
  /\ UNCHANGED <<descriptions, configuration, asked, selected, wanted, outcome, facts>>

RefuseUnknown(n) ==
  /\ Walking /\ IsNext(n)
  /\ Provider(n) = None
  /\ Top.optional = {}
  /\ Refuse("notfound")

\* A fault: the default version counts as a requirement.
ClashesWithDefault(n, p) == require[n] # None /\ Default[p] # require[n]

\* _record_version_requirement
Clashes(n, p) == require[n] # None /\ wanted[p] \notin {None, require[n]}
\* A fault: a name without a requirement takes the recorded one away.
RecordedAlways(n, p) == [wanted EXCEPT ![p] = require[n]]
Recorded(n, p) == IF require[n] = None THEN wanted ELSE [wanted EXCEPT ![p] = require[n]]

RefuseRequirement(n) ==
  /\ Walking /\ IsNext(n)
  /\ Provider(n) # None
  /\ Clashes(n, Provider(n))
  /\ Refuse("requirement")

\* A fault: the loop does not go on.
RevisitStaying(n) ==
  /\ Walking /\ IsNext(n)
  /\ Provider(n) \in Selected
  /\ ~ Clashes(n, Provider(n))
  /\ wanted' = Recorded(n, Provider(n))
  /\ UNCHANGED <<descriptions, configuration, asked, calls, selected, outcome, facts>>

\* Already selected: only the requirement is recorded.
Revisit(n) ==
  /\ Walking /\ IsNext(n)
  /\ Provider(n) \in Selected
  /\ ~ Clashes(n, Provider(n))
  /\ wanted' = Recorded(n, Provider(n))
  /\ calls' = [calls EXCEPT ![Len(calls)] = Remaining(n)]
  /\ UNCHANGED <<descriptions, configuration, asked, selected, outcome, facts>>

\* A fault: what a package selects is forgotten.
IncludeWithoutSelects(n) ==
  LET p == Provider(n)
      call == [optional |-> needs[p], must |-> {}]
  IN  /\ Walking /\ IsNext(n)
      /\ p \notin Selected \cup {None}
      /\ ~ Clashes(n, p)
      /\ wanted' = Recorded(n, p)
      /\ selected' = Append(selected, p)
      /\ calls' = Append([calls EXCEPT ![Len(calls)] = Remaining(n)], call)
      /\ UNCHANGED <<descriptions, configuration, asked, outcome, facts>>

Include(n) ==
  LET p == Provider(n)
      call == [optional |-> needs[p], must |-> selects[p]]
  IN  /\ Walking /\ IsNext(n)
      /\ p \notin Selected \cup {None}
      /\ ~ Clashes(n, p)
      /\ wanted' = Recorded(n, p)
      /\ selected' = Append(selected, p)
      /\ calls' = Append([calls EXCEPT ![Len(calls)] = Remaining(n)], call)
      /\ UNCHANGED <<descriptions, configuration, asked, outcome, facts>>

\* The innermost call returns, and with the outermost the walk ends.
Return ==
  /\ Walking
  /\ Top = [optional |-> {}, must |-> {}]
  /\ calls' = SubSeq(calls, 1, Len(calls) - 1)
  /\ outcome' = IF Len(calls) = 1 THEN "walked" ELSE "walking"
  /\ UNCHANGED <<descriptions, configuration, asked, selected, wanted, facts>>

-----------------------------------------------------------------------------
(* What was found is checked.                                              *)

Or(v, w) == IF v = None THEN w ELSE v

\* _selected_version; a pin means nothing to a native package.
VersionOf(p) ==
  IF p \in Native THEN Or(wanted[p], Default[p]) ELSE Or(pin[p], Or(wanted[p], Default[p]))
VersionAccepted(p) ==
  IF p \in Native THEN VersionOf(p) = Default[p]
  ELSE wanted[p] \in {None, VersionOf(p)} /\ VersionOf(p) \in Supported[p]

Conflicting == \E p, q \in Selected : q \in conflicts[p]
Unsupported == \E p \in Selected : ~ VersionAccepted(p) \/ p \in illegal

RefuseConflict ==
  /\ outcome = "walked"
  /\ Conflicting
  /\ Refuse("conflict")

RefuseSettings ==
  /\ outcome = "walked"
  /\ ~ Conflicting
  /\ Unsupported
  /\ Refuse("unsupported")

Accept ==
  /\ outcome = "walked"
  /\ ~ Conflicting
  /\ ~ Unsupported
  /\ Refuse("resolved")

Step ==
  \/ \E n \in Name : \/ PassUnknown(n) \/ RefuseUnknown(n) \/ RefuseRequirement(n)
                     \/ Revisit(n) \/ Include(n)
  \/ Return \/ RefuseConflict \/ RefuseSettings \/ Accept

Next ==
  \/ \E p \in Pkg : Describe(p)
  \/ Configure
  \/ \E names \in Requests : Request(names)
  \/ Step

Spec == Init /\ [][Next]_vars

\* The walk is one call of one thread.
FairSpec == Spec /\ WF_vars(Step)

-----------------------------------------------------------------------------
(* The selection, without a walk.                                          *)

\* All names that a set of packages, and the request, refer to.
Mentioned(S) == asked \cup UNION {needs[p] \cup selects[p] : p \in S}
Demanded(S) == asked \cup UNION {selects[p] : p \in S}
Closed(S) == \A n \in Mentioned(S) : Provider(n) \in S \cup {None}

\* What is taken is the least set that holds the request and, with a package,
\* what provides its dependencies and selections: nothing is missed whatever
\* the order of the walk, cycles and aliases, and nothing is taken unasked.
SelectionIsClosure ==
  /\ \A S \in SUBSET Pkg : Closed(S) => Selected \subseteq S
  /\ outcome = "resolved" =>
       /\ Closed(Selected)
       /\ \A n \in Demanded(Selected) : Provider(n) # None
       /\ \A i, j \in 1..Len(selected) : selected[i] = selected[j] => i = j

\* Whichever of its names a version was required under, and whenever the walk
\* came by, a package has the version required; and no two packages conflict,
\* whichever of them says so.
VersionsAgree ==
  outcome = "resolved" =>
    /\ \A n \in Mentioned(Selected) :
         Provider(n) # None /\ require[n] # None => VersionOf(Provider(n)) = require[n]
    /\ \A p, q \in Selected : q \notin conflicts[p] /\ p \notin conflicts[q]

\* A selection is refused only for a reason that every walk would meet: the
\* order of the descriptions decides which error is reported, and no more.
RefusalIsJustified ==
  \A S \in SUBSET Pkg : Closed(S) =>
    /\ outcome = "notfound" => \E n \in Demanded(S) : Provider(n) = None
    /\ outcome = "requirement" =>
         \E m, n \in Mentioned(S) :
           /\ Provider(m) = Provider(n) /\ Provider(n) # None
           /\ require[m] # None /\ require[n] # None /\ require[m] # require[n]

\* The walk ends, although packages may depend on each other in circles.
ResolutionEnds == outcome = "walking" ~> outcome \in {"resolved"} \cup Refusals

\* docs/packages/package-yaml.md:22 of depends: "Required packages or
\* capabilities".
DependsAreRequired ==
  outcome = "resolved" => \A p \in Selected : \A n \in needs[p] : Provider(n) \in Selected
=============================================================================
