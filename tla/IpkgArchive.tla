----------------------------- MODULE IpkgArchive -----------------------------
(***************************************************************************)
(* The .ipk file (smart_build/domains/ipkg.py): an ar archive of three     *)
(* members that create_ipkg writes into its final place, member by member, *)
(* and that the root filesystem's assembly reads.  A write that is killed  *)
(* or runs out of space leaves a beginning of the file there; this module  *)
(* is about what the reader makes of every such beginning.                 *)
(*                                                                         *)
(* A file is a sequence of cells.  A header is HeaderSize cells, 60 bytes  *)
(* in the code; a cell of it knows the member, its size and its own place. *)
(***************************************************************************)
EXTENDS Integers, Sequences

CONSTANTS HeaderSize, \* cells of a member's header
          Sizes       \* sizes of a member considered

\* What the constants have to be; assumed by the module that gives them values.
ArchiveAssumption == HeaderSize \in Nat \ {0} /\ Sizes \subseteq Nat

Names == <<"debian-binary", "control", "data">>

VARIABLES
  written,   \* the members being written: their sizes
  file,      \* what is on disk
  offset,    \* of the reader
  members,   \* what it has read
  result     \* "writing", "reading", "refused", "read"

vars == <<written, file, offset, members, result>>

Magic == <<[is |-> "magic"]>>

Header(name, size) ==
  [i \in 1..HeaderSize |-> [is |-> "header", name |-> name, size |-> size, at |-> i]]

Payload(name, size) == [i \in 1..size |-> [is |-> "payload", name |-> name, at |-> i]]

\* A member of odd size is padded to an even offset.
Padding(size) == [i \in 1..(size % 2) |-> [is |-> "padding"]]

Member(name, size) == Header(name, size) \o Payload(name, size) \o Padding(size)

\* The file that create_ipkg means to write.
Image ==
  Magic \o Member(Names[1], written[1]) \o Member(Names[2], written[2])
        \o Member(Names[3], written[3])

Init ==
  /\ written \in [1..3 -> Sizes]
  /\ file = <<>>
  /\ offset = 0 /\ members = [n \in {} |-> <<>>]
  /\ result = "writing"

Write ==
  /\ result = "writing" /\ Len(file) < Len(Image)
  /\ file' = Append(file, Image[Len(file) + 1])
  /\ UNCHANGED <<written, offset, members, result>>

\* Somebody reads the file: the whole of it, or as much as there is.
Open ==
  /\ result = "writing"
  /\ IF Len(file) < Len(Magic)
     THEN result' = "refused" /\ offset' = offset
     ELSE result' = "reading" /\ offset' = Len(Magic)
  /\ UNCHANGED <<written, file, members>>

\* members[name] = data[...]; the last member of a name counts.
Keep(name, payload) ==
  members' = [n \in DOMAIN members \cup {name} |-> IF n = name THEN payload ELSE members[n]]

\* A fault: the padding is forgotten.
ReadMemberUnpadded ==
  /\ result = "reading" /\ offset < Len(file)
  /\ LET head == file[offset + 1]
         from == offset + HeaderSize
     IN  IF from > Len(file) \/ head.is # "header" \/ from + head.size > Len(file)
         THEN result' = "refused" /\ UNCHANGED <<offset, members>>
         ELSE /\ Keep(head.name, SubSeq(file, from + 1, from + head.size))
              /\ offset' = from + head.size
              /\ result' = result
  /\ UNCHANGED <<written, file>>

\* One turn of the loop in _read_ar.
ReadMember ==
  /\ result = "reading" /\ offset < Len(file)
  /\ LET head == file[offset + 1]
         from == offset + HeaderSize
     IN  IF from > Len(file) \/ head.is # "header" \/ from + head.size > Len(file)
         THEN result' = "refused" /\ UNCHANGED <<offset, members>>
         ELSE /\ Keep(head.name, SubSeq(file, from + 1, from + head.size))
              /\ offset' = from + head.size + (head.size % 2)
              /\ result' = result
  /\ UNCHANGED <<written, file>>

\* install_ipkg wants all three members; the version is the first one's text.
Accept ==
  /\ result = "reading" /\ offset >= Len(file)
  /\ result' = IF \A i \in 1..3 : Names[i] \in DOMAIN members THEN "read" ELSE "refused"
  /\ UNCHANGED <<written, file, offset, members>>

Done == result \in {"refused", "read"} /\ UNCHANGED vars

Next == Write \/ Open \/ ReadMember \/ Accept \/ Done

Spec == Init /\ [][Next]_vars

-----------------------------------------------------------------------------
TypeOK ==
  /\ written \in [1..3 -> Sizes]
  /\ result \in {"writing", "reading", "refused", "read"}
  /\ offset \in 0..(Len(file) + 1)
  /\ DOMAIN members \subseteq {Names[i] : i \in 1..3}

(* Whatever beginning of the file is on disk, an archive that is read has   *)
(* every byte of every member: a torn .ipk is refused, not installed in     *)
(* part.  And a complete one is not refused, whatever the sizes: writer and *)
(* reader agree on the offsets, odd sizes and empty members included.       *)
ReadIsExact ==
  /\ result = "read" => \A i \in 1..3 : members[Names[i]] = Payload(Names[i], written[i])
  /\ result = "refused" => Len(file) < Len(Image)

=============================================================================
