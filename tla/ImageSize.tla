------------------------------ MODULE ImageSize ------------------------------
(***************************************************************************)
(* How large an image is made for a staged root filesystem                 *)
(* (smart_build/domains/image.py and busybox.py, _image_size), and whether *)
(* what is staged fits.  Sizes are in units of 256 bytes.                  *)
(***************************************************************************)
EXTENDS Naturals

CONSTANTS Files,      \* numbers of files considered
          FileSizes,  \* sizes of one of them
          Configured, \* configured sizes, in IMAGE_BLOCKs
          Machines    \* "sd": qemu-vexpress-a9, whose image is an SD card; "virtio"

IMAGE_BLOCK == 4096
MaxSize == 2 ^ 30 \* 256 GiB
MIN_IMAGE_SIZE == 16 * IMAGE_BLOCK

\* What the constants have to be; assumed by the module that gives them values.
SizeAssumption ==
  /\ Files \subseteq Nat /\ FileSizes \subseteq Nat \ {0} /\ Configured \subseteq Nat \ {0}
  /\ Machines \subseteq {"sd", "virtio"}
  /\ \A c \in Configured : c * IMAGE_BLOCK <= MaxSize
  /\ \A f \in Files, s \in FileSizes : f * s * 4 + 9 * IMAGE_BLOCK <= MaxSize

VARIABLES machine, kind, mode, configured, \* the selection: which image, and how large
          files, fileSize,                 \* the staged files, all of one size
          size                             \* of the image; 0 before it is made

vars == <<machine, kind, mode, configured, files, fileSize, size>>

Content == files * fileSize

Larger(a, b) == IF a > b THEN a ELSE b

\* _round_power_of_two: one bit more than those of value - 1.
RoundPowerOfTwo(value) ==
  IF value <= 1 THEN 1
  ELSE CHOOSE p \in {2 ^ n : n \in 0..30} : p >= value /\ p < 2 * value

RoundToBlock(value) == ((value + IMAGE_BLOCK - 1) \div IMAGE_BLOCK) * IMAGE_BLOCK

\* A fault: room for the data alone.
RequestedBytes == Larger(configured * IMAGE_BLOCK, Content)

Requested == Larger(configured * IMAGE_BLOCK, Content * 4 + 8 * IMAGE_BLOCK)

RootfsImageSize(powerOfTwo) ==
  LET wanted == IF mode = "fixed" THEN configured * IMAGE_BLOCK ELSE RoundToBlock(Requested)
  IN  IF powerOfTwo THEN RoundPowerOfTwo(wanted) ELSE wanted

BusyboxImageSize ==
  IF mode = "fixed" THEN configured * IMAGE_BLOCK
  ELSE RoundToBlock(Larger(MIN_IMAGE_SIZE, Requested))

\* The task of the full root filesystem's image asks for a power of two, on
\* the one machine; those of the minimal one and of BusyBox's never do.
RequiresPowerOfTwo == machine = "sd"

Init ==
  /\ machine \in Machines /\ kind \in {"minimal", "basic", "full"}
  /\ mode \in {"fixed", "expandable"} /\ configured \in Configured
  /\ files \in Files /\ fileSize \in FileSizes
  /\ size = 0

MakeRootfs ==
  /\ size = 0 /\ kind = "full"
  /\ size' = RootfsImageSize(RequiresPowerOfTwo)
  /\ UNCHANGED <<machine, kind, mode, configured, files, fileSize>>

MakeMinirootfs ==
  /\ size = 0 /\ kind = "minimal"
  /\ size' = RootfsImageSize(FALSE)
  /\ UNCHANGED <<machine, kind, mode, configured, files, fileSize>>

MakeBusybox ==
  /\ size = 0 /\ kind = "basic"
  /\ size' = BusyboxImageSize
  /\ UNCHANGED <<machine, kind, mode, configured, files, fileSize>>

Next == MakeRootfs \/ MakeMinirootfs \/ MakeBusybox

Spec == Init /\ [][Next]_vars

-----------------------------------------------------------------------------
(* What mke2fs -t ext4 makes of it, with the configuration it comes with:   *)
(* below 512 MiB blocks of 1 KiB and an inode for each 4 KiB of the image,  *)
(* from there on blocks of 4 KiB and an inode for each 16 KiB.  An inode    *)
(* takes 256 bytes, eleven are the file system's own; a journal takes an    *)
(* eighth at most, bitmaps, descriptors and room for more of them less than *)
(* a thirty-second.  Directories count as files.                            *)

FsBlock == IF size < 512 * IMAGE_BLOCK THEN 4 ELSE 16
Inodes == size \div (4 * FsBlock)
Blocks == (size - Inodes - size \div 8 - size \div 32) \div FsBlock
BlocksOf(bytes) == (bytes + FsBlock - 1) \div FsBlock
Fits == files + 11 <= Inodes /\ files * BlocksOf(fileSize) <= Blocks

TypeOK ==
  /\ kind \in {"minimal", "basic", "full"} /\ mode \in {"fixed", "expandable"}
  /\ size \in Nat
  \* A size of the configuration's is never undercut.
  /\ size # 0 => size >= configured * IMAGE_BLOCK

(* An expandable image holds the staged files, if on average they fill a    *)
(* block of it, 1 KiB or from 512 MiB on 4 KiB: four times the content, and *)
(* 8 MiB, are room for blocks, inodes and journal at every size.  Rounding  *)
(* to a power of two can bring an image above 512 MiB that was below.       *)
ExpandableFits ==
  size # 0 /\ mode = "expandable" /\ fileSize >= FsBlock => Fits

(* The full root filesystem's image can be an SD card on the machine that   *)
(* needs one, in both modes, and is at most twice as large for it.          *)
RootfsFitsCard ==
  size # 0 /\ kind = "full" /\ machine = "sd" =>
    /\ \E n \in 0..30 : size = 2 ^ n
    /\ mode = "fixed" => size < 2 * configured * IMAGE_BLOCK
    /\ mode = "expandable" => size < 2 * RoundToBlock(Requested)

\* Every image is usable: what is staged fits, and the machine takes its size.
ImageIsUsable == ExpandableFits /\ RootfsFitsCard

=============================================================================
