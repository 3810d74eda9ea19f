------------------------------ MODULE PmmInit -------------------------------
(***************************************************************************)
(* pmm_init (src/memory/pmm.c): from the memory map of the boot loader to  *)
(* the first bitmap, and from there on the allocator, Pmm.  pmm_init runs   *)
(* once and alone, so that it is a function of the memory map here.         *)
(*                                                                         *)
(* A memory map is a sequence of regions, in bytes.  Limine gives usable    *)
(* regions that are made of whole frames and overlap no other region.  The  *)
(* region of the modules, also of whole frames, is not usable;              *)
(* initramfs_init gives it back while it reads the archive.                 *)
(***************************************************************************)
EXTENDS Pmm, Sequences, FiniteSetsExt

CONSTANTS BITS,       \* bits per byte: 8
          MemoryMaps, \* the memory maps to start with
          Boot        \* the first processor

Region == [base : Nat, length : Nat, type : {"usable", "modules", "reserved"}]
WholeFrames(r) == r.base % FRAME_SIZE = 0 /\ r.length % FRAME_SIZE = 0
Apart(r, s) == r.base + r.length <= s.base \/ s.base + s.length <= r.base

ASSUME MemoryMapsAssumption ==
  /\ BITS \in Nat \ {0} /\ Boot \in Cpus
  /\ \A m \in MemoryMaps :
       /\ m \in Seq(Region)
       /\ \A i \in DOMAIN m : m[i].type # "reserved" => WholeFrames(m[i])
       /\ \A i, j \in DOMAIN m : i # j /\ m[i].type = "usable" => Apart(m[i], m[j])

VARIABLE memory       \* what there is to hand out, as the memory map tells

ALIGN_UP(num, align) == ((num + align - 1) \div align) * align

Regions(m, type) == {i \in DOMAIN m : m[i].type = type}

highest(m) == Max({0} \cup {m[i].base + m[i].length : i \in Regions(m, "usable")})
limit(m) == highest(m) \div FRAME_SIZE

\* Fault: the size of the bitmap is not rounded up to frames.
bitmap_bytes(m) == limit(m) \div BITS

\* The number of bytes is rounded down before it is rounded up to frames.
bitmap_size(m) == ALIGN_UP(limit(m) \div BITS, FRAME_SIZE)

\* The bitmap is put at the start of the first usable region that can hold it.
Fitting(m) == {i \in Regions(m, "usable") : m[i].length >= bitmap_size(m)}

\* That region is cut down to what is left of it.
Cut(m) == [m EXCEPT ![Min(Fitting(m))] = [base |-> @.base + bitmap_size(m),
                                         length |-> @.length - bitmap_size(m),
                                         type |-> @.type]]

\* The frames pmm_free is called with for a region, frame by frame.
FramesOf(region) == {(region.base + t) \div FRAME_SIZE :
                       t \in {n \in 0 .. region.length - 1 : n % FRAME_SIZE = 0}}

\* memset has set all bits, and those of the frames that are freed are cleared.
pmm_init(m) ==
  LET freed == UNION {FramesOf(Cut(m)[i]) : i \in Regions(m, "usable")}
  IN [f \in Frames |-> IF f \in freed THEN 0 ELSE 1]

\* pmm_init needs room for its bitmap, and a number of frames that the two roundings
\* do not make too small: else the last bits would be in the frame behind the bitmap.
Boots(m) == /\ Fitting(m) # {}
            /\ limit(m) % BITS # 0 => (limit(m) \div BITS) % FRAME_SIZE # 0

\* The frames that lie in usable memory or in that of the modules, without those that
\* the bits of the bitmap are in.
Memory(m) ==
  {f \in Frames : \E i \in DOMAIN m : /\ m[i].type # "reserved"
                                      /\ m[i].base <= f * FRAME_SIZE
                                      /\ (f + 1) * FRAME_SIZE <= m[i].base + m[i].length}
  \ {(m[Min(Fitting(m))].base + f \div BITS) \div FRAME_SIZE : f \in Frames}

\* After pmm_init, the frames of the modules are in the hands of the first processor.
BootInit ==
  /\ \E m \in MemoryMaps :
       /\ Boots(m) /\ limit(m) = Limit
       /\ memory = Memory(m)
       /\ bitmap = pmm_init(m)
       /\ owned = [c \in Cpus |->
            IF c = Boot
            THEN Frames \cap UNION {FramesOf(m[i]) : i \in Regions(m, "modules")}
            ELSE {}]
  /\ Init

BootSpec == BootInit /\ [][Next /\ UNCHANGED memory]_<<vars, memory>>

-----------------------------------------------------------------------------
\* From pmm_init on, no frame is lost and none comes from nowhere: what is free and
\* what is in somebody's hands is the memory of the map without the bitmap itself.
\* So nobody is ever given reserved memory, or a frame whose content is the bitmap.
MemoryConserved == Pool = memory
=============================================================================
