----------------------------- MODULE MMapedFile -----------------------------
(***************************************************************************)
(* A file of the store mapped into memory (store/flat_file.cpp): either as  *)
(* a whole by readMmapFile, as the readers do, or a window at a time by     *)
(* openAndMmapFile, which keeps the last window and gives out pointers into *)
(* it as long as a request falls inside.                                    *)
(*                                                                         *)
(* An address is the name of a region that is large enough for the file; a  *)
(* pointer is an address and a distance from it.                            *)
(***************************************************************************)
EXTENDS Integers, FiniteSets

CONSTANTS
  PageSize,     \* getpagesize()
  FileSize,     \* the size of the file, at least 1
  Addr,         \* where mmap can put a mapping
  Null          \* NULL, and -1 for fd

MAP_FAILED == "MAP_FAILED"

(* What the constants are.                                                  *)
Parameters ==
  /\ PageSize \in Nat \ {0} /\ FileSize \in Nat \ {0}
  /\ MAP_FAILED \notin Addr /\ Null \notin Addr /\ Null # MAP_FAILED

VARIABLES
  whole,        \* is this file read by readMmapFile?
  fd,           \* is the file open?
  memory_area, size_mapped, offset_mapped,
  mapped,       \* the mappings the process has: [addr, offset, size]
  given,        \* the last pointer returned, and for which offset
  lost          \* history: a close, or a request that threw, has taken the
                \* window away, and no new one was made since
vars == <<whole, fd, memory_area, size_mapped, offset_mapped, mapped, given, lost>>

Init ==
  /\ whole \in BOOLEAN
  /\ fd = FALSE
  /\ memory_area = Null /\ size_mapped = 0 /\ offset_mapped = 0
  /\ mapped = {}
  /\ given = Null
  /\ lost = FALSE

ALIGN_TO_PAGE(x) == x - (x % PageSize)
UPPER_ALIGN_TO_PAGE(x) == ALIGN_TO_PAGE(x + PageSize - 1)

(* munmap: the region is free afterwards, also if nothing was there; it is  *)
(* an error to give it MAP_FAILED.                                          *)
Unmapped(area) == {m \in mapped : m.addr # area}

(* mmap: at a free address, not always the one that was asked for, or not   *)
(* at all.                                                                  *)
MmapResults(ms) == (Addr \ {m.addr : m \in ms}) \cup {MAP_FAILED}

Mapping(area, off, size) ==
  IF area = MAP_FAILED THEN {} ELSE {[addr |-> area, offset |-> off, size |-> size]}

Pointer(area, pos, offset) == [addr |-> area, pos |-> pos, offset |-> offset]

-----------------------------------------------------------------------------
(* readMmapFile, once: the constructors of the readers call it.             *)
readMmapFile ==
  /\ whole /\ memory_area = Null
  /\ fd' = TRUE
  /\ size_mapped' = FileSize
  /\ \E area \in MmapResults(mapped) :
       /\ memory_area' = area
       /\ mapped' = mapped \cup Mapping(area, 0, FileSize)
       /\ given' = IF area = MAP_FAILED THEN Null ELSE Pointer(area, 0, 0)
       /\ lost' = (area = MAP_FAILED)
  /\ UNCHANGED <<whole, offset_mapped>>

(* Mutant of InWindow: a request before the window is taken for one in it.  *)
InWindowBelow(off, len) ==
  \/ off = offset_mapped /\ len = size_mapped
  \/ len + off - offset_mapped <= size_mapped

(* The two tests of openAndMmapFile for a request that needs no mmap.       *)
InWindow(off, len) ==
  \/ off = offset_mapped /\ len = size_mapped
  \/ off >= offset_mapped /\ len + off - offset_mapped <= size_mapped

(* openAndMmapFile with such a request.                                     *)
openInWindow(offset, off, len) ==
  /\ InWindow(off, len)
  /\ fd' = TRUE
  /\ given' = Pointer(memory_area, offset - offset_mapped, offset)
  /\ UNCHANGED <<whole, memory_area, size_mapped, offset_mapped, mapped, lost>>

(* The old window is given back before the new one is asked for.            *)
Released == IF memory_area = Null THEN mapped ELSE Unmapped(memory_area)

(* openAndMmapFile with any other request: the old window is unmapped, the  *)
(* new one mapped, preferably at the same address.  It throws if the        *)
(* address is another one and allow_remap is not given, which unmaps the    *)
(* new window again, or if mmap fails; memory_area has then changed and the *)
(* description of the window has not.                                       *)
openNewWindow(offset, off, len, allow_remap) ==
  /\ ~InWindow(off, len)
  /\ memory_area # MAP_FAILED
  /\ fd' = TRUE
  /\ \E area \in MmapResults(Released) :
       LET refused == memory_area # Null /\ ~allow_remap /\ area # memory_area
           throws == area = MAP_FAILED \/ refused
       IN /\ memory_area' = area
          /\ mapped' = Released \cup IF throws THEN {} ELSE Mapping(area, off, len)
          /\ offset_mapped' = IF throws THEN offset_mapped ELSE off
          /\ size_mapped' = IF throws THEN size_mapped ELSE len
          /\ given' = IF throws THEN Null ELSE Pointer(area, offset - off, offset)
          /\ lost' = throws
  /\ UNCHANGED whole

(* The window that openAndMmapFile looks for.                               *)
openAndMmapFile(offset, length, map_whole_file, allow_remap) ==
  LET offset_to_map == IF map_whole_file THEN 0 ELSE ALIGN_TO_PAGE(offset)
      length_to_map == IF map_whole_file THEN FileSize ELSE UPPER_ALIGN_TO_PAGE(length)
  IN /\ ~whole
     /\ \/ openInWindow(offset, offset_to_map, length_to_map)
        \/ openNewWindow(offset, offset_to_map, length_to_map, allow_remap)

(* munmapAndCloseFile: the description of the window stays.                 *)
munmapAndCloseFile ==
  /\ fd /\ memory_area \in Addr
  /\ mapped' = Unmapped(memory_area)
  /\ fd' = FALSE
  /\ given' = Null
  /\ lost' = TRUE
  /\ UNCHANGED <<whole, memory_area, size_mapped, offset_mapped>>

Next ==
  \/ readMmapFile
  \/ \E offset \in 0 .. FileSize - 1, map_whole_file, allow_remap \in BOOLEAN :
       \E length \in 1 .. FileSize - offset :
         openAndMmapFile(offset, length, map_whole_file, allow_remap)
  \/ munmapAndCloseFile

Spec == Init /\ [][Next]_vars

-----------------------------------------------------------------------------
(* The pointer points into a mapping, at the byte of the file that was      *)
(* asked for.                                                               *)
ShowsByte ==
  \E m \in mapped : /\ m.addr = given.addr
                    /\ given.pos \in 0 .. m.size - 1
                    /\ m.offset + given.pos = given.offset

(* A pointer that is returned points into the mapped window, at the byte of *)
(* the file that was asked for (the assertion at the end of openAndMmapFile *)
(* that is commented out, and more), whatever windows came before, except   *)
(* after a refused remap, a failed mmap or a close: until a request makes a *)
(* new window, every request that falls into the old one is then given a    *)
(* pointer to memory that is not mapped.                                    *)
PointerMapped == given # Null => (ShowsByte <=> ~lost)

(* No window is leaked, on no path: there is one mapping at most, and it is *)
(* the one that memory_area knows of.                                       *)
OneMapping == \A m \in mapped : m.addr = memory_area /\ Cardinality(mapped) = 1
=============================================================================
