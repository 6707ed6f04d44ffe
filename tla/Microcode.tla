----------------------------- MODULE Microcode -----------------------------
(***************************************************************************)
(* validate-amd-ucode.py: AMD microcode containers walked byte by byte,    *)
(* and the check that the assembled blob is the files of the source        *)
(* directory one after the other.  All sizes are the real ones; only the   *)
(* values a byte takes are fewer (Radix instead of 256), so that a u32     *)
(* ends at Radix^4 - 1 and a file can still be shorter than a size in it.  *)
(***************************************************************************)
EXTENDS Naturals, SequencesExt

CONSTANT Radix

CONTAINER_MAGIC == <<3, 2, 1, 0>>        \* "DMA\0", three distinct bytes and a zero
CONTAINER_HEADER_SIZE == 12
EQUIV_ENTRY_SIZE == 16
EQUIV_TABLE_TYPE == 0
PATCH_HEADER_SIZE == 64
PATCH_SECTION_HEADER_SIZE == 8
PATCH_SECTION_TYPE == 1

\* Offsets count from 0.  A byte past the end reads as 0 here; struct.unpack_from
\* raises an error the program does not catch, so the walk records how far it reads.
ByteAt(data, offset) == IF offset < Len(data) THEN data[offset + 1] ELSE 0
u32(data, offset) ==
    ByteAt(data, offset) + Radix * (ByteAt(data, offset + 1)
        + Radix * (ByteAt(data, offset + 2) + Radix * ByteAt(data, offset + 3)))
MagicAt(data, offset) ==
    offset + 4 <= Len(data) /\ SubSeq(data, offset + 1, offset + 4) = CONTAINER_MAGIC

-----------------------------------------------------------------------------
(* parse_container_file: one step per section, a container header with its *)
(* equivalence table or a patch; here counts the open container's patches. *)

Start == [ok |-> TRUE, offset |-> 0, containers |-> 0, patches |-> 0, here |-> 0, read |-> 0]

Reading(s, end) == [s EXCEPT !.read = IF end > @ THEN end ELSE @]
Fail(s) == [s EXCEPT !.ok = FALSE]

ContainerHeader(data, s) ==
    LET remaining == Len(data) - s.offset
        read == Reading(s, s.offset + CONTAINER_HEADER_SIZE)
        table_type == u32(data, s.offset + 4)
        table_size == u32(data, s.offset + 8)
    IN CASE \/ s.containers > 0 /\ s.here = 0
            \/ remaining < CONTAINER_HEADER_SIZE
            \/ ~MagicAt(data, s.offset) -> Fail(s)
         [] OTHER ->
              [read EXCEPT !.ok = /\ table_type = EQUIV_TABLE_TYPE
                                  /\ table_size % EQUIV_ENTRY_SIZE = 0
                                  /\ table_size <= remaining - CONTAINER_HEADER_SIZE,
                           !.offset = @ + CONTAINER_HEADER_SIZE + table_size,
                           !.containers = @ + 1,
                           !.here = 0]

\* The patch-section header is not counted into what remains.
PatchOverrunning(data, s) ==
    LET remaining == Len(data) - s.offset
        patch_size == u32(data, s.offset + 4)
        patch_start == s.offset + PATCH_SECTION_HEADER_SIZE
    IN IF \/ remaining < PATCH_SECTION_HEADER_SIZE \/ u32(data, s.offset) # PATCH_SECTION_TYPE
          \/ patch_size < PATCH_HEADER_SIZE \/ patch_size > remaining THEN Fail(s)
       ELSE [Reading(s, patch_start + 24) EXCEPT
               !.offset = @ + PATCH_SECTION_HEADER_SIZE + patch_size,
               !.here = @ + 1, !.patches = @ + 1]

Patch(data, s) ==
    LET remaining == Len(data) - s.offset
        section_type == u32(data, s.offset)
        patch_size == u32(data, s.offset + 4)
        patch_start == s.offset + PATCH_SECTION_HEADER_SIZE
    IN CASE remaining < PATCH_SECTION_HEADER_SIZE -> Fail(s)
         [] /\ remaining >= PATCH_SECTION_HEADER_SIZE
            /\ \/ section_type # PATCH_SECTION_TYPE
               \/ patch_size < PATCH_HEADER_SIZE
               \/ patch_size > remaining - PATCH_SECTION_HEADER_SIZE ->
              Fail(Reading(s, patch_start))
         [] OTHER ->
              [Reading(s, patch_start + 24) EXCEPT
                 !.ok = /\ u32(data, patch_start + 4) # 0      \* patch_id
                        /\ u32(data, patch_start + 16) = 0     \* nb_device_id
                        /\ u32(data, patch_start + 20) = 0,    \* sb_device_id
                 !.offset = @ + PATCH_SECTION_HEADER_SIZE + patch_size,
                 !.here = @ + 1,
                 !.patches = @ + 1]

Section(data, s) ==
    IF ~s.ok \/ s.offset >= Len(data) THEN s
    ELSE IF s.containers = 0 \/ MagicAt(data, s.offset) THEN ContainerHeader(data, s)
    ELSE Patch(data, s)

\* No section is shorter than a patch-section header: enough steps for any file.
parse_container_file(data) ==
    LET steps == 1..(Len(data) \div PATCH_SECTION_HEADER_SIZE + 1)
        end == FoldLeft(LAMBDA s, i : Section(data, s), Start, [i \in steps |-> i])
    IN [end EXCEPT !.ok = @ /\ data # <<>> /\ end.here > 0]

-----------------------------------------------------------------------------
(* A directory entry: its name's place in the order of names, whether it   *)
(* is called microcode_amd*.bin, whether it is a plain file, its bytes.    *)

source_containers(entries) ==
    LET found == {e \in entries : e.named /\ e.file}
    IN CHOOSE s \in [1..Cardinality(found) -> found] :
          \A i, j \in DOMAIN s : i < j => s[i].name < s[j].name

main(entries, assembled) ==
    LET inputs == [i \in DOMAIN source_containers(entries) |->
                      source_containers(entries)[i].data]
        Sum(what) == FoldLeft(LAMBDA n, data : n + parse_container_file(data)[what], 0, inputs)
        output == parse_container_file(assembled)
    IN /\ inputs # <<>>
       /\ \A data \in Range(inputs) : parse_container_file(data).ok
       /\ assembled = FlattenSeq(inputs)
       /\ output.ok
       /\ output.containers = Sum("containers")
       /\ output.patches = Sum("patches")

-----------------------------------------------------------------------------
\* The walk of any file reads no byte past its end, and of an accepted file
\* leaves none outside a section.  (parse_container_file: each u32 follows the
\* check that makes room for it, for sizes up to the largest.)
WalkStaysInside(data) ==
    LET walk == parse_container_file(data)
    IN /\ walk.read <= Len(data)
       /\ walk.ok => walk.offset = Len(data)

\* Whatever files pass one by one, their concatenation in the order of names
\* passes as a whole, with the sum of their inventories: the last sections of
\* one file never absorb the first of the next.  (main)
AssemblyOfGoodFilesPasses(data, other) ==
    LET entries == {[name |-> 2, named |-> TRUE, file |-> TRUE, data |-> data],
                    [name |-> 1, named |-> TRUE, file |-> TRUE, data |-> other],
                    [name |-> 3, named |-> FALSE, file |-> TRUE, data |-> other]}
        good == parse_container_file(data).ok /\ parse_container_file(other).ok
    IN good => main(entries, other \o data)
=============================================================================
