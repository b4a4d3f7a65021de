-------------------------------- MODULE Ext2 --------------------------------
(***************************************************************************)
(* The algorithms of ext2_volume and tar_volume over an image that does    *)
(* not change: where an inode lies, which block holds a piece of a file,   *)
(* which bytes a read copies, how a directory is searched and listed, what *)
(* the initrd's constructor finds.  Each is followed by the definition it  *)
(* is checked against.  A byte of a file is its position, a data block its *)
(* index in the file; Junk is memory the code never wrote.                 *)
(***************************************************************************)
EXTENDS Integers, Sequences, FiniteSets, SequencesExt

CONSTANTS
    BlockSize,       \* bytes of a block
    InodeSize,       \* bytes of an inode
    InodesPerGroup,
    Direct,          \* INODE_IND_BLOCK, 12 in the code
    Entries,         \* entries_per_block, block numbers in an indirect block
    Junk

ASSUME Ext2Assumption ==
    /\ {BlockSize, InodeSize, InodesPerGroup, Direct, Entries} \subseteq Nat \ {0}
    /\ BlockSize % InodeSize = 0

-----------------------------------------------------------------------------
\* read_inode: the group, the block of its inode table and the inode in it.
ReadInode(num) ==
    LET bgOffset == (num - 1) % InodesPerGroup
    IN <<(num - 1) \div InodesPerGroup, (bgOffset * InodeSize) \div BlockSize,
         bgOffset % (BlockSize \div InodeSize)>>

\* The block a pointer of a file of n blocks names, 0 past the end.
Pointer(n, i) == IF i < n THEN i + 1 ELSE 0

\* Block numbers past block_count, which read_block refuses: those of data blocks,
\* and of the indirect blocks.
Indirect == -1
DoubleIndirect == -2

\* Mutant: the first block behind the direct ones is looked up among them.
FindDataBlockDirect(n, index, past) == IF index <= Direct THEN IF index = Direct THEN Junk
    ELSE Pointer(n, index) ELSE Pointer(n, index)
\* find_data_block.  The double indirect lookup does not subtract the blocks the
\* single indirect one covers; the triple indirect one indexes past its buffer.
\* e is the outcome of a comparison, so that an indirect block that cannot be read
\* gives block number 1.
FindDataBlock(n, index, past) ==
    LET behind == index - Direct
        dind == [j \in 0 .. Entries - 1 |-> [k \in 0 .. Entries - 1 |->
                    Pointer(n, Direct + Entries + j * Entries + k)]]
    IN CASE index < Direct -> Pointer(n, index)
         [] index >= Direct /\ index < Direct + Entries ->
               IF Indirect \in past THEN 1 ELSE Pointer(n, Direct + behind)
         [] index >= Direct + Entries /\ index < Direct + Entries * Entries ->
               IF DoubleIndirect \in past THEN 1 ELSE dind[behind \div Entries][behind % Entries]
         [] OTHER -> Junk

\* intervals_needed
IntervalsNeeded(x, interval) == (x + interval - 1) \div interval

\* read of size bytes at offset: [ret, the bytes in the caller's buffer].  A data
\* block that cannot be read ends it with 1, what was copied before it stays.
FirstSize(offset, size) ==
    IF BlockSize - (offset % BlockSize) < size THEN BlockSize - (offset % BlockSize) ELSE size
Read(fileSize, offset, wanted, past) ==
    LET n == IntervalsNeeded(fileSize, BlockSize)
        size == IF offset + wanted > fileSize THEN fileSize - offset ELSE wanted
        start == offset \div BlockSize
        count == IntervalsNeeded(offset + size, BlockSize) - start
        number(i) == FindDataBlock(n, start + i, past)
        refused == {i \in 0 .. count - 1 : number(i) \in past}
        whole == IF refused = {} THEN count ELSE Min(refused)
        block(i) == LET b == number(i) IN
                    [k \in 1 .. BlockSize |->
                        IF b \in {0, Junk} THEN Junk ELSE (b - 1) * BlockSize + k - 1]
        piece(i) == IF i = 0 THEN SubSeq(block(0), (offset % BlockSize) + 1,
                                         (offset % BlockSize) + FirstSize(offset, size))
                    ELSE IF i = count - 1 THEN SubSeq(block(i), 1, (offset + size) % BlockSize)
                    ELSE block(i)
        copied == FlattenSeq([i \in 1 .. whole |-> piece(i - 1)])
    IN IF offset >= fileSize THEN [ret |-> 0, bytes |-> <<>>]
       ELSE IF refused # {} THEN [ret |-> 1, bytes |-> copied]
       ELSE [ret |-> size,
             bytes |-> copied \o [i \in 1 .. (size - Len(copied)) |-> Junk]]

-----------------------------------------------------------------------------
(* A directory is a sequence of blocks, a block a sequence of entries      *)
(* [ino, name] that fill it; a deleted entry has inode 0.                  *)

\* find_dir up to the inode: entry after entry, block after block.
MaxEntries(dir) == 1 + Len(FlattenSeq(dir))
FindDir(dir, name) ==
    LET walk[b \in 1 .. Len(dir) + 1, k \in 1 .. MaxEntries(dir)] ==
            IF b > Len(dir) THEN 0
            ELSE IF dir[b][k].ino > 0 /\ dir[b][k].name = name THEN dir[b][k].ino
            ELSE IF k = Len(dir[b]) THEN walk[b + 1, 1] ELSE walk[b, k + 1]
    IN walk[1, 1]

LiveEntries(dir) == {e \in Range(FlattenSeq(dir)) : e.ino > 0}
FindDirRef(dir, name) ==
    IF \E e \in LiveEntries(dir) : e.name = name
    THEN (CHOOSE e \in LiveEntries(dir) : e.name = name).ino ELSE 0

\* read_dir's loop.  A deleted entry shortens the walk by one; the end of a
\* block is not noticed (the test is > and not >=), so the walk runs into the
\* memory behind it.
ReadDir(dir, index) ==
    LET walk[i \in 0 .. index, idx \in -1 .. index, k \in 1 .. MaxEntries(dir)] ==
            IF k > Len(dir[1]) THEN Junk
            ELSE IF i >= idx THEN dir[1][k]
            ELSE walk[i + 1, IF dir[1][k].ino = 0 THEN idx - 1 ELSE idx, k + 1]
    IN IF index >= MaxEntries(dir) THEN Junk ELSE walk[0, index, 1]

-----------------------------------------------------------------------------
(* The initrd: a sequence of 512-byte blocks, headers [name, type, blocks] *)
(* and data.                                                               *)

\* Mutant: the constructor does not skip a file's data.
TarChildrenNoSkip(a) ==
    LET walk[i \in 1 .. Len(a) + 3] ==
            IF i > Len(a) \/ a[i].type = "end" THEN <<>>
            ELSE IF a[i].type = "dir" THEN <<a[i].name>> \o walk[i + 2]
            ELSE <<IF a[i].type = "file" THEN a[i].name ELSE Junk>> \o walk[i + 1]
    IN walk[1]

\* read_directory finds no entry in any directory (the first header it compares
\* with is the directory's own) and returns the block after it.
ReadDirectory(i) == i + 1
\* tar_volume's constructor: its loop steps over the block read_directory
\* returned; an entry that is neither a file nor a directory leaves its child unset.
TarChildren(a) ==
    LET walk[i \in 1 .. Len(a) + 3] ==
            IF i > Len(a) \/ a[i].type = "end" THEN <<>>
            ELSE IF a[i].type = "dir" THEN <<a[i].name>> \o walk[ReadDirectory(i) + 1]
            ELSE <<IF a[i].type = "file" THEN a[i].name ELSE Junk>> \o walk[i + a[i].blocks + 1]
    IN walk[1]

\* make_node's flags: the k-th child is a directory.
TarIsDir(a, k) ==
    k \in DOMAIN TarChildren(a)
    /\ \E i \in DOMAIN a : a[i].type = "dir" /\ a[i].name = TarChildren(a)[k]

\* tar_volume::read_dir of the volume's root, "" behind the end.
TarReadDir(a, index) ==
    IF index >= Len(TarChildren(a)) + 2 THEN ""
    ELSE (<<".", "..">> \o TarChildren(a))[index + 1]

TarRef(a) == {a[i].name : i \in {j \in DOMAIN a : a[j].type = "file"}}
Flat(a) == \A i \in DOMAIN a : a[i].type \in {"file", "data", "end"}
=============================================================================
