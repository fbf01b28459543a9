------------------------------- MODULE Names --------------------------------
(***************************************************************************)
(* Names on disk: long_name_split and generate_short_name of src/vfs.rs,   *)
(* and the ways back, ShortDirectoryEntry::name and                        *)
(* LongDirectoryEntry::name_format of src/dir_entry.rs.                    *)
(*                                                                         *)
(* A name is a nonempty sequence of ASCII characters, a character a        *)
(* string.  Others are cut to their low byte by name_format, and a first   *)
(* one of several bytes makes generate_short_name panic.                   *)
(***************************************************************************)
EXTENDS Integers, Sequences, FiniteSetsExt, SequencesExt

CONSTANTS
    LONG_NAME_LEN,         \* 13
    SHORT_FILE_NAME_LEN,   \* 8
    SHORT_FILE_EXT_LEN,    \* 3
    Uppercase              \* by character allowed in a short name: its capital

ASSUME NameLengths ==
    /\ LONG_NAME_LEN \in Nat \ {0}
    /\ SHORT_FILE_NAME_LEN \in Nat /\ SHORT_FILE_EXT_LEN \in Nat

Nul     == "nul"     \* 0x0000
Padding == "0xFFFF"
Dot     == "."
Space   == " "

-----------------------------------------------------------------------------
(* Long names.                                                             *)

NumPieces(name) == (Len(name) + LONG_NAME_LEN - 1) \div LONG_NAME_LEN

\* Pieces of LONG_NAME_LEN; only one that is not full is terminated.
LongNameSplit(name) ==
    [i \in 1 .. NumPieces(name) |-> [j \in 1 .. LONG_NAME_LEN |->
        LET k == (i - 1) * LONG_NAME_LEN + j IN
        CASE k <= Len(name)     -> name[k]
          [] k = Len(name) + 1  -> Nul
          [] OTHER              -> Padding]]

\* name_format of one piece: up to its Nul.
NameFormat(piece) ==
    LET ends == {j \in DOMAIN piece : piece[j] = Nul}
    IN  IF ends = {} THEN piece ELSE SubSeq(piece, 1, Min(ends) - 1)

\* dirent_info puts each piece it reads in front of what it has.
Joined(pieces) == FoldLeft(LAMBDA name, piece : NameFormat(piece) \o name, <<>>, pieces)

-----------------------------------------------------------------------------
(* Short names.                                                            *)

\* copy_short_name_part: dots and spaces go, what is not allowed becomes _.
CopyShortNamePart(len, src) ==
    LET kept  == SelectSeq(src, LAMBDA c : c \notin {Dot, Space})
        fixed == [i \in DOMAIN kept |->
                    IF kept[i] \in DOMAIN Uppercase THEN Uppercase[kept[i]] ELSE "_"]
    IN  SubSeq(fixed, 1, Min({len, Len(fixed)}))

\* The extension starts behind the last dot that is not the first character.
GenerateShortName(name) ==
    LET dots == {i \in 2 .. Len(name) : name[i] = Dot}
        base == IF dots = {} THEN name ELSE SubSeq(name, 1, Max(dots) - 1)
        ext  == IF dots = {} THEN <<>> ELSE SubSeq(name, Max(dots) + 1, Len(name))
    IN  [base |-> CopyShortNamePart(SHORT_FILE_NAME_LEN, base),
         ext  |-> CopyShortNamePart(SHORT_FILE_EXT_LEN, ext)]

\* ShortDirectoryEntry::name
ShortName(short) ==
    short.base \o (IF short.ext = <<>> THEN <<>> ELSE <<Dot>> \o short.ext)
=============================================================================
