------------------------------ MODULE FileStat ------------------------------
(***************************************************************************)
(* What the library makes of st_mode and d_type: the flags of              *)
(* bc_io_file_stat_t, the type of a directory entry, and the character of  *)
(* a listing.  A mode is 4096 times the type plus twelve permission bits.  *)
(***************************************************************************)
EXTENDS Integers

PermissionBits == 4096   \* BC_IO_FILE_STAT_PERMISSION_BITS_MASK + 1

(* S_IFMT of <sys/stat.h>, shifted down; DT_* of <dirent.h> are the same. *)
Types == [fifo |-> 1, character_device |-> 2, directory |-> 4, block_device |-> 6,
          regular |-> 8, symlink |-> 10, socket |-> 12]

TypeOf(mode) == mode \div PermissionBits

Is(kind, mode) == TypeOf(mode) = Types[kind]

(* bc_io_file_stat_fill_from_struct_stat: the flags that are set. *)
FillFromStructStat(mode) ==
  [flags |-> {kind \in DOMAIN Types : Is(kind, mode)}, mode |-> mode % PermissionBits]

(* bc_io_file_dtype_to_entry_type *)
DtypeToEntryType(d_type) ==
  CASE d_type = Types.regular -> "file"
    [] d_type = Types.directory -> "directory"
    [] d_type = Types.symlink -> "symlink"
    [] OTHER -> "other"

(* bc_io_file_stat_if_unknown, when fstatat succeeds *)
StatIfUnknown(mode) ==
  IF Is("regular", mode) THEN "file"
  ELSE IF Is("directory", mode) THEN "directory"
  ELSE IF Is("symlink", mode) THEN "symlink"
  ELSE "other"

(* Variant: block and character devices are swapped. *)
SwappedTypeChar(mode) ==
  CASE Is("regular", mode) -> "-" [] Is("directory", mode) -> "d" [] Is("symlink", mode) -> "l"
    [] Is("character_device", mode) -> "b" [] Is("block_device", mode) -> "c"
    [] Is("fifo", mode) -> "p" [] Is("socket", mode) -> "s" [] OTHER -> "?"

(* bc_io_perm_file_type_char *)
FileTypeChar(mode) ==
  CASE Is("regular", mode) -> "-" [] Is("directory", mode) -> "d" [] Is("symlink", mode) -> "l"
    [] Is("character_device", mode) -> "c" [] Is("block_device", mode) -> "b"
    [] Is("fifo", mode) -> "p" [] Is("socket", mode) -> "s" [] OTHER -> "?"

TypeChars == {"-", "d", "l", "c", "b", "p", "s", "?"}
=============================================================================
