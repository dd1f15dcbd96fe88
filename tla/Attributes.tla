----------------------------- MODULE Attributes -----------------------------
(***************************************************************************)
(* The extended attributes of src/kernel/fat.c: a table in memory, keyed   *)
(* by the text of a path and a name.  Files are not asked: an attribute of *)
(* a path outlives its file, and two texts of one path are two keys.       *)
(***************************************************************************)
EXTENDS Integers, FiniteSets

CONSTANTS
  PathTexts, AttrNames,     \* valid texts: neither empty nor too long
  Values,                   \* values that fit into an entry
  NoValue,                  \* in none of them
  FAT_XATTR_MAX_ENTRIES

\* No value is one of the answers (which are of another type in the code).
ASSUME AttributesAssumption ==
  /\ FAT_XATTR_MAX_ENTRIES \in Nat
  /\ NoValue \notin Values
  /\ Values \cap {"none", "set", "removed", "EEXIST", "ENODATA", "ENOSPC"} = {}

VARIABLES
  fat_xattr_table,  \* the entries; one that is not used holds nothing
  attrReturn,       \* what the last call returned
  asked,            \* history: its key
  promised          \* history: the value last set under each key and not removed

attrVars == <<fat_xattr_table, attrReturn, asked, promised>>

Entries == 1..FAT_XATTR_MAX_ENTRIES
Unused == [used |-> FALSE]
XattrFlags == {"none", "create", "replace"}

AttrInit ==
  /\ fat_xattr_table = [i \in Entries |-> Unused]
  /\ attrReturn = "none" /\ asked = <<>>
  /\ promised = [key \in PathTexts \X AttrNames |-> NoValue]

fat_xattr_find_free == {i \in Entries : ~fat_xattr_table[i].used}

\* The entries of a key; the first free entry is looked for only if there is none.
fat_xattr_find(key) ==
  {i \in Entries : fat_xattr_table[i].used /\ fat_xattr_table[i].key = key}

FirstEntry(set) == CHOOSE i \in set : \A k \in set : i <= k

fat_setxattr(key, value, flags) ==
  LET found == fat_xattr_find(key)
      target == IF found # {} THEN found ELSE fat_xattr_find_free
      Refuses(error) == attrReturn' = error /\ UNCHANGED <<fat_xattr_table, promised>>
  IN /\ asked' = key
     /\ IF found # {} /\ flags = "create" THEN Refuses("EEXIST")
        ELSE IF found = {} /\ flags = "replace" THEN Refuses("ENODATA")
        ELSE IF target = {} THEN Refuses("ENOSPC")
        ELSE /\ fat_xattr_table' = [fat_xattr_table EXCEPT ![FirstEntry(target)] =
                                      [used |-> TRUE, key |-> key, value |-> value]]
             /\ promised' = [promised EXCEPT ![key] = value]
             /\ attrReturn' = "set"

\* The value, in a buffer that is large enough for it.
fat_getxattr(key) ==
  LET found == fat_xattr_find(key)
  IN /\ asked' = key
     /\ attrReturn' = IF found = {} THEN "ENODATA"
                      ELSE fat_xattr_table[FirstEntry(found)].value
     /\ UNCHANGED <<fat_xattr_table, promised>>

fat_removexattr(key) ==
  LET found == fat_xattr_find(key)
  IN /\ asked' = key
     /\ IF found = {}
          THEN attrReturn' = "ENODATA" /\ UNCHANGED <<fat_xattr_table, promised>>
          ELSE /\ fat_xattr_table' = [fat_xattr_table EXCEPT ![FirstEntry(found)] = Unused]
               /\ promised' = [promised EXCEPT ![key] = NoValue]
               /\ attrReturn' = "removed"

AttrNext ==
  \E key \in PathTexts \X AttrNames :
    \/ \E value \in Values, flags \in XattrFlags : fat_setxattr(key, value, flags)
    \/ fat_getxattr(key)
    \/ fat_removexattr(key)

(***************************************************************************)
(* Properties.                                                             *)
(***************************************************************************)

\* The table is a map: what a call returns, or refuses, is what a map from keys to
\* values with room for so many keys would, and no key has an entry left over after a
\* removal or beside another (fat_setxattr, fat_getxattr, fat_removexattr).
AttributesAreAMap ==
  /\ \A key \in DOMAIN promised :
       LET held == {i \in Entries : fat_xattr_table[i].used /\ fat_xattr_table[i].key = key}
       IN /\ Cardinality(held) = IF promised[key] = NoValue THEN 0 ELSE 1
          /\ \A i \in held : fat_xattr_table[i].value = promised[key]
  /\ CASE attrReturn \in Values \cup {"set", "EEXIST"} -> promised[asked] # NoValue
       [] attrReturn \in {"ENODATA", "removed"} -> promised[asked] = NoValue
       [] attrReturn = "ENOSPC" -> Cardinality({key \in DOMAIN promised :
              promised[key] # NoValue}) = FAT_XATTR_MAX_ENTRIES
       [] OTHER -> asked = <<>>
  /\ attrReturn \in Values => promised[asked] = attrReturn

=============================================================================
