------------------------------- MODULE S3Key -------------------------------
(***************************************************************************)
(* Object keys and remote paths (src/src/key.rs, src/src/object.rs, and    *)
(* the matching of keys in src/src/client.rs).                             *)
(*                                                                         *)
(* A key is what `split('/')` makes of it: the sequence of its names, in   *)
(* which the empty name stands for two slashes in a row or a slash at      *)
(* either end: "a/b" is <<a, b>>, "a/" is <<a, 0>>, "a//" is <<a, 0, 0>>,  *)
(* and the empty key is <<0>>.  Names are numbers and 0 is the empty one.   *)
(* An absolute path is what follows its first slash, written in the same   *)
(* way.                                                                    *)
(***************************************************************************)
EXTENDS Naturals, FiniteSets, SequencesExt

CONSTANTS
    Name,         \* the names, as numbers
    Extensions,   \* <<m, n>> if the text of name n begins with that of m
    Alone,        \* the place of a name in the order of bytes,
    Slashed       \* and that of a name with a slash behind it

Token == Name \cup {0}

\* A text comes before its extensions, but the slash behind a name may come
\* after them: "a" is before "a.b" and "a.b" before "a/".
ASSUME KeyAssumption ==
    /\ Name \subseteq Nat \ {0}
    /\ Extensions \subseteq Name \X Name
    /\ Alone \in [Token -> Nat] /\ Slashed \in [Token -> Nat]
    /\ \A m, n \in Token :
           /\ Alone[m] = Alone[n] \/ Slashed[m] = Slashed[n] => m = n
           /\ Alone[m] # Slashed[n]
    /\ \A n \in Token : Alone[n] < Slashed[n]
    /\ \A n \in Name : Alone[0] < Alone[n]
    /\ \A e \in Extensions : Alone[e[1]] < Alone[e[2]]

Key == Seq(Token) \ {<<>>}
EmptyKey == <<0>>

-----------------------------------------------------------------------------
(* What S3 does with keys.                                                 *)

\* The text of p is a prefix of the text of key.
HasPrefix(key, p) ==
    /\ Len(p) <= Len(key)
    /\ Front(p) = SubSeq(key, 1, Len(p) - 1)
    /\ LET last == Last(p) IN
       \/ last \in {0, key[Len(p)]}
       \/ <<last, key[Len(p)]>> \in Extensions

\* The place of the i-th name of a key: a slash follows all but the last.
Place(key, i) == IF i < Len(key) THEN Slashed[key[i]] ELSE Alone[key[i]]

\* Keys in the order of their bytes.
Before(j, k) ==
    \E i \in 1 .. Len(j) \cap 1 .. Len(k) :
        /\ SubSeq(j, 1, i - 1) = SubSeq(k, 1, i - 1)
        /\ Place(j, i) < Place(k, i)

\* ListObjectsV2 with a prefix: the first `page` keys that have it.
Listing(keys, p, page) ==
    LET all == {k \in keys : HasPrefix(k, p)}
    IN  {k \in all : Cardinality({j \in all : Before(j, k)}) < page}

\* A listing is in the order of the keys.
IsFirst(k, keys) == k \in keys /\ \A j \in keys : ~ Before(j, k)

-----------------------------------------------------------------------------
(* Conversions.                                                            *)

EndsWithSlash(key) == Len(key) > 1 /\ Last(key) = 0

\* Where a key has names.
Named(key) == {i \in 1 .. Len(key) : key[i] # 0}

\* trim_end_matches('/') and trim_matches('/').
TrimEnd_Bare(key) ==                               \* mutant: a key of slashes
    IF Named(key) = {} THEN <<>> ELSE SubSeq(key, 1, Max(Named(key)))
TrimEnd(key) ==
    IF Named(key) = {} THEN EmptyKey ELSE SubSeq(key, 1, Max(Named(key)))
Trim(key) ==
    IF Named(key) = {} THEN EmptyKey ELSE SubSeq(key, Min(Named(key)), Max(Named(key)))

\* key::from_path of an absolute path.
FromPath(path, is_dir) ==
    IF is_dir /\ Trim(path) # EmptyKey THEN Append(Trim(path), 0) ELSE Trim(path)

\* key::to_path.
ToPath(key) == TrimEnd(key)

\* The names in a path or a key, each with its place among them.
Names(key) == {<<Cardinality(Named(key) \cap (1 .. i)), key[i]>> : i \in Named(key)}

\* Paths are compared name by name: Path::eq skips empty ones.
SamePath(p, q) == Names(p) = Names(q)

\* S3Object::from, and its conversion into a File.
S3Object(key) == [path |-> ToPath(key), is_dir |-> EndsWithSlash(key)]
FileType(entry) == IF entry.is_dir THEN "Directory" ELSE "File"

\* S3Object::object_name: the last name, or the one before a final slash.
ObjectName(key) ==
    IF Last(key) # 0 \/ Len(key) = 1 THEN Last(key) ELSE key[Len(key) - 1]

\* The text of parent followed by a name.
Join_TwoSlashes(parent, name) == Append(parent, name)        \* mutant
Join(parent, name) ==
    IF name = 0 THEN parent ELSE [parent EXCEPT ![Len(parent)] = name]

\* is_direct_child, for a parent that is empty or ends with a slash.
IsDirectChild_AnyDepth(key, parent) ==             \* mutant
    HasPrefix(key, parent) /\ key # parent
IsDirectChild_Directory(key, parent) ==            \* mutant
    key = Append(Join(parent, ObjectName(key)), 0)
IsDirectChild_OrSelf(key, parent) ==               \* mutant
    LET child == Join(parent, ObjectName(key))
    IN  key = child \/ key = Append(child, 0) \/ key = parent
IsDirectChild(key, parent) ==
    LET child == Join(parent, ObjectName(key))
    IN  key = child \/ key = Append(child, 0)

-----------------------------------------------------------------------------
(* Queries.                                                                *)

\* query_objects: the keys of one page under `key`, or its direct children.
QueryObjects(keys, key, only_direct_children, page) ==
    {k \in Listing(keys, key, page) : only_direct_children => IsDirectChild(k, key)}

\* stat_key: what it finds are the objects whose path is that of `key` and
\* which are directories iff `key` is one.  It takes the first.
StatKey_Files(keys, key, page) ==                  \* mutant: finds files only
    {k \in QueryObjects(keys, key, FALSE, page) :
         SamePath(S3Object(k).path, ToPath(key)) /\ ~ S3Object(k).is_dir}
StatKey(keys, key, page) ==
    {k \in QueryObjects(keys, key, FALSE, page) :
         /\ SamePath(S3Object(k).path, ToPath(key))
         /\ S3Object(k).is_dir = EndsWithSlash(key)}
=============================================================================
