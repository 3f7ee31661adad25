---------------------------- MODULE PathParsing -----------------------------
(***************************************************************************)
(* utils.c split_path and parse_path, and the walk of methods.c that calls *)
(* parse_path until nothing is left: how the string a user types becomes   *)
(* the sequence of names that ExtFS starts from.  Every directory the walk *)
(* asks for is taken to exist.  A string is a sequence of characters.      *)
(***************************************************************************)
EXTENDS Integers, Sequences

CONSTANTS Letters,      \* the characters but the slash
          MaxPathLen,   \* fs_info.max_path_len, the buffer of a component
          Strings       \* the paths given

Slash == "/"
Chars == Letters \cup {Slash}

ASSUME PathAssumption == /\ Slash \notin Letters
                         /\ MaxPathLen \in Nat \ {0}
                         /\ Strings \subseteq Seq(Chars) \ {<<>>}

VARIABLES
    path,      \* what the user typed
    splits,    \* is it for touch, mkdir or open, or is it for ls
    pc,        \* "idle", "split", "walk", "found", "refused", "dead"
    rest,      \* what is left to parse
    walked,    \* the components looked up so far
    name,      \* dirname of split_path
    overrun    \* has a buffer of max_path_len been written behind its end

vars == <<path, splits, pc, rest, walked, name, overrun>>

\* strchr from index from on: where the slash is, or 0.
SlashFrom(s, from) ==
    IF \E i \in from .. Len(s) : s[i] = Slash
    THEN CHOOSE i \in from .. Len(s) : s[i] = Slash /\ \A j \in from .. (i - 1) : s[j] # Slash
    ELSE 0

LastSlash(s) == CHOOSE i \in DOMAIN s : s[i] = Slash /\ \A j \in (i + 1) .. Len(s) : s[j] # Slash

Init ==
    /\ path = <<>> /\ splits = FALSE /\ pc = "idle"
    /\ rest = <<>> /\ walked = <<>> /\ name = <<>> /\ overrun = FALSE

\* A command with a path; ls walks it as it is.
Give(s, split) ==
    /\ pc = "idle"
    /\ path' = s /\ splits' = split /\ rest' = s
    /\ pc' = IF split THEN "split" ELSE "walk"
    /\ walked' = <<>> /\ name' = <<>> /\ overrun' = FALSE

\* One slash at the end does not count.
Stripped(s) == IF s[Len(s)] = Slash THEN SubSeq(s, 1, Len(s) - 1) ELSE s

Refuse == pc' = "refused" /\ UNCHANGED <<path, splits, rest, walked, name, overrun>>

(* split_path; what create_file and create_dir go on to copy the name to   *)
(* has room for max_path_len bytes.                                        *)
Split_KeepsSlash ==
    LET last == LastSlash(path)
    IN  /\ pc = "split"
        /\ IF path[1] # Slash \/ last = Len(path)
           THEN Refuse
           ELSE /\ rest' = SubSeq(path, 1, last)
                /\ name' = SubSeq(path, last + 1, Len(path))
                /\ overrun' = (Len(name') >= MaxPathLen)
                /\ pc' = "walk"
                /\ UNCHANGED <<path, splits, walked>>
Split ==
    LET s == Stripped(path)
        last == LastSlash(s)
    IN  /\ pc = "split"
        /\ IF s = <<>> \/ path[1] # Slash \/ last = Len(s)
           THEN Refuse
           ELSE /\ rest' = SubSeq(s, 1, last)
                /\ name' = SubSeq(s, last + 1, Len(s))
                /\ overrun' = (Len(name') >= MaxPathLen)
                /\ pc' = "walk"
                /\ UNCHANGED <<path, splits, walked>>

(* The number of characters parse_path copies.  Without a second slash it  *)
(* takes the first to be in front.                                         *)
NameLength_FromSlash(s) ==
    LET first == SlashFrom(s, 1)
        second == SlashFrom(s, first + 1)
    IN  IF second = 0 THEN Len(s) ELSE second - first
NameLength(s) ==
    LET first == SlashFrom(s, 1)
        second == SlashFrom(s, first + 1)
    IN  IF second = 0 THEN Len(s) - 1 ELSE second - first - 1

\* The component it copies ends with the string, whatever the length says.
ComponentOf_WithSlash(s) ==
    LET first == SlashFrom(s, 1)
        end == first + NameLength(s)
    IN  SubSeq(s, first, IF end > Len(s) THEN Len(s) ELSE end)
ComponentOf(s) ==
    LET first == SlashFrom(s, 1)
        end == first + NameLength(s)
    IN  SubSeq(s, first + 1, IF end > Len(s) THEN Len(s) ELSE end)

\* The walk ends at a single slash.
Arrive ==
    /\ pc = "walk" /\ rest = <<Slash>>
    /\ pc' = "found"
    /\ UNCHANGED <<path, splits, rest, walked, name, overrun>>

\* parse_path: no slash, or nothing behind it, and the process exits.
Exit ==
    /\ pc = "walk" /\ rest # <<Slash>>
    /\ SlashFrom(rest, 1) = 0 \/ NameLength(rest) = 0
    /\ pc' = "dead"
    /\ UNCHANGED <<path, splits, rest, walked, name, overrun>>

(* One level of get_inode_id_of_dir_rec.  The terminator is written one    *)
(* byte behind the byte that ends the name.                                *)
Descend ==
    LET second == SlashFrom(rest, SlashFrom(rest, 1) + 1)
    IN  /\ pc = "walk" /\ rest # <<Slash>>
        /\ SlashFrom(rest, 1) # 0 /\ NameLength(rest) # 0
        /\ walked' = Append(walked, ComponentOf(rest))
        /\ overrun' = (overrun \/ NameLength(rest) + 1 >= MaxPathLen)
        /\ IF second = 0
           THEN pc' = "found" /\ UNCHANGED rest
           ELSE pc' = pc /\ rest' = SubSeq(rest, second, Len(rest))
        /\ UNCHANGED <<path, splits, name>>

\* The next command, in a new process if need be.
NextCommand ==
    /\ pc \in {"found", "refused", "dead"}
    /\ pc' = "idle" /\ path' = <<>> /\ splits' = FALSE
    /\ rest' = <<>> /\ walked' = <<>> /\ name' = <<>> /\ overrun' = FALSE

Next ==
    \/ \E s \in Strings, split \in BOOLEAN : Give(s, split)
    \/ Split \/ Arrive \/ Exit \/ Descend
    \/ NextCommand

Spec == Init /\ [][Next]_vars

----------------------------------------------------------------------------
(* Properties: what a path means, told from the whole string at once.      *)

\* The names in a string: the longest stretches without a slash.
Starts(s) == {i \in DOMAIN s : s[i] # Slash /\ (i = 1 \/ s[i - 1] = Slash)}
NameAt(s, i) == LET next == SlashFrom(s, i)
                IN  SubSeq(s, i, IF next = 0 THEN Len(s) ELSE next - 1)

\* names are the names of s that begin at starts, all of them, in their order.
Enumerates(names, s, starts) ==
    \E at \in [DOMAIN names -> starts] :
        /\ \A k, l \in DOMAIN names : k < l => at[k] < at[l]
        /\ \A i \in starts : \E k \in DOMAIN names : at[k] = i
        /\ \A k \in DOMAIN names : names[k] = NameAt(s, at[k])

\* An absolute path with one slash between names, and perhaps one behind them.
Canonical(s) == s[1] = Slash /\ \A i \in 2 .. Len(s) : ~(s[i] = Slash /\ s[i - 1] = Slash)

(* split_path and parse_path: an absolute path is walked name by name; for *)
(* touch, mkdir and open the last name is split off.                       *)
WalksItsNames ==
    pc = "found" /\ path[1] = Slash =>
        Enumerates(IF splits THEN Append(walked, name) ELSE walked, path, Starts(path))

(* parse_path (utils.h:41): a path without a slash in front ends the       *)
(* process, if split_path has not refused it before.                       *)
RelativeCrashes == pc = "found" => path[1] = Slash

(* No canonical path is refused and none ends the process, but the root's  *)
(* own when a name is asked for.                                           *)
CanonicalAccepted ==
    path # <<>> /\ Canonical(path) /\ pc \in {"refused", "dead"} => splits /\ path = <<Slash>>

(* The buffers of max_path_len bytes: parse_path and strcpy stay in them   *)
(* if the names of an absolute path leave two bytes free.                  *)
StaysInBuffers ==
    overrun /\ path[1] = Slash => \E i \in Starts(path) : Len(NameAt(path, i)) > MaxPathLen - 2
=============================================================================
