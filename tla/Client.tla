------------------------------- MODULE Client -------------------------------
(***************************************************************************)
(* interface/client.h and, of utils.c, read_command_from_stdin and         *)
(* parse_command: how the shell takes its input apart into calls of the    *)
(* handlers, and what may end it.  What a call does to the image is the    *)
(* business of ExtFS; here it returns, ends the process, or finds that the *)
(* host has no descriptor left for the image.  The names of the commands   *)
(* are shortened to one letter, those with the same arguments share one.   *)
(***************************************************************************)
EXTENDS Integers, Sequences, FiniteSets

CONSTANTS Letters,      \* the characters but space and newline
          BufferSize,   \* command_buffer_lenght
          HostFds,      \* how many files the host lets the shell have open
          Scripts       \* what may be typed before the input ends

Newline == "\n"
Space == " "
Characters == Letters \cup {Space, Newline}

Quit == <<"q">>
Plain == <<"i">>   \* init, read_fs, help
Path == <<"m">>    \* ls, mkdir, touch, open
Close == <<"c">>
Write == <<"w">>   \* write, write_from, read_to
Lseek == <<"s">>
Read == <<"r">>

ASSUME ClientAssumption ==
    /\ BufferSize \in Nat /\ BufferSize >= 2
    /\ HostFds \in Nat \ {0}
    /\ Scripts \subseteq Seq(Characters) \ {<<>>}

VARIABLES
    script,     \* what is typed, for the properties to refer to
    input,      \* what of it fgets has not returned yet
    buffer,     \* the command buffer, up to its terminator
    pc,         \* "prompt", "parse", "call", or how the process has ended: "quit",
                \* "exit" (a handler's), "starved" (no descriptor left), "dead"
    leaked,     \* files of the host that lseek_pos has left open
    executed    \* the commands parsed so far

vars == <<script, input, buffer, pc, leaked, executed>>

Smaller(m, n) == IF m < n THEN m ELSE n

\* strchr: the index of the first c in s, or 0.
First(s, c) ==
    IF \E i \in DOMAIN s : s[i] = c
    THEN CHOOSE i \in DOMAIN s : s[i] = c /\ \A j \in 1 .. (i - 1) : s[j] # c
    ELSE 0

\* parse_command: the word in front of the first space, and what is behind it;
\* an empty rest and none are refused alike, but by read.
Word(s) == IF First(s, Space) = 0 THEN s ELSE SubSeq(s, 1, First(s, Space) - 1)
Rest(s) == IF First(s, Space) = 0 THEN <<>> ELSE SubSeq(s, First(s, Space) + 1, Len(s))

WithoutLast(s) == SubSeq(s, 1, Len(s) - 1)

Init ==
    /\ script \in Scripts /\ input = script
    /\ buffer = <<>> /\ pc = "prompt" /\ leaked = 0 /\ executed = <<>>

(* fgets returns a line with its newline, or as much as the buffer holds;  *)
(* at the end of the input it leaves the buffer alone.  The last character *)
(* is then cut off, whatever it is; of an empty buffer, one outside of it: *)
(* the process dies, or finds the same empty command for ever.             *)
ReadLine_LeavesNewline ==
    LET line == First(input, Newline)
        size == Smaller(IF line = 0 THEN Len(input) ELSE line - 1, BufferSize - 1)
    IN  /\ pc = "prompt" /\ input # <<>>
        /\ buffer' = WithoutLast(SubSeq(input, 1, size))
        /\ input' = SubSeq(input, size + 1, Len(input))
        /\ pc' = "parse"
        /\ UNCHANGED <<script, leaked, executed>>
ReadLine ==
    LET line == First(input, Newline)
        size == Smaller(IF line = 0 THEN Len(input) ELSE line, BufferSize - 1)
    IN  /\ pc = "prompt" /\ input # <<>>
        /\ buffer' = WithoutLast(SubSeq(input, 1, size))
        /\ input' = SubSeq(input, size + 1, Len(input))
        /\ pc' = "parse"
        /\ UNCHANGED <<script, leaked, executed>>

ReadNothing ==
    /\ pc = "prompt" /\ input = <<>>
    /\ IF buffer = <<>>
       THEN pc' \in {"dead", "prompt"} /\ UNCHANGED buffer
       ELSE pc' = "parse" /\ buffer' = WithoutLast(buffer)
    /\ UNCHANGED <<script, input, leaked, executed>>

(* The branches of the loop: what each command asks of its arguments, and  *)
(* refuses to go without.  read alone does not look whether there is a     *)
(* first.                                                                  *)
Parse ==
    LET command == Word(buffer)
        arguments == Rest(buffer)
        more == Rest(arguments)
    IN  /\ pc = "parse"
        /\ executed' = Append(executed, buffer)
        /\ \/ command = Quit /\ pc' = "quit"
           \/ command = Plain /\ pc' = "call"
           \/ /\ command \in {Path, Close}
              /\ pc' = IF arguments = <<>> THEN "prompt" ELSE "call"
           \/ /\ command \in {Write, Lseek}
              /\ pc' = IF more = <<>> THEN "prompt" ELSE "call"
           \/ command = Read /\ First(buffer, Space) = 0 /\ pc' = "dead"
           \/ /\ command = Read /\ First(buffer, Space) # 0
              /\ pc' = IF more = <<>> THEN "prompt" ELSE "call"
           \/ command \notin {Quit, Plain, Path, Close, Write, Lseek, Read} /\ pc' = "prompt"
        /\ UNCHANGED <<script, input, buffer, leaked>>

(* A handler opens one file at a time, and exits if the host has no        *)
(* descriptor left for the image (help opens nothing, and write_from gives *)
(* up on its own file first).  It then returns or exits, on an image       *)
(* without a root, a path that does not begin with a slash, a write that   *)
(* fails.  Either way the image is closed, but by lseek_pos when it        *)
(* refuses the descriptor or the position.                                 *)
Handle_RefusalsLeak ==
    /\ pc = "call"
    /\ \/ leaked = HostFds /\ pc' = "starved" /\ UNCHANGED leaked
       \/ /\ leaked = HostFds /\ Word(buffer) \in {Plain, Write}
          /\ pc' = "prompt" /\ UNCHANGED leaked
       \/ leaked < HostFds /\ pc' \in {"prompt", "exit"} /\ UNCHANGED leaked
       \/ /\ leaked < HostFds /\ Word(buffer) \in {Lseek, Read, Write}
          /\ pc' = "prompt" /\ leaked' = leaked + 1
    /\ UNCHANGED <<script, input, buffer, executed>>
Handle ==
    /\ pc = "call"
    /\ \/ leaked = HostFds /\ pc' = "starved" /\ UNCHANGED leaked
       \/ /\ leaked = HostFds /\ Word(buffer) \in {Plain, Write}
          /\ pc' = "prompt" /\ UNCHANGED leaked
       \/ leaked < HostFds /\ pc' \in {"prompt", "exit"} /\ UNCHANGED leaked
       \/ /\ leaked < HostFds /\ Word(buffer) = Lseek
          /\ pc' = "prompt" /\ leaked' = leaked + 1
    /\ UNCHANGED <<script, input, buffer, executed>>

\* The program is started again, with the same input.
Start ==
    /\ pc \in {"quit", "exit", "starved", "dead"}
    /\ input' = script /\ UNCHANGED script
    /\ buffer' = <<>> /\ pc' = "prompt" /\ leaked' = 0 /\ executed' = <<>>

Next == ReadLine \/ ReadNothing \/ Parse \/ Handle \/ Start

Spec == Init /\ [][Next]_vars

----------------------------------------------------------------------------
(* Properties: what a script says, told from the whole of it at once.      *)

\* Its lines end at its newlines; the k-th has k - 1 newlines in front of it.
Newlines(s) == {i \in DOMAIN s : s[i] = Newline}
NewlinesTo(s, i) == Cardinality({j \in Newlines(s) : j <= i})
LineCount(s) == NewlinesTo(s, Len(s))
EndOf(s, k) == CHOOSE i \in Newlines(s) \cup {0} : NewlinesTo(s, i) = k
Line(s, k) == SubSeq(s, EndOf(s, k - 1) + 1, EndOf(s, k) - 1)

\* What is typed behind the last newline.
Unended(s) == SubSeq(s, EndOf(s, LineCount(s)) + 1, Len(s))

\* Each line fits the buffer with its newline and its terminator.
LinesFit(s) ==
    /\ \A k \in 1 .. LineCount(s) : Len(Line(s, k)) + 1 < BufferSize
    /\ Len(Unended(s)) < BufferSize

\* What the k-th command is to be, after those in front of it.
FollowsScript(commands, k) ==
    commands[k] = CASE k <= LineCount(script) -> Line(script, k)
                    [] k = LineCount(script) + 1 /\ Unended(script) # <<>> ->
                            WithoutLast(Unended(script))
                    [] OTHER -> WithoutLast(commands[k - 1])

(* What was executed are the lines typed, in order and each once, as long  *)
(* as each fits the buffer.  Behind them fgets fails: what has been typed  *)
(* last is executed again and again, shorter by a character each time.     *)
ExecutesTheLines ==
    LinesFit(script) => \A k \in DOMAIN executed : FollowsScript(executed, k)

(* The two ways to end that neither quit nor a handler has chosen.  The    *)
(* shell itself dies only at the end of the input, or of a read without    *)
(* arguments; and whatever the other commands do, be they refused or not,  *)
(* it can always open the image until as many lseeks have been given as    *)
(* the host has descriptors.                                               *)
SeeksOf(commands) == {k \in DOMAIN commands : Word(commands[k]) = Lseek}
EndsOf ==
    /\ pc = "dead" => (input = <<>> /\ buffer = <<>>) \/ buffer = Read
    /\ pc = "starved" => Cardinality(SeeksOf(executed)) >= HostFds
=============================================================================
