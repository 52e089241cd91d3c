------------------------------ MODULE Terminal ------------------------------
(***************************************************************************)
(* The keyboard driver (Kernel/c/drivers/keyboardDriver.c) and the reads   *)
(* of the terminal it serves (fd_read).  Of the kernel's state the         *)
(* operations use, beside what FileDescriptor uses,                        *)
(*   k.buff           the ring of keys nobody has read (raw mode)          *)
(*   k.tty            the line discipline: mode, line, line_ready, eof     *)
(*   k.kbd_waiting_process                                                 *)
(*   k.foreground     the processes that may read the terminal             *)
(* Echo and shift are left out: a key is a character, or Ctrl and a letter.*)
(***************************************************************************)
EXTENDS FileDescriptor

CONSTANTS
  BUFF_LENGTH,      \* of the ring of keys (256)
  TTY_LINE_SIZE     \* sizeof(tty_line) (256)

ASSUME TerminalAssumption == /\ BUFF_LENGTH \in Nat \ {0}
                             /\ TTY_LINE_SIZE \in Nat \ {0}

Nobody == "nobody"
Newline == "newline"
Letter == "letter"
Backspace == "backspace"
EndOfFile == "end_of_file"      \* 0x04
Characters == {Newline, Letter, Backspace}

NewLine(mode) == [mode |-> mode, line |-> <<>>, line_ready |-> FALSE, eof |-> FALSE]

\* Whatever was typed of a line is forgotten.
tty_set_mode(k, mode) == [k EXCEPT !.tty = NewLine(mode)]

(***************************************************************************)
(* Keys come in: handlePressedKey, in the keyboard's interrupt             *)
(***************************************************************************)
\* Mutant of writeBuff: nothing is dropped for the new key.
write_unbounded(k, c) == [k EXCEPT !.buff = Append(@, c)]

\* A full ring drops its oldest key.
writeBuff(k, c) == [k EXCEPT !.buff = IF Len(@) < BUFF_LENGTH THEN Append(@, c)
                                      ELSE Append(Tail(@), c)]

\* kbd_waiting_process->state = PROCESS_READY, whatever its state was.
wake_waiting(k) ==
  IF k.kbd_waiting_process = Nobody THEN k
  ELSE [k EXCEPT !.state[k.kbd_waiting_process] = "READY",
                 !.kbd_waiting_process = Nobody]

\* The key goes into the line of the process that waits for one.
edits_line(k) == k.tty.mode = "COOKED" /\ k.kbd_waiting_process # Nobody

line_char(k, c) ==
  CASE c = Newline ->
         wake_waiting([k EXCEPT !.tty.line = Append(@, c), !.tty.line_ready = TRUE])
    [] c = Backspace ->
         [k EXCEPT !.tty.line = IF @ = <<>> THEN @ ELSE Front(@)]
    [] OTHER ->
         [k EXCEPT !.tty.line = IF Len(@) < TTY_LINE_SIZE - 1 THEN Append(@, c) ELSE @]

press(k, c) == IF edits_line(k) THEN line_char(k, c) ELSE wake_waiting(writeBuff(k, c))

press_ctrl_d(k) ==
  IF edits_line(k)
  THEN wake_waiting(IF k.tty.line # <<>> THEN [k EXCEPT !.tty.line_ready = TRUE]
                    ELSE [k EXCEPT !.tty.eof = TRUE])
  ELSE wake_waiting(writeBuff(k, EndOfFile))

(***************************************************************************)
(* Processes read: fd_read of a terminal                                   *)
(***************************************************************************)
\* The loop of readKeyBuff compares how many keys it has copied with how many
\* are left: it stops half way.
readKeyBuff(k, count) == Min({count, (Len(k.buff) + 1) \div 2})

kbd_set_waiting(k, p) == [k EXCEPT !.kbd_waiting_process = p, !.state[p] = "BLOCKED"]

\* Mutant of kbd_clear_waiting: the driver keeps its pointer to the process.
clear_nothing(k, p) == k

kbd_clear_waiting(k, p) ==
  [k EXCEPT !.kbd_waiting_process = IF @ = p THEN Nobody ELSE @]

Got(k, bytes) == [k |-> k, ret |-> Len(bytes), bytes |-> bytes]
GotNothing(k) == Got(k, <<>>)
Sleeps(k, p) == [k |-> kbd_set_waiting(k, p), ret |-> BLOCKED_CALL, bytes |-> <<>>]

read_cooked(k, p, count) ==
  LET n == Min({count, Len(k.tty.line)})
      rest == SubSeq(k.tty.line, n + 1, Len(k.tty.line))
  IN IF k.tty.eof /\ k.tty.line = <<>> THEN GotNothing([k EXCEPT !.tty.eof = FALSE])
     ELSE IF k.tty.line_ready \/ k.tty.eof
     THEN Got([k EXCEPT !.tty = IF rest = <<>> THEN NewLine("COOKED")
                                ELSE [@ EXCEPT !.line = rest]],
              SubSeq(k.tty.line, 1, n))
     ELSE Sleeps(k, p)

\* An 0x04 at the front means end of file, and takes along what was read with it.
read_raw(k, p, count) ==
  LET n == readKeyBuff(k, count)
      bytes == SubSeq(k.buff, 1, n)
      k1 == [k EXCEPT !.buff = SubSeq(@, n + 1, Len(@))]
  IN IF n = 0 THEN Sleeps(k, p)
     ELSE IF Head(bytes) = EndOfFile THEN GotNothing(k1)
     ELSE Got(k1, bytes)

terminal_read(k, p, count) ==
  IF p \notin k.foreground THEN GotNothing(k)
  ELSE IF k.tty.mode = "COOKED" THEN read_cooked(k, p, count)
  ELSE read_raw(k, p, count)

(***************************************************************************)
(* Reads and writes of any descriptor (fd_read, fd_write)                  *)
(***************************************************************************)
fd_read(k, f, p, count) ==
  LET d == k.fd_table[f]
  IN IF ~fd_valid(k, f) THEN GotNothing(k)
     ELSE CASE d.type = "TERMINAL" -> terminal_read(k, p, count)
            [] d.type = "PIPE_READ" ->
                 LET r == pipe_read(k, d.data, p, count)
                 IN [k |-> r.k, ret |-> r.ret, bytes |-> <<>>]
            [] OTHER -> GotNothing(k)

\* The screen takes everything.
fd_write(k, f, p, count) ==
  LET d == k.fd_table[f]
  IN IF ~fd_valid(k, f) THEN [k |-> k, ret |-> 0]
     ELSE CASE d.type = "TERMINAL" -> [k |-> k, ret |-> count]
            [] d.type = "PIPE_WRITE" -> pipe_write(k, d.data, p, count)
            [] OTHER -> [k |-> k, ret |-> 0]

=============================================================================
