------------------------------ MODULE Keyboard ------------------------------
(***************************************************************************)
(* The keyboard path from a key press to the shell's command line:        *)
(* keyboard_isr (keyboard.c) turns a scancode into one character in the    *)
(* one-character keyboard_buffer; the shell's main loop (user-shell.c)     *)
(* polls it through syscall 4 (get_keyboard_buffer), builds the line in    *)
(* temp_buf, and after a newline runs the command and turns input back on  *)
(* through syscall 7 (keyboard_state_activate).  The framebuffer echo and  *)
(* the cursor are left out: they change no state the shell reads.          *)
(* Characters are their ASCII codes, 0 meaning none.                       *)
(***************************************************************************)
EXTENDS Integers, Sequences

CONSTANTS
    SCANCODES,     \* the scancodes the user may produce
    MAX_PRESSES    \* key events in one behaviour

\* keyboard_scancode_1_to_ascii_map, at the scancodes of SCANCODES.
AsciiMap ==
    [s \in SCANCODES |->
        CASE s = 2 -> 49        \* '1'
          [] s = 14 -> 8        \* '\b'
          [] s = 28 -> 10       \* '\n'
          [] s = 45 -> 120      \* 'x'
          [] s = 46 -> 99       \* 'c'
          [] OTHER -> 0]

\* shift_map, at the one non-zero entry the characters above reach.
ShiftMap(c) == IF c = 49 THEN 33 ELSE 0   \* '1' -> '!'

VARIABLES
    keyboard_buffer, buffer_index, keyboard_input_on,
    shift_on, capslock_on, ctrl_on,
    temp_buf,      \* the shell's line so far
    shell,         \* "activate" (about to call syscall 7) or "poll"
    presses        \* key events so far

vars == <<keyboard_buffer, buffer_index, keyboard_input_on, shift_on,
          capslock_on, ctrl_on, temp_buf, shell, presses>>

\* kernel_setup calls keyboard_state_activate before it starts the shell,
\* whose main activates once more before its loop.
Init ==
    /\ keyboard_buffer = 0
    /\ buffer_index = 0
    /\ keyboard_input_on = TRUE
    /\ shift_on = FALSE
    /\ capslock_on = FALSE
    /\ ctrl_on = FALSE
    /\ temp_buf = <<>>
    /\ shell = "activate"
    /\ presses = 0

\* The modifier updates of the switch in keyboard_isr.
Modifiers(s) ==
    /\ capslock_on' = IF s = 58 THEN ~capslock_on ELSE capslock_on
    /\ shift_on' = CASE s \in {42, 54} -> TRUE
                     [] s \in {170, 182} -> FALSE
                     [] OTHER -> shift_on
    /\ ctrl_on' = CASE s = 29 -> TRUE
                    [] s = 157 -> FALSE
                    [] OTHER -> ctrl_on

\* The character a printable key stores, after caps lock and shift.
Shifted(c) ==
    IF c >= 97 /\ c <= 122
    THEN IF capslock_on' # shift_on' THEN 65 + c - 97 ELSE c
    ELSE IF shift_on' /\ c < 97 /\ ShiftMap(c) # 0 THEN ShiftMap(c) ELSE c

\* keyboard_isr for one scancode.
KeyboardIsr(s) ==
    /\ presses < MAX_PRESSES
    /\ presses' = presses + 1
    /\ UNCHANGED <<temp_buf, shell>>
    /\ IF ~keyboard_input_on
       THEN /\ buffer_index' = 0
            /\ UNCHANGED <<keyboard_buffer, keyboard_input_on, shift_on,
                           capslock_on, ctrl_on>>
       ELSE LET c == AsciiMap[s] IN
            /\ Modifiers(s)
            /\ CASE c = 0 ->
                      UNCHANGED <<keyboard_buffer, buffer_index, keyboard_input_on>>
                 [] ctrl_on' /\ c \in {99, 67} ->
                      /\ keyboard_input_on' = FALSE
                      /\ UNCHANGED <<keyboard_buffer, buffer_index>>
                 [] c = 8 ->
                      /\ IF buffer_index > 0
                         THEN /\ buffer_index' = buffer_index - 1
                              /\ keyboard_buffer' = 8
                         ELSE UNCHANGED <<buffer_index, keyboard_buffer>>
                      /\ UNCHANGED keyboard_input_on
                 [] c = 10 ->
                      /\ keyboard_buffer' = 10
                      /\ keyboard_input_on' = FALSE
                      /\ UNCHANGED buffer_index
                 [] OTHER ->
                      /\ keyboard_buffer' = Shifted(c)
                      /\ buffer_index' = buffer_index + 1
                      /\ UNCHANGED keyboard_input_on

\* get_keyboard_buffer, syscall 4: the character, and retcode -1 when none.
get_keyboard_buffer ==
    [buf |-> keyboard_buffer, retcode |-> IF keyboard_buffer = 0 THEN -1 ELSE 0]

\* One turn of the shell's input loop: get_user_input (syscall 4, which
\* also clears a non-empty buffer), then the newline, backspace or append
\* branch.
ShellPoll ==
    LET r == get_keyboard_buffer IN
    /\ shell = "poll"
    /\ keyboard_buffer' = 0
    /\ CASE r.retcode = -1 -> UNCHANGED <<temp_buf, shell>>
         [] r.buf = 10 -> temp_buf' = <<>> /\ shell' = "activate"
         [] r.buf = 8 ->
              /\ temp_buf' = IF Len(temp_buf) > 0
                             THEN SubSeq(temp_buf, 1, Len(temp_buf) - 1)
                             ELSE temp_buf
              /\ UNCHANGED shell
         [] OTHER -> temp_buf' = Append(temp_buf, r.buf) /\ UNCHANGED shell
    /\ UNCHANGED <<buffer_index, keyboard_input_on, shift_on, capslock_on,
                   ctrl_on, presses>>

\* The end of every command branch (and main's start): activate_keyboard,
\* syscall 7, keyboard_state_activate.  keyboard_buffer is not cleared.
ShellActivate ==
    /\ shell = "activate"
    /\ buffer_index' = 0
    /\ keyboard_input_on' = TRUE
    /\ shift_on' = FALSE
    /\ capslock_on' = FALSE
    /\ ctrl_on' = FALSE
    /\ shell' = "poll"
    /\ UNCHANGED <<keyboard_buffer, temp_buf, presses>>

Next == ShellActivate \/ ShellPoll \/ \E s \in SCANCODES : KeyboardIsr(s)

Spec == Init /\ [][Next]_vars

-----------------------------------------------------------------------------
\* No key the driver accepted and echoed is missing from the line: once
\* the shell has taken the buffer, temp_buf is at least as long as the
\* driver's buffer_index (printable characters typed since the last
\* keyboard_state_activate, minus those erased).  keyboard_isr overwrites
\* keyboard_buffer whether or not the shell has taken the previous
\* character.  (A longer line is possible and not a loss: a key stored just
\* before keyboard_state_activate survives the reset of buffer_index.)
LineKeepsEveryKey ==
    shell = "poll" /\ keyboard_buffer = 0 => Len(temp_buf) >= buffer_index

=============================================================================
