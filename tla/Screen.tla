------------------------------- MODULE Screen -------------------------------
(***************************************************************************)
(* The screen, shared by the main task and taskB: windows with a fore and  *)
(* a back buffer (kernel/src/graphic/buffered.rs), layers, console, and    *)
(* the locks around them. A task is a list of instructions still to be     *)
(* executed, and may be preempted between any two. An instruction takes or *)
(* releases a lock, or does some work; a task that finds a lock taken      *)
(* spins. taskB runs once KernelMain2 has enabled interrupts.              *)
(***************************************************************************)
EXTENDS Console, Windows

CONSTANTS
  Width, Height, Stride,   \* of the screen
  Format,                  \* of the screen's pixels
  Moves,                   \* the displacements that a mouse reports
  Texts                    \* what is printed

VARIABLES
  todo,          \* what each task has still to do
  held,          \* the locks held: <<lock, task, mode>>
  wins,          \* the windows
  layer_stack,
  shadow,        \* LayeredWindowManager: where layers are put together
  vram,          \* LayeredWindowManager: the screen
  con,           \* the console
  frame,         \* number of the frame that is drawn next into a window
  drawn,         \* the windows that the last draw has drawn, as they were
  sti            \* interrupts are enabled

vars == <<todo, held, wins, layer_stack, shadow, vram, con, frame, drawn, sti>>

Task == {"main", "taskB"}

-----------------------------------------------------------------------------
(* Instructions. A guard is dropped where the code leaves its scope.        *)
Lock(lock, mode) == [op |-> "lock", lock |-> lock, mode |-> mode]
Unlock(lock) == [op |-> "unlock", lock |-> lock]
Do(op, arg) == [op |-> op, arg |-> arg]
with(lock, mode, body) == <<Lock(lock, mode)>> \o body \o <<Unlock(lock)>>

LAYERS == <<"LAYERS", "">>
CONSOLE == <<"CONSOLE", "">>
window(id) == <<"window", id>>
fore(id) == <<"fore", id>>
back(id) == <<"back", id>>

Rows(id) == [y \in 1 .. CASE id = "test" -> 1 [] id = "console" -> Height [] OTHER -> 2 |-> <<id, y - 1>>]
ForRows(id, op) == [i \in DOMAIN Rows(id) |-> Do(op, Rows(id)[i])]

write_with(id, draw_func) == with(back(id), "write", draw_func) \o <<Do("updated", id)>>

\* Wrong: the lock of fore is not taken.
flush_unlocked(id) == with(back(id), "write", ForRows(id, "copy_row"))

\* The lock of fore, then that of back.
flush(id) == with(fore(id), "write", with(back(id), "write", ForRows(id, "copy_row")))

draw == with(LAYERS, "write", <<Do("layers", "")>>)
draw_layer(id) == with(window(id), "read", <<Do("draw_layer", id)>>)
with_fore(id) == with(fore(id), "write", <<Do("draw_to", id)>>)

print(str) ==
  with(CONSOLE, "write",
       with(window("console"), "read",
            write_with("console", <<Do("put_string", str)>>) \o flush("console")))
println(str) == print(str) \o print(<<Newline>>)

-----------------------------------------------------------------------------
\* KernelMain2 up to sti: initialize_windows, init_console, and the last print.
initialize_windows ==
  with(LAYERS, "write",
       <<Do("new_window", "mouse")>> \o write_with("mouse", ForRows("mouse", "draw")) \o flush("mouse")
       \o <<Do("new_window", "test")>> \o write_with("test", ForRows("test", "draw")) \o flush("test")
       \o <<Do("up_down", <<"test", 1>>), Do("up_down", <<"mouse", 2>>)>>)

init_console ==
  with(LAYERS, "write",
       <<Do("new_window", "console"), Do("up_down", <<"console", 0>>)>>
       \o with(CONSOLE, "write",
               with(window("console"), "read", <<>>)
               \o with(window("console"), "read", write_with("console", <<Do("new_console", "")>>))))

boot == initialize_windows \o init_console \o print(<<"a", Newline>>) \o <<Do("sti", "")>>

\* Wrong: the guard of the mouse window lives until the end of the callback.
mouse_callback_held(move) ==
  with(LAYERS, "write", <<>>) \o with(window("mouse"), "write", <<Do("move_to", move)>> \o draw)

mouse_callback(move) ==
  with(LAYERS, "write", <<>>) \o with(window("mouse"), "write", <<Do("move_to", move)>>) \o draw

\* One turn of main's loop: the test window, which is not flushed, the screen, and the message.
main_turn ==
  LET shown == with(window("test"), "read", write_with("test", ForRows("test", "draw"))) \o draw
  IN  {shown} \union {shown \o mouse_callback(m) : m \in Moves} \union {shown \o println(s) : s \in Texts}

initialize_taskB_window ==
  <<Do("new_window", "taskB")>> \o write_with("taskB", ForRows("taskB", "draw")) \o flush("taskB")
  \o with(LAYERS, "write", <<Do("up_down", <<"taskB", 2>>)>>)
taskB_turn ==
  with(window("taskB"), "read", write_with("taskB", ForRows("taskB", "draw")) \o flush("taskB"))

-----------------------------------------------------------------------------
Init ==
  /\ todo = [t \in Task |-> IF t = "main" THEN boot ELSE initialize_taskB_window]
  /\ held = {} /\ con = <<>> /\ drawn = <<>>
  /\ LET manager == new_manager(from_raw(Format, Width, Height, Stride))
     IN  /\ wins = manager.layers /\ layer_stack = manager.layer_stack
         /\ shadow = manager.shadow /\ vram = manager.buffer
  /\ frame = [id \in {"mouse", "test", "taskB"} |-> 0]
  /\ sti = FALSE

Runs(t) == t = "main" \/ sti
Next_instruction(t) == Head(todo[t])
IsNext(t, op) == Runs(t) /\ todo[t] # <<>> /\ Next_instruction(t).op = op
Arg(t) == Next_instruction(t).arg
Done(t) == todo' = [todo EXCEPT ![t] = Tail(@)]
Expand(t, program) == todo' = [todo EXCEPT ![t] = program \o Tail(@)]

\* SpinMutex and SpinRwLock, as SpinRwLock is shown to behave.
Free(lock, mode) == \A h \in held : h[1] = lock => mode = "read" /\ h[3] = "read"

lock(t) ==
  /\ IsNext(t, "lock") /\ Free(Next_instruction(t).lock, Next_instruction(t).mode)
  /\ held' = held \union {<<Next_instruction(t).lock, t, Next_instruction(t).mode>>}
  /\ Done(t)
  /\ UNCHANGED <<wins, layer_stack, shadow, vram, con, frame, drawn, sti>>

unlock(t) ==
  /\ IsNext(t, "unlock")
  /\ held' = {h \in held : h[1] # Next_instruction(t).lock \/ h[2] # t}
  /\ Done(t)
  /\ UNCHANGED <<wins, layer_stack, shadow, vram, con, frame, drawn, sti>>

\* The next turn of a loop.
turn(t) ==
  /\ Runs(t) /\ todo[t] = <<>>
  /\ \E p \in IF t = "main" THEN main_turn ELSE {taskB_turn} : todo' = [todo EXCEPT ![t] = p]
  /\ UNCHANGED <<held, wins, layer_stack, shadow, vram, con, frame, drawn, sti>>

-----------------------------------------------------------------------------
Position(id) == CASE id = "test" -> [x |-> 1, y |-> 1] [] id = "taskB" -> [x |-> 1, y |-> 0] [] OTHER -> [x |-> 0, y |-> 0]
Transparent == <<"1", "1", "1">>

new_windows(t) ==
  /\ IsNext(t, "new_window")
  /\ LET id == Arg(t)
         win == IF id = "console" THEN new_window(Format, Width, Height)
                ELSE new_window(Format, 2, Len(Rows(id)))
         placed == [win EXCEPT !.pos = Position(id)]
     IN  wins' = (id :> IF id = "mouse" THEN set_transparent_color(placed, Transparent) ELSE placed) @@ wins
  /\ Done(t)
  /\ UNCHANGED <<held, layer_stack, shadow, vram, con, frame, drawn, sti>>

up_downs(t) ==
  /\ IsNext(t, "up_down")
  /\ layer_stack' = up_down(layer_stack, Arg(t)[1], Arg(t)[2])
  /\ Done(t)
  /\ UNCHANGED <<held, wins, shadow, vram, con, frame, drawn, sti>>

\* A row of what the task draws: a part of the cursor, or of the next frame.
Shape(id, x, y) ==
  IF id # "mouse" THEN <<id, ToString(frame[id]), "">>
  ELSE IF x > y THEN Transparent ELSE <<id, "@", "">>
draw_row(t) ==
  /\ IsNext(t, "draw")
  /\ LET id == Arg(t)[1]  y == Arg(t)[2]  fb == wins[id].back
     IN  /\ wins' = [wins EXCEPT ![id].back =
                       write_where(fb, from_wh(0, y, fb.w, 1), LAMBDA x, j : TRUE, LAMBDA x, j : Shape(id, x, j))]
         /\ frame' = [frame EXCEPT ![id] = IF y = fb.h - 1 THEN (@ + 1) % 2 ELSE @]
  /\ Done(t)
  /\ UNCHANGED <<held, layer_stack, shadow, vram, con, drawn, sti>>

updated(t) ==
  /\ IsNext(t, "updated")
  /\ wins' = [wins EXCEPT ![Arg(t)].updated = TRUE]
  /\ Done(t)
  /\ UNCHANGED <<held, layer_stack, shadow, vram, con, frame, drawn, sti>>

\* A row of the copy from back to fore.
copy_row(t) ==
  /\ IsNext(t, "copy_row")
  /\ LET id == Arg(t)[1]  y == Arg(t)[2]  win == wins[id]
     IN  wins' = [wins EXCEPT ![id].fore.data = [i \in DOMAIN @ |->
                    IF i \div win.fore.stride = y THEN win.back.data[i] ELSE @[i]]]
  /\ Done(t)
  /\ UNCHANGED <<held, layer_stack, shadow, vram, con, frame, drawn, sti>>

\* LayeredWindowManager::draw goes through the layers, then copies the shadow to the screen.
layers(t) ==
  /\ IsNext(t, "layers")
  /\ drawn' = <<>>
  /\ Expand(t, FlattenSeq([i \in DOMAIN layer_stack |-> draw_layer(layer_stack[i])]) \o <<Do("present", "")>>)
  /\ UNCHANGED <<held, wins, layer_stack, shadow, vram, con, frame, sti>>

draw_layers(t) ==
  /\ IsNext(t, "draw_layer")
  /\ Expand(t, IF wins[Arg(t)].updated THEN with_fore(Arg(t)) ELSE <<>>)
  /\ UNCHANGED <<held, wins, layer_stack, shadow, vram, con, frame, drawn, sti>>

draw_window_to(t) ==
  /\ IsNext(t, "draw_to")
  /\ shadow' = draw_to(wins[Arg(t)], shadow)
  /\ drawn' = Append(drawn, [id |-> Arg(t), pos |-> wins[Arg(t)].pos, fore |-> wins[Arg(t)].fore,
                             transparent |-> wins[Arg(t)].transparent])
  /\ Done(t)
  /\ UNCHANGED <<held, wins, layer_stack, vram, con, frame, sti>>

present(t) ==
  /\ IsNext(t, "present")
  /\ vram' = copy(vram, [x |-> 0, y |-> 0], shadow)
  /\ Done(t)
  /\ UNCHANGED <<held, wins, layer_stack, shadow, con, frame, drawn, sti>>

move_to(t) ==
  /\ IsNext(t, "move_to")
  /\ wins' = [wins EXCEPT !["mouse"].pos =
                clamp([x |-> @.x + Arg(t).x, y |-> @.y + Arg(t).y], [x |-> Width, y |-> Height])]
  /\ Done(t)
  /\ UNCHANGED <<held, layer_stack, shadow, vram, con, frame, drawn, sti>>

new_consoles(t) ==
  /\ IsNext(t, "new_console")
  /\ con' = new_console(wins["console"].back)
  /\ wins' = [wins EXCEPT !["console"].back = con'.back]
  /\ Done(t)
  /\ UNCHANGED <<held, layer_stack, shadow, vram, frame, drawn, sti>>

put_strings(t) ==
  /\ IsNext(t, "put_string")
  /\ con' = put_string([con EXCEPT !.back = wins["console"].back], Arg(t))
  /\ wins' = [wins EXCEPT !["console"].back = con'.back]
  /\ Done(t)
  /\ UNCHANGED <<held, layer_stack, shadow, vram, frame, drawn, sti>>

set_interrupt_flag(t) ==
  /\ IsNext(t, "sti")
  /\ sti' = TRUE
  /\ Done(t)
  /\ UNCHANGED <<held, wins, layer_stack, shadow, vram, con, frame, drawn>>

Next ==
  \E t \in Task :
    \/ lock(t) \/ unlock(t) \/ turn(t) \/ new_windows(t) \/ up_downs(t) \/ draw_row(t) \/ updated(t)
    \/ copy_row(t) \/ layers(t) \/ draw_layers(t) \/ draw_window_to(t) \/ present(t) \/ move_to(t)
    \/ new_consoles(t) \/ put_strings(t) \/ set_interrupt_flag(t)

Spec == Init /\ [][Next]_vars

-----------------------------------------------------------------------------
IsHeld(l) == \E h \in held : h[1] = l
\* The tasks that hold the lock a task spins on, in a mode that excludes it: itself, perhaps.
WaitsFor(t) ==
  IF ~IsNext(t, "lock") THEN {}
  ELSE LET i == Next_instruction(t)
       IN  {h[2] : h \in {h \in held : h[1] = i.lock /\ ~(i.mode = "read" /\ h[3] = "read")}}

(* The nested scopes of guards of main, the mouse callback, print and taskB *)
(* never close a circle of waiting: main and taskB do not wait for each     *)
(* other, and neither spins on a lock that it holds itself, while the other *)
(* one runs on.                                                             *)
NoDeadlock == \A S \in SUBSET Task \ {{}} : \E t \in S : WaitsFor(t) \intersect S = {}

(* After a draw every pixel of the screen is the one of the topmost window  *)
(* that has one there, the cursor above everything; the part of a scan line *)
(* beyond the width is left alone. Clipped and transparent windows included.*)
ScreenShowsWindows ==
  drawn # <<>> /\ ~IsHeld(LAYERS) =>
    /\ drawn[1].id = "console" /\ drawn[Len(drawn)].id = "mouse"
    /\ \A x \in 0 .. Width - 1, y \in 0 .. Height - 1 : color_at(vram, x, y) = Composed(drawn, x, y, Black)
    /\ \A x \in Width .. Stride - 1, y \in 0 .. Height - 1 : vram.data[to_index(vram, x, y)] = Black

(* No window is drawn half old and half new, although taskB flushes its     *)
(* frames row by row while main draws.                                      *)
WholeFrames ==
  \A i \in DOMAIN drawn : drawn[i].id = "taskB" =>
    \A j, k \in DOMAIN drawn[i].fore.data : drawn[i].fore.data[j] = drawn[i].fore.data[k]

(* Outside a print the console's window shows its text buffer, across line  *)
(* breaks, wraps and any number of scrolls; the rectangle that scrolls is   *)
(* the one move_rect asserts, inside the window.                            *)
ConsoleShowsText ==
  con # <<>> /\ ~IsHeld(CONSOLE) =>
    /\ Shows(con, wins["console"].back)
    /\ sti => wins["console"].fore = wins["console"].back
    /\ contained_by(scroll_rect(con), area(wins["console"].back))
    /\ con.cursor_row < con.n_rows /\ con.cursor_col < con.n_cols
=============================================================================
