----------------------------- MODULE MCWindows ------------------------------
(* Windows on a 1024 x 768 screen with the constants of the source.         *)
EXTENDS Windows

CONSTANTS shell, editor, third

\* Only the shell differs from the other programs.
MCSymmetry == Permutations({editor, third})

At(px, py) == [x |-> px, y |-> py]

\* The first window's title bar, close button and left edge, and the second
\* one's right lower corner: each of these is also a place to drag to, and lies
\* in the other window or beside it.
MCPoints == {At(60, 85), At(690, 84), At(45, 300), At(735, 539)}
MCOrigins == {At(500, 2000)}

\* Once an activation was interrupted, no property looks at the screen or at the
\* exceptions for it, and no step depends on them: states that differ in nothing
\* else are the same.
MCView ==
    IF torn
    THEN <<desk.win, desk.count, desk.z, desk.active, desk.drag, desk.resize, desk.foreground,
           desk.stack, desk.alive, mouse, calls, halfway, lingering, started, late, events>>
    ELSE <<vars>>
=============================================================================
