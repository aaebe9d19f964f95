----------------------------- MODULE LCDScreen ------------------------------
(***************************************************************************)
(* The LCD screen (lib/LCDScreen.cpp): pixels are sampled on the rising    *)
(* edges of the pixel clock while DE is high, and the line and frame ends  *)
(* are told from how many edges DE was low.  The driver sends frames of    *)
(* any number of lines, with blanking in the ranges of the data sheet; a   *)
(* pixel carries its place in the frame that was sent.                     *)
(***************************************************************************)
EXTENDS Integers

CONSTANTS Width, Height,         \* the screen: 480 x 272
          FrameLines,            \* lines of a frame that is sent
          LineWidth,             \* pixels of a line that is sent
          MinHorizontal,         \* minHorizontalClks
          MinVertical,           \* minVerticalClks
          HorizontalBlank, VerticalBlank,   \* blanking the driver uses, in edges
          MaxFramesShown         \* bound: frames sent

(* What the code can tell apart: a line ends after MinHorizontal edges, a  *)
(* frame after MinVertical.                                                *)
ASSUME LcdAssumption ==
  /\ Width \in Nat /\ Height \in Nat /\ FrameLines \in Nat \ {0} /\ LineWidth \in Nat \ {0}
  /\ MinHorizontal \in Nat \ {0} /\ MinVertical \in Nat /\ MinHorizontal <= MinVertical
  /\ \A b \in HorizontalBlank : b \in MinHorizontal .. (MinVertical - 1)
  /\ \A b \in VerticalBlank : b \in Nat /\ b >= MinVertical

VARIABLES x, y, edgeCounter, lastDEHighEdge, screen, flips,
          de, col, lin, blank, framesSent
lcdVars == << x, y, edgeCounter, lastDEHighEdge, screen, flips, de, col, lin, blank, framesSent >>

Pixels == (0..(Width - 1)) \X (0..(Height - 1))
Blank  == << -1, -1, -1 >>

LcdInit ==
  /\ x = 0 /\ y = 0 /\ edgeCounter = 0 /\ lastDEHighEdge = 0 /\ flips = 0
  /\ screen = [p \in Pixels |-> Blank]
  /\ de = 0 /\ col = 0 /\ lin = 0 /\ framesSent = 0
  /\ blank \in VerticalBlank

(* Mutant of LineStart: HSync is not told apart from VSync.                *)
LineStartNoFrames(low) ==
  IF low >= MinHorizontal THEN [x |-> 0, y |-> y + 1, flip |-> 0]
  ELSE [x |-> x, y |-> y, flip |-> 0]

(* Where the next pixel goes after low edges with DE low.                  *)
LineStart(low) ==
  IF low >= MinVertical THEN [x |-> 0, y |-> 0, flip |-> 1]
  ELSE IF low >= MinHorizontal THEN [x |-> 0, y |-> y + 1, flip |-> 0]
  ELSE [x |-> x, y |-> y, flip |-> 0]

seeSamplingEdge(level, pixel) ==
  /\ edgeCounter' = edgeCounter + 1
  /\ IF level = 0 THEN UNCHANGED << x, y, lastDEHighEdge, screen, flips >>
     ELSE LET at  == LineStart(edgeCounter' - (lastDEHighEdge + 1))
              fit == at.x < Width /\ at.y < Height
          IN  /\ x' = IF fit THEN at.x + 1 ELSE at.x
              /\ y' = at.y
              /\ flips' = flips + at.flip
              /\ screen' = IF fit THEN [screen EXCEPT ![<< at.x, at.y >>] = pixel] ELSE screen
              /\ lastDEHighEdge' = edgeCounter'

-----------------------------------------------------------------------------
(* The driver: blanking, then the pixels of a line.                        *)
BlankEdge ==
  /\ blank > 0
  /\ seeSamplingEdge(0, Blank)
  /\ blank' = blank - 1
  /\ UNCHANGED << de, col, lin, framesSent >>

LastPixel == col = LineWidth - 1
LastLine  == lin = FrameLines - 1

PixelEdge ==
  /\ blank = 0 /\ framesSent < MaxFramesShown
  /\ seeSamplingEdge(1, << framesSent, col, lin >>)
  /\ de' = IF LastPixel THEN 0 ELSE 1
  /\ col' = IF LastPixel THEN 0 ELSE col + 1
  /\ lin' = IF ~LastPixel THEN lin ELSE IF LastLine THEN 0 ELSE lin + 1
  /\ framesSent' = IF LastPixel /\ LastLine THEN framesSent + 1 ELSE framesSent
  /\ blank' \in IF ~LastPixel THEN {0} ELSE IF LastLine THEN VerticalBlank ELSE HorizontalBlank

LcdNext == BlankEdge \/ PixelEdge

(* While the driver is between two lines of frame f, the screen shows the  *)
(* lines of f sent so far and below them those of the frame before, each   *)
(* pixel where it was sent; what does not fit is cut off, not wrapped.     *)
(* (LCDScreen::seeSamplingEdge.)                                           *)
PixelsInPlace ==
  \A p \in Pixels :
    LET sentNow == p[1] < LineWidth /\ (p[2] < lin \/ (p[2] = lin /\ p[1] < col))
        f       == IF sentNow THEN framesSent ELSE framesSent - 1
    IN  screen[p] = IF f < 0 \/ p[1] >= LineWidth \/ p[2] >= FrameLines
                    THEN Blank ELSE << f, p[1], p[2] >>
=============================================================================
