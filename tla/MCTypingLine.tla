---------------------------- MODULE MCTypingLine ----------------------------
EXTENDS TypingLine
=============================================================================
