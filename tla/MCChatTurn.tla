------------------------------ MODULE MCChatTurn ------------------------------
EXTENDS ChatTurn

CONSTANTS r1, r2, r3, a1, a2

MCRequests == {r1, r2, r3}
MCAnswers == {a1, a2}
===============================================================================
