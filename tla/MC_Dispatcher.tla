--------------------------- MODULE MC_Dispatcher ---------------------------
EXTENDS Dispatcher

CONSTANTS t1, t2, t3

MCThreads2 == {t1, t2}
MCThreads3 == {t1, t2, t3}
MCThreads1 == {t1}
=============================================================================
