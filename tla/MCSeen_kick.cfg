SPECIFICATION Spec
CONSTANTS
    bot = bot  ann = ann  Ann = Ann  joe = joe
    cats = cats  dogs = dogs
    Nick = {bot, ann, Ann, joe}
    Lower = {bot, ann, joe}
    Fold <- Cases
    Bot = bot
    Channel = {cats, dogs}
    Nothing = Nothing
    MaxEvents = 7
INVARIANT KickedAreGone
CHECK_DEADLOCK FALSE
